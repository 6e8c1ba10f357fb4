---------------------------- MODULE ConsoleStore ----------------------------
(***************************************************************************)
(* The console's state.json and the lock around its read-modify-write      *)
(* (apps/console/lib/fs-atomic.ts, store.ts).  Unlike the orchestrator's   *)
(* lock, withFileLock runs its body without the lock once 30 seconds have  *)
(* passed, and removes whatever lock file is there afterwards.  readState  *)
(* takes no lock, yet writes the default state when it cannot read one.    *)
(***************************************************************************)
EXTENDS Naturals

CONSTANTS Tasks,      \* requests the server is handling
          NoTask,     \* "no lock file"
          Missing,    \* marks a state.json that cannot be read
          LongWaits,  \* may a task wait 30 s while live tasks hold the lock?
          Crashes,    \* may the server be killed?
          FileErrors, \* may writing or unlinking a lock file fail?
          FirstBoot   \* does the server start without a state.json?

ASSUME TasksAssumption == NoTask \notin Tasks /\ Missing \notin Tasks
ASSUME SwitchAssumption == {LongWaits, Crashes, FileErrors, FirstBoot} \subseteq BOOLEAN

VARIABLES lock,  \* the task that created the lock file, or NoTask
          pc,    \* pc[t]: where t is
          seen,  \* seen[t]: the state t read
          doc,   \* state.json: the changes made to it
          left   \* has a failing write or unlink left the lock file there?

vars == <<lock, pc, seen, doc, left>>

Unreadable == {Missing}

Body   == {"read", "default", "write", "release"}
Viewer == {"view", "viewDefault"}

TypeOK == /\ lock \in Tasks \cup {NoTask}
          /\ pc \in [Tasks -> {"idle", "trying", "down"} \cup Body \cup Viewer]
          /\ seen \in [Tasks -> SUBSET Tasks]
          /\ doc \in (SUBSET Tasks) \cup {Unreadable}
          /\ left \in BOOLEAN

Init == /\ lock = NoTask
        /\ pc = [t \in Tasks |-> "idle"]
        /\ seen = [t \in Tasks |-> {}]
        /\ doc = IF FirstBoot THEN Unreadable ELSE {}
        /\ left = FALSE

-----------------------------------------------------------------------------
Goto(t, label) == pc' = [pc EXCEPT ![t] = label]
See(t, what)   == seen' = [seen EXCEPT ![t] = what]

\* The lock file's creator is still running its body.
HeldLive == lock # NoTask /\ pc[lock] \in Body

Call(t) == /\ pc[t] = "idle"
           /\ Goto(t, "trying")
           /\ UNCHANGED <<lock, seen, doc, left>>

\* Bug: writeFile without the "wx" flag.
AcquireShared(t) == /\ pc[t] = "trying"
                    /\ lock' = t
                    /\ Goto(t, "read")
                    /\ UNCHANGED <<seen, doc, left>>

\* writeFile(lockPath, pid, {flag: "wx"}) succeeds.
Acquire(t) == /\ pc[t] = "trying"
              /\ lock = NoTask
              /\ lock' = t
              /\ Goto(t, "read")
              /\ UNCHANGED <<seen, doc, left>>

\* The pid cannot be written to the lock file that has been created: the loop
\* goes on, and finds the file there.
CreateFails(t) == /\ FileErrors
                  /\ pc[t] = "trying" /\ lock = NoTask
                  /\ lock' = t /\ left' = TRUE
                  /\ UNCHANGED <<pc, seen, doc>>

\* Bug: the loop has no deadline.
ExpireNever(t) == FALSE /\ pc[t] = "trying" /\ UNCHANGED vars

\* The deadline passes: the loop ends and the body runs without the lock.  With
\* LongWaits that may be while live tasks hold it, or have just given it back.
Expire(t) == /\ pc[t] = "trying"
             /\ LongWaits \/ (lock # NoTask /\ ~HeldLive)
             /\ Goto(t, "read")
             /\ UNCHANGED <<lock, seen, doc, left>>

Read(t) == /\ pc[t] = "read"
           /\ See(t, IF doc = Unreadable THEN {} ELSE doc)
           /\ Goto(t, IF doc = Unreadable THEN "default" ELSE "write")
           /\ UNCHANGED <<lock, doc, left>>

\* readState's catch: the default state is written before it is returned.
WriteDefault(t) == /\ pc[t] = "default"
                   /\ doc' = {}
                   /\ Goto(t, "write")
                   /\ UNCHANGED <<lock, seen, left>>

\* Bug: the old runs are nested as one element (no spread).
WriteNested(t) == /\ pc[t] = "write"
                  /\ doc' = {seen[t], t}
                  /\ See(t, {})
                  /\ Goto(t, "release")
                  /\ UNCHANGED <<lock, left>>

\* fn changed the state it was given; writeState renames it into place.
Write(t) == /\ pc[t] = "write"
            /\ doc' = seen[t] \cup {t}
            /\ See(t, {})
            /\ Goto(t, "release")
            /\ UNCHANGED <<lock, left>>

\* fn or writeState throws: nothing is written, the `finally` still runs.
Fail(t) == /\ pc[t] \in Body \ {"release"}
           /\ Goto(t, "release")
           /\ See(t, {})
           /\ UNCHANGED <<lock, doc, left>>

\* Bug: only the task's own lock file is removed.
ReleaseOwn(t) == /\ pc[t] = "release"
                 /\ lock' = IF lock = t THEN NoTask ELSE lock
                 /\ Goto(t, "idle")
                 /\ UNCHANGED <<seen, doc, left>>

\* unlink of whatever lock file is there; that it fails is passed over.
Release(t) == /\ pc[t] = "release"
              /\ \/ lock' = NoTask /\ left' = FALSE
                 \/ FileErrors /\ left' = TRUE /\ UNCHANGED lock
              /\ Goto(t, "idle")
              /\ UNCHANGED <<seen, doc>>

\* readState outside mutateState (GET handlers).
View(t) == /\ pc[t] = "idle"
           /\ doc = Unreadable
           /\ Goto(t, "viewDefault")
           /\ UNCHANGED <<lock, seen, doc, left>>

ViewDefault(t) == /\ pc[t] = "viewDefault"
                  /\ doc' = {}
                  /\ Goto(t, "idle")
                  /\ UNCHANGED <<lock, seen, left>>

Crash == /\ Crashes
         /\ \E t \in Tasks : pc[t] # "down"
         /\ pc' = [t \in Tasks |-> "down"]
         /\ seen' = [t \in Tasks |-> {}]
         /\ UNCHANGED <<lock, doc, left>>

Restart == /\ \A t \in Tasks : pc[t] = "down"
           /\ pc' = [t \in Tasks |-> "idle"]
           /\ UNCHANGED <<lock, seen, doc, left>>

Step(t) == \/ Acquire(t) \/ Expire(t)
           \/ Read(t) \/ WriteDefault(t) \/ Write(t) \/ Fail(t) \/ Release(t)
           \/ ViewDefault(t)

Next == \/ \E t \in Tasks : Step(t) \/ CreateFails(t) \/ Call(t) \/ View(t)
        \/ Crash \/ Restart

\* The event loop runs every task again and again; a task is not overtaken
\* for ever at the lock (it has a deadline).
Fairness == \A t \in Tasks : SF_vars(Step(t))

Spec == Init /\ [][Next]_vars /\ Fairness

-----------------------------------------------------------------------------
\* Every mutateState is one indivisible change of the state, or none.
Op == [t \in Tasks |->
         IF pc[t] \in {"trying", "read", "default", "write"} THEN "mutate" ELSE "none"]
Store == INSTANCE AtomicStore WITH Threads <- Tasks, op <- Op
ImplementsAtomicStore == Store!Spec

\* Every mutateState comes to its end, or the server is killed.
CallsEnd == \A t \in Tasks : pc[t] = "trying" ~> pc[t] \in {"idle", "down"}

\* The lock file of a killed server does not stay for ever once tasks want
\* the lock again: somebody times out and removes it, unless the unlink fails.
StaleLockGoes ==
  \A t \in Tasks :
    (pc[t] = "trying" /\ ~HeldLive) ~> (lock = NoTask \/ HeldLive \/ pc[t] = "down" \/ left)

=============================================================================
