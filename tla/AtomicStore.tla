----------------------------- MODULE AtomicStore -----------------------------
(***************************************************************************)
(* What callers of fs_atomic.py and agent_state_store.py are promised of   *)
(* one shared JSON document: every request changes the document in one     *)
(* indivisible step, or never changes it.  "mutate" adds the caller's      *)
(* change to what is there (mutate_json_file, mutate_snapshot), "save"     *)
(* replaces the document (save_snapshot).                                  *)
(***************************************************************************)
EXTENDS Naturals

CONSTANT Threads

VARIABLES doc,  \* the changes the visible document contains
          op    \* op[t]: the request of t that is neither applied nor dropped

Ops == {"mutate", "save"}

Init == /\ doc = {}
        /\ op = [t \in Threads |-> "none"]

Request(t, o) == /\ op[t] = "none"
                 /\ op' = [op EXCEPT ![t] = o]
                 /\ UNCHANGED doc

Apply(t) == /\ op[t] # "none"
            /\ doc' = IF op[t] = "mutate" THEN doc \cup {t} ELSE {t}
            /\ op' = [op EXCEPT ![t] = "none"]

\* Requests that raised, timed out or died with their process.
Drop(S) == /\ op' = [t \in Threads |-> IF t \in S THEN "none" ELSE op[t]]
           /\ UNCHANGED doc

Next == \/ \E t \in Threads : Apply(t) \/ \E o \in Ops : Request(t, o)
        \/ \E S \in SUBSET Threads : Drop(S)

Spec == Init /\ [][Next]_<<doc, op>>
=============================================================================
