------------------------------ MODULE AgentRun ------------------------------
(***************************************************************************)
(* What the rest of the system relies on about one agent run: the console, *)
(* which shows it, and the requests that resume it.  A run is worked on,   *)
(* waits for people or has settled; a settled run is never taken up again. *)
(* Playwright is started at most once over the whole life of the run, and  *)
(* an execution settles it: a run that was executed does not wait, and one *)
(* that was not is neither completed nor failed, unless the request skips  *)
(* the execution.                                                          *)
(***************************************************************************)
EXTENDS Naturals

VARIABLES life,   \* "working", or the status the last invocation ended with
          starts, \* how often Playwright was started
          skip    \* does the request skip the execution?

Waiting == "WAITING_FOR_APPROVAL"
Decided == {"COMPLETED", "FAILED"}
Open    == {"BLOCKED", "NEEDS_REVIEW"}

Init == /\ life = "working"
        /\ starts = 0
        /\ skip \in BOOLEAN

Start == /\ life = "working" /\ ~skip
         /\ starts = 0 /\ starts' = 1
         /\ UNCHANGED <<life, skip>>

Wait == /\ life = "working" /\ starts = 0
        /\ life' = Waiting
        /\ UNCHANGED <<starts, skip>>

TakeUp == /\ life = Waiting
          /\ life' = "working"
          /\ UNCHANGED <<starts, skip>>

Settle == /\ life = "working"
          /\ life' \in Open \cup (IF starts = 1 \/ skip THEN Decided ELSE {})
          /\ UNCHANGED <<starts, skip>>

Next == Start \/ Wait \/ TakeUp \/ Settle

Spec == Init /\ [][Next]_<<life, starts, skip>>
=============================================================================
