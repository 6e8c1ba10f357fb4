----------------------------- MODULE ApprovalsMC -----------------------------
(* Four entries of a flow on the list of the index, on which the gates answer
   differently.  A flow that is not on the list comes of EditIndex. *)
EXTENDS Approvals

Entry(ready, described, primary, catalogued) ==
  [ready |-> ready, described |-> described, primary |-> primary,
   catalogued |-> catalogued]

MCEntered == {Entry(TRUE, TRUE, TRUE, TRUE),    \* executable
              Entry(TRUE, FALSE, FALSE, TRUE),  \* nothing is known of the flow
              Entry(TRUE, TRUE, TRUE, FALSE),   \* a primary one not in the catalog
              Entry(TRUE, TRUE, FALSE, FALSE)}  \* another one not in the catalog
=============================================================================
