------------------------- MODULE MCSchedulingClaims -------------------------
(***************************************************************************)
(* The instance of MCScheduling, asked what the contract says of retries.  *)
(***************************************************************************)
EXTENDS MCScheduling

HoldsOf(r) == {e \in calendar : cmds[e.by].req = r}

(* backend-v2-contract.md:1231 and booking.ts:10-12: "An unchanged retry   *)
(* reuses the id, so a timeout cannot create a second calendar hold".      *)
UnchangedRetryHoldsOnce == \A r \in Requests : Cardinality(HoldsOf(r)) <= 1
=============================================================================
