------------------------------ MODULE MCIntake ------------------------------
(***************************************************************************)
(* A small instance of Intake: two ids, a management inquiry (bookable)    *)
(* and a card exchange by one and the same person, so that a match can     *)
(* appear between a request's first write and its repair.                  *)
(***************************************************************************)
EXTENDS Intake, TLC

CONSTANTS s1, s2, inquiry, exchange, pat

MCContents == {inquiry, exchange}
MCExchanges == {exchange}
MCPersonOf == [c \in MCContents |-> pat]
Symmetry == Permutations(SubmissionIds)
=============================================================================
