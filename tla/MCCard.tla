------------------------------- MODULE MCCard -------------------------------
(***************************************************************************)
(* A small instance of Card: both partners, and entries that make every    *)
(* kind of answer of the backend happen.                                   *)
(***************************************************************************)
EXTENDS Card, TLC

CONSTANTS zachary, ethaniel

MCEntries ==
    {[fullName |-> "plain", category |-> "other"],
     [email |-> "email"],
     [phone |-> "tabbed"]}
=============================================================================
