------------------------------ MODULE MCDigest ------------------------------
(***************************************************************************)
(* A small instance of Digest: two partners, a contact from the first      *)
(* one's card, two shared ones, and a flagged contact.                     *)
(***************************************************************************)
EXTENDS Digest

CONSTANTS p1, p2, own, firm, unresolved, flagged

MCPartners == <<p1, p2>>
MCSourceOf ==
    [c \in Contacts |-> CASE c = own -> p1 [] c = flagged -> p2 [] OTHER -> Shared]
=============================================================================
