----------------------------- MODULE MCBooking ------------------------------
(***************************************************************************)
(* A small instance of Booking: a Lead that may book and asks for a slot   *)
(* and then, after an edit, for another; a second Lead after a slot that   *)
(* overlaps both; and a Lead of a pathway that cannot be booked.           *)
(***************************************************************************)
EXTENDS Booking

CONSTANTS owner, second, tenant, b1, b2, b3, b4

Request(id, lead, slot) == [id |-> id, leadId |-> lead, slot |-> slot]

First == Request(b1, owner, {1, 2})
Edited == Request(b2, owner, {3, 4})
Rival == Request(b3, second, {2, 3})
Barred == Request(b4, tenant, {1, 2})
MCRequests == {First, Edited, Rival, Barred}

(* Bound: a behaviour has an edit or a rival, not both.                    *)
EditOrRival ==
    LET asked == {cmds[i].req : i \in DOMAIN cmds} IN ~ {Edited, Rival} \subseteq asked
=============================================================================
