---------------------------- MODULE MCScheduling ----------------------------
(***************************************************************************)
(* A small instance of Scheduling: the visitor may ask for two slots that  *)
(* overlap, one after the other or each again, three commands in all; the  *)
(* rivals of other visitors are the subject of MCBooking.                  *)
(***************************************************************************)
EXTENDS Scheduling

CONSTANTS owner, b1, b2

Request(id, slot) == [id |-> id, leadId |-> owner, slot |-> slot]

MCRequests == {Request(b1, {1, 2}), Request(b2, {2, 3})}
=============================================================================
