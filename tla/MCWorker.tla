------------------------------ MODULE MCWorker ------------------------------
(***************************************************************************)
(* A small instance of Worker: the partners' notification of an inquiry,   *)
(* the acknowledgement of a card exchange flagged as spam (so skipped),    *)
(* and the confirmation of a booking made by that inquiry's Lead; two      *)
(* items a cycle, so that a queue builds up.                               *)
(***************************************************************************)
EXTENDS Worker

CONSTANTS inquiry, exchange, s1, s2

Row(sid, content, flagged, id) ==
    [submissionId |-> sid, content |-> content, spamSuspected |-> flagged,
     businessId |-> id]

MCAudit == <<Row(s1, inquiry, FALSE, 1), Row(s2, exchange, TRUE, 2)>>
MCAuditLeads == <<[submissionId |-> s1, leadId |-> 1]>>
MCKeys == {Key("notify_partners", s1), Key("send_qr_acknowledgement", s2),
           Key("send_booking_confirmation", 1)}
MCBackoff == <<1, 2>>
=============================================================================
