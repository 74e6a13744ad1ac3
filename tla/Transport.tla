----------------------------- MODULE Transport -----------------------------
(***************************************************************************)
(* What the client makes of a reply (packages/submission-client:           *)
(* transport.ts).  Something in front of the endpoint may answer in its    *)
(* place: a cached answer to another request, a generic JSON 200, a page.  *)
(* Success is the one outcome that cannot be taken back, so a body has to  *)
(* prove that it answers this very request.                                *)
(*                                                                         *)
(* A body is [ok, typed, id, kind, lead, contact, sla, code, status]:      *)
(* typed says that its schema version is ours and that its fields are      *)
(* there and of their types; lead, contact and sla that they are not null; *)
(* code is the error's, status the bookingStatus.                          *)
(***************************************************************************)
EXTENDS Attempt

(* The call threw, the status is no 200, or what came is no JSON.          *)
NoBody == [ok |-> FALSE, typed |-> FALSE]

Generic == [NoBody EXCEPT !.ok = TRUE]

(* Mutant: whose success it is is not looked at.                           *)
IsValidSuccessOfAnyone(body, sent) ==
    /\ body.typed /\ body.kind = sent.kind
    /\ IF body.kind = "service_inquiry"
       THEN body.lead /\ ~ body.contact
       ELSE body.contact /\ ~ body.lead /\ ~ body.sla

(* The backend makes one record of a request: a Lead of an inquiry, a      *)
(* Contact of an exchange.                                                 *)
IsValidSuccess(body, sent) ==
    /\ body.typed /\ body.id = sent.id /\ body.kind = sent.kind
    /\ IF body.kind = "service_inquiry"
       THEN body.lead /\ ~ body.contact
       ELSE body.contact /\ ~ body.lead /\ ~ body.sla

(* What is no answer of this contract is no verdict either: the request    *)
(* may have been stored, and the same bytes are worth sending again.       *)
Read(body, sent) ==
    CASE body.ok /\ IsValidSuccess(body, sent) -> Result("ok", FALSE)
      [] ~ body.ok /\ body.typed -> ClassifyBackend(body.code)
      [] OTHER -> NetworkFailure

(* Mutant: a success is a success.                                         *)
ReadBookingOfAnyone(body, sent) ==
    CASE body.ok -> Result("ok", FALSE)
      [] ~ body.ok /\ body.typed -> ClassifyBooking(body.status)
      [] OTHER -> NetworkFailure

(* A refusal carries no identity that is checked; a success does, and      *)
(* `confirmed` with it.                                                    *)
ReadBooking(body, sent) ==
    CASE body.ok /\ body.typed /\ body.kind = "booking_request"
            /\ body.id = sent.id /\ body.status = "confirmed" -> Result("ok", FALSE)
      [] ~ body.ok /\ body.typed -> ClassifyBooking(body.status)
      [] OTHER -> NetworkFailure
=============================================================================
