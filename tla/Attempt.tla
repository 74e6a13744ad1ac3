------------------------------ MODULE Attempt ------------------------------
(***************************************************************************)
(* The shared submission client, as functions of its state: what a call of *)
(* submit, request or retry does to the live attempt, and how an outcome   *)
(* is classified (packages/submission-client: attempt.ts, booking.ts,      *)
(* errors.ts, transport.ts).  The two clients are one machine: a live      *)
(* envelope, reused byte for byte while its material content is unchanged. *)
(***************************************************************************)
EXTENDS Naturals

NoEnvelope == [id |-> "none"]

(* A client: the live envelope, the status of its attempt, the two facts   *)
(* kept of the last failure, and whether a call is in flight.              *)
Idle ==
    [envelope |-> NoEnvelope, status |-> "idle", retryable |-> FALSE,
     exhausted |-> FALSE, inFlight |-> FALSE]

Begun(envelope) == [Idle EXCEPT !.envelope = envelope]
Live(c) == c.envelope # NoEnvelope

(* Mutant: a failed attempt is started again under a new id.               *)
NeedsNewUnlessSent(c, same) == ~ Live(c) \/ ~ same \/ c.status = "failed"

(* A new id when there is no live attempt or the answers changed; `same`   *)
(* says whether the material fingerprint is that of the live envelope.     *)
NeedsNew(c, same) == ~ Live(c) \/ ~ same

(* submit and request refuse: in flight, or the attempt is dead.           *)
Refuses(c, same) == c.inFlight \/ (~ NeedsNew(c, same) /\ c.exhausted)

(* retry refuses: in flight, or nothing that may be retried.               *)
RefusesRetry(c) == c.inFlight \/ ~ Live(c) \/ ~ c.retryable

Sending(c) == [c EXCEPT !.status = "sending", !.inFlight = TRUE]

(* The transport's result is in.                                           *)
Applied(c, result) ==
    IF result.outcome = "ok"
    THEN [Idle EXCEPT !.status = "succeeded"]
    ELSE [c EXCEPT !.status = "failed", !.inFlight = FALSE,
                   !.retryable = result.outcome = "retryable" /\ ~ result.exhausted,
                   !.exhausted = result.exhausted]

-----------------------------------------------------------------------------
Result(outcome, exhausted) == [outcome |-> outcome, exhausted |-> exhausted]

(* The request did not complete, or what came back is not an answer of     *)
(* this contract to this very request: the same bytes may be sent again.   *)
NetworkFailure == Result("retryable", FALSE)

(* There is no endpoint to ask, or none that is wired.                     *)
NotConfigured == Result("not_configured", FALSE)

(* classifyBackendError, with success beside it.                           *)
ClassifyBackend(code) ==
    CASE code = "OK" -> Result("ok", FALSE)
      [] code = "SUBMISSION_ID_CONFLICT" -> Result("permanent", TRUE)
      [] code = "SERVICE_NOT_CONFIGURED" -> NotConfigured
      [] code \in {"BUSY_TRY_AGAIN", "INTERNAL_ERROR", "SERVICE_UNAVAILABLE"} ->
            Result("retryable", FALSE)
      [] OTHER -> Result("permanent", FALSE)

(* classifyBookingError, by the bookingStatus of the reply; an error that  *)
(* carries none (an INTERNAL_ERROR) falls through to the last line.        *)
ClassifyBooking(status) ==
    CASE status = "confirmed" -> Result("ok", FALSE)
      [] status = "not_configured" -> Result("not_configured", TRUE)
      [] status = "failed" -> Result("retryable", FALSE)
      [] OTHER -> Result("permanent", TRUE)

(* Mutant: every failure offers to try again.                              *)
FormStateFailed(result) == IF result.outcome = "ok" THEN "idle" ELSE "failed"

(* applyResult and applyBooking: what the screen says of a failure (the    *)
(* schedule screen's word for "blocked" is "refused").                     *)
FormState(result) ==
    CASE result.outcome = "ok" -> "idle"
      [] result.outcome = "retryable" -> "failed"
      [] result.outcome = "not_configured" -> "unavailable"
      [] OTHER -> "blocked"
=============================================================================
