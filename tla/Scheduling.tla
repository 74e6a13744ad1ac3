----------------------------- MODULE Scheduling -----------------------------
(***************************************************************************)
(* One visitor with a stored inquiry who picks a time and books it: the    *)
(* schedule screen (useIntake.ts, Intake.tsx), the booking client          *)
(* (Attempt), a network that loses and delays, and the booking command     *)
(* (Booking).  Other visitors are here only as what the calendar may show  *)
(* at any time (ListBusy); as rivals they are the subject of MCBooking.    *)
(*                                                                         *)
(* The client gives a call up after twenty seconds; the command it started *)
(* runs on, so a visitor alone can have two commands run at once.          *)
(***************************************************************************)
EXTENDS Booking

CONSTANTS
    Visitor,            \* the Lead of the visitor's inquiry
    MaxTroubles         \* bound: calls lost or given up

A == INSTANCE Transport

ASSUME SchedulingAssumption == Visitor \in LeadIds /\ MaxTroubles \in Nat

VARIABLES
    client,             \* the booking client of the page
    picker,             \* the schedule screen: the chosen slot, its state
    flight,             \* the command being waited for, NoCmd or LostCmd
    used,               \* history: the visitor's requests so far
    told,               \* history: the requests reported confirmed
    troubles            \* history: how many calls went wrong

backend == <<leads, calendar, work, cmds, held, mailed>>
visitor == <<client, picker, flight, used, told>>
schedulingVars == <<backend, visitor, troubles>>

NoCmd == 0
LostCmd == MaxPosts + 1
NoSlot == {}

Own == {r \in Requests : r.leadId = Visitor}
Trouble == troubles < MaxTroubles /\ troubles' = troubles + 1

-----------------------------------------------------------------------------
(* The screen.                                                             *)

(* chooseDay (which clears the slot), chooseSlot or chooseMode, at any     *)
(* time: the pickers are not disabled while a call is in flight.  A slot   *)
(* stands for the slot and the mode.                                       *)
Choose(slot) ==
    /\ picker.screen = "schedule"
    /\ picker' = [picker EXCEPT !.slot = slot, !.state = "idle"]
    /\ UNCHANGED <<backend, client, flight, used, told, troubles>>

(* The days, the times and the two modes that are offered; another day     *)
(* clears the slot.                                                        *)
Pickers == \E slot \in {r.slot : r \in Own} \cup {NoSlot} : Choose(slot)

(* The one button: it says "confirm", or "try again" after a failure.      *)
Offered(retrying) ==
    /\ picker.screen = "schedule"
    /\ picker.slot # NoSlot
    /\ picker.state # "sending"
    /\ (picker.state = "failed") = retrying

(* Nothing was sent: the screen said "sending" before it asked.            *)
Refused ==
    /\ picker' = [picker EXCEPT !.state = "sending"]
    /\ UNCHANGED <<backend, client, flight, used, told, troubles>>

Send(c) ==
    /\ client' = A!Sending(c)
    /\ picker' = [picker EXCEPT !.state = "sending"]
    /\ UNCHANGED told
    /\ \/ /\ Start(c.envelope.req)
          /\ flight' = Len(cmds) + 1
          /\ UNCHANGED troubles
       \/ /\ Trouble
          /\ flight' = LostCmd
          /\ UNCHANGED backend

Same == A!Live(client) /\ client.envelope.req.slot = picker.slot

ConfirmRefused == Offered(FALSE) /\ A!Refuses(client, Same) /\ Refused

ConfirmNew(req) ==
    /\ Offered(FALSE) /\ ~ A!Refuses(client, Same)
    /\ A!NeedsNew(client, Same)
    /\ req \in Own \ used /\ req.slot = picker.slot
    /\ Send(A!Begun([id |-> req.id, req |-> req]))
    /\ used' = used \cup {req}

ConfirmAgain ==
    /\ Offered(FALSE) /\ ~ A!Refuses(client, Same)
    /\ ~ A!NeedsNew(client, Same)
    /\ Send(client)
    /\ UNCHANGED used

(* A retry that is offered is one the client sends, as on the form.        *)
Retry ==
    /\ Offered(TRUE) /\ ~ A!RefusesRetry(client)
    /\ Send(client)
    /\ UNCHANGED used

-----------------------------------------------------------------------------
(* Results.                                                                *)

Apply(result) ==
    /\ client' = A!Applied(client, result)
    /\ flight' = NoCmd
    /\ picker' = IF result.outcome = "ok"
                 THEN [picker EXCEPT !.screen = "scheduled", !.state = "idle"]
                 ELSE [picker EXCEPT !.state = A!FormState(result)]
    /\ told' = IF result.outcome = "ok" THEN told \cup {client.envelope.req} ELSE told
    /\ UNCHANGED <<backend, used>>

(* The body of a command's answer; an INTERNAL_ERROR has no status.        *)
BodyOf(i) ==
    [ok |-> cmds[i].status = "confirmed", typed |-> TRUE, kind |-> "booking_request",
     id |-> cmds[i].req.id, status |-> cmds[i].status]
Sent == [id |-> client.envelope.id]

(* Mutant: only an answer with a booking status ends the call.             *)
ReceiveStatus ==
    /\ flight \in DOMAIN cmds
    /\ At(flight, "ended")
    /\ cmds[flight].status # "error"
    /\ Apply(A!ReadBooking(BodyOf(flight), Sent))
    /\ UNCHANGED troubles

(* The command has ended: its answer arrives; a killed one has none, and   *)
(* the platform's error page arrives instead.                              *)
Receive ==
    /\ flight \in DOMAIN cmds
    /\ At(flight, "ended")
    /\ \/ Apply(A!ReadBooking(BodyOf(flight), Sent))
       \/ cmds[flight].status = "error" /\ Apply(A!ReadBooking(A!NoBody, Sent))
    /\ UNCHANGED troubles

(* Something in front of the endpoint answers: with an answer it has kept  *)
(* or with a success of its own.  The command runs on.                     *)
AnsweredElsewhere ==
    /\ flight # NoCmd
    /\ Trouble
    /\ \E body \in {BodyOf(i) : i \in {j \in DOMAIN cmds : At(j, "ended")}}
                    \cup {A!Generic} :
          Apply(A!ReadBooking(body, Sent))

TimeOut ==
    /\ flight \in DOMAIN cmds
    /\ Trouble
    /\ Apply(A!NetworkFailure)

NeverArrived ==
    /\ flight = LostCmd
    /\ Apply(A!NetworkFailure)
    /\ UNCHANGED troubles

-----------------------------------------------------------------------------
(* The rest of the world: the commands run on, or die; partners clear      *)
(* events; confirmations are mailed.                                       *)

Serve == (\E i \in DOMAIN cmds : Continue(i)) /\ UNCHANGED <<visitor, troubles>>

Fail == (\E i \in DOMAIN cmds : Die(i)) /\ Trouble /\ UNCHANGED visitor

Others ==
    /\ PartnerClears \/ Deliver
    /\ UNCHANGED <<visitor, troubles>>

SchedulingInit ==
    /\ Init
    /\ client = A!Idle /\ flight = NoCmd /\ troubles = 0
    /\ picker = [screen |-> "schedule", state |-> "idle", slot |-> NoSlot]
    /\ used = {} /\ told = {}

Press ==
    \/ ConfirmRefused \/ ConfirmAgain
    \/ \E req \in Requests : ConfirmNew(req)
    \/ Retry

SchedulingNext ==
    \/ Pickers
    \/ Press
    \/ Receive \/ NeverArrived \/ TimeOut \/ AnsweredElsewhere
    \/ Serve \/ Fail \/ Others

(* Answers and failures reach the client in the end, and commands run on.  *)
SchedulingFairness ==
    WF_schedulingVars(Receive \/ NeverArrived) /\ WF_schedulingVars(Serve)

SchedulingSpec ==
    SchedulingInit /\ [][SchedulingNext]_schedulingVars /\ SchedulingFairness

-----------------------------------------------------------------------------
(* Properties.                                                             *)

(* Nobody is shown "your call is scheduled" for a request no event was     *)
(* ever created for, through timeouts, retries, deaths and rivals; unless  *)
(* two commands of this visitor's overlapped.                              *)
ScheduledIsHeld ==
    ~ LeadRaced(Visitor) => told \subseteq held

(* A screen that says sending comes back from it, whatever became of the   *)
(* call: a press that was refused because a call was out is answered by    *)
(* that call.  Only an attempt that is dead keeps the screen there, until  *)
(* another slot is chosen.                                                 *)
SendingComesBack ==
    picker.state = "sending" ~> picker.state # "sending" \/ client.exhausted
=============================================================================
