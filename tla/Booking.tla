------------------------------ MODULE Booking ------------------------------
(***************************************************************************)
(* The booking command: executeBookingCommand and the handler that mails   *)
(* its confirmation (core/Booking.js), over the Leads tab, the Work tab    *)
(* and the partners' calendar (platform/SheetRepository.js,                *)
(* platform/GoogleServices.js, calendar in RUN_MODE_LIVE).                 *)
(*                                                                         *)
(* Unlike an intake, a booking takes NO lock.  Commands overlap, each call *)
(* to the sheet or the calendar is a step of its own, the three cells of a *)
(* Lead are written one by one, and a command may throw or be killed       *)
(* between any two of them.  A Lead is known here by those three cells.    *)
(***************************************************************************)
EXTENDS Naturals, Sequences, FiniteSets

CONSTANTS
    LeadIds,            \* the rows of the Leads tab
    Bookable,           \* those of a bookable pathway and scope
    Requests,           \* the commands a browser may send, and resend
    Times,              \* the units a slot is made of
    MaxPosts,           \* bound: commands that ever reach the backend
    MaxRunning          \* bound: how many of them overlap

NoId == "none"

(* A request is [id, leadId, slot]; a slot is the set of times it takes,   *)
(* from slotStart to isoSlotEnd.  One id never stands for two requests:    *)
(* the browser mints a new one with every material edit (booking.ts).  The *)
(* contract lets no blank id in, so an id is never that of a blank row.    *)
ASSUME BookingAssumption ==
    /\ Bookable \subseteq LeadIds
    /\ \A r \in Requests : r.slot \subseteq Times
    /\ \A r, q \in Requests : r.id = q.id => r = q
    /\ \A r \in Requests : r.id # NoId
    /\ MaxPosts \in Nat /\ MaxRunning \in Nat

VARIABLES
    leads,              \* the booking cells of each Lead
    calendar,           \* our events in the calendar now
    work,               \* the confirmations in the Work tab, in order
    cmds,               \* the commands so far, running and ended
    held,               \* history: the requests an event was created for
    mailed              \* history: the requests a confirmation went out for

vars == <<leads, calendar, work, cmds, held, mailed>>

NoEvent == 0
Blank == [active |-> NoId, status |-> "none", event |-> NoEvent]

Running == {i \in DOMAIN cmds : cmds[i].pc # "ended"}

(* cal.getEvents(start, end): is a booking there at one of these times?    *)
Busy(slot) == \E e \in calendar : e.slot \cap slot # {}

-----------------------------------------------------------------------------
(* The environment: the partners, who also use the calendar.               *)

PartnerClears ==
    /\ \E e \in calendar : calendar' = calendar \ {e}
    /\ UNCHANGED <<leads, work, cmds, held, mailed>>

-----------------------------------------------------------------------------
(* A command starts: it reads the Lead once, and every decision up to the  *)
(* calendar is made on that reading.  `raced` is history: the commands     *)
(* that were running at some moment this one was.                          *)

Started(req, pc, status, replay) ==
    /\ Len(cmds) < MaxPosts
    /\ Cardinality(Running) < MaxRunning
    /\ cmds' = Append([i \in DOMAIN cmds |->
                          IF i \in Running
                          THEN [cmds[i] EXCEPT !.raced = @ \cup {Len(cmds) + 1}]
                          ELSE cmds[i]],
                      [req |-> req, pc |-> pc, status |-> status, replay |-> replay,
                       raced |-> Running])
    /\ UNCHANGED <<leads, calendar, work, held, mailed>>

Row(req) == leads[req.leadId]
MayBook(req) == req.leadId \in Bookable

Reject(req) ==
    /\ ~ MayBook(req)
    /\ Started(req, "ended", "rejected", FALSE)

(* Mutant: a recorded outcome is repeated as a confirmation.               *)
ReplayConfirms(req) ==
    /\ MayBook(req)
    /\ Row(req).active = req.id
    /\ Started(req, "ended", "confirmed", TRUE)

(* The same id again reports the outcome in the status cell.               *)
Replay(req) ==
    /\ MayBook(req)
    /\ Row(req).active = req.id
    /\ Started(req, "ended",
               CASE Row(req).status = "booked" -> "confirmed"
                 [] Row(req).status = "not_configured" -> "not_configured"
                 [] OTHER -> "failed",
               TRUE)

Fresh(req) == MayBook(req) /\ Row(req).active # req.id
HasBooking(row) == row.active # NoId /\ row.status = "booked"

AlreadyActive(req) ==
    /\ Fresh(req) /\ HasBooking(Row(req))
    /\ Started(req, "ended", "rejected", FALSE)

(* Too soon, too far ahead or out of hours: by the clock of the day.       *)
OutsideWindow(req) ==
    /\ Fresh(req) /\ ~ HasBooking(Row(req))
    /\ Started(req, "ended", "unavailable", FALSE)

NoCalendar(req) ==
    /\ Fresh(req) /\ ~ HasBooking(Row(req))
    /\ Started(req, "active", "not_configured", FALSE)

(* Mutant: a booked Lead may book again.                                   *)
ProceedAnyway(req) ==
    /\ Fresh(req)
    /\ Started(req, "list", "none", FALSE)

Proceed(req) ==
    /\ Fresh(req) /\ ~ HasBooking(Row(req))
    /\ Started(req, "list", "none", FALSE)

-----------------------------------------------------------------------------
(* A command goes on.                                                      *)

At(i, pc) == cmds[i].pc = pc
Goto(i, pc) == cmds' = [cmds EXCEPT ![i].pc = pc]
End(i, status) == cmds' = [cmds EXCEPT ![i].pc = "ended", ![i].status = status]

(* An unreadable calendar is not an available one.                         *)
ListFails(i) ==
    /\ At(i, "list")
    /\ End(i, "failed")
    /\ UNCHANGED <<leads, calendar, work, held, mailed>>

(* Mutant: the availability of the slot is not looked at.                  *)
ListIgnored(i) ==
    /\ At(i, "list")
    /\ Goto(i, "create")
    /\ UNCHANGED <<leads, calendar, work, held, mailed>>

(* Something is there: a booking, or an event of the partners' own, which  *)
(* may be there or not at any time.                                        *)
ListBusy(i) ==
    /\ At(i, "list")
    /\ End(i, "unavailable")
    /\ UNCHANGED <<leads, calendar, work, held, mailed>>

ListFree(i) ==
    /\ At(i, "list")
    /\ ~ Busy(cmds[i].req.slot)
    /\ Goto(i, "create")
    /\ UNCHANGED <<leads, calendar, work, held, mailed>>

(* The calendar answers, or not, and either way may have the event: an     *)
(* insert whose answer is lost has still inserted.                         *)
CreateEvent(i) ==
    /\ At(i, "create")
    /\ \E inserted, answered \in BOOLEAN :
          /\ answered => inserted
          /\ calendar' = IF inserted
                         THEN calendar \cup {[by |-> i, slot |-> cmds[i].req.slot]}
                         ELSE calendar
          /\ held' = IF inserted THEN held \cup {cmds[i].req} ELSE held
          /\ cmds' = [cmds EXCEPT ![i] =
                         [@ EXCEPT !.pc = "active",
                                   !.status = IF answered THEN "confirmed" ELSE "failed"]]
    /\ UNCHANGED <<leads, work, mailed>>

(* updateLeadFields: patchRecord writes the cells one after another.       *)
SetCell(i, pc, cells, next) ==
    /\ At(i, pc)
    /\ leads' = [leads EXCEPT ![cmds[i].req.leadId] = cells]
    /\ Goto(i, next)
    /\ UNCHANGED <<calendar, work, held, mailed>>

StatusCell(status) == IF status = "confirmed" THEN "booked" ELSE status

SetActive(i) ==
    SetCell(i, "active", [Row(cmds[i].req) EXCEPT !.active = cmds[i].req.id], "status")

SetStatus(i) ==
    SetCell(i, "status",
            [Row(cmds[i].req) EXCEPT !.status = StatusCell(cmds[i].status)],
            IF cmds[i].status = "confirmed" THEN "event" ELSE "answer")

SetEvent(i) ==
    SetCell(i, "event", [Row(cmds[i].req) EXCEPT !.event = i], "enqueue")

(* A confirmation to be mailed.  `rivals` is history: while one is being   *)
(* sent, the commands of its Lead that were running when the Lead was read.*)
Item(req) == [req |-> req, state |-> "pending", rivals |-> {}]

(* Mutant: the key does not tell one booking from another.                 *)
SearchAnyWork(i) ==
    /\ At(i, "enqueue")
    /\ Goto(i, IF work # <<>> THEN "answer" ELSE "append")
    /\ UNCHANGED <<leads, calendar, work, held, mailed>>

(* enqueue, without the lock: the search for the key ...                   *)
SearchWork(i) ==
    /\ At(i, "enqueue")
    /\ Goto(i, IF \E j \in DOMAIN work : work[j].req = cmds[i].req
               THEN "answer" ELSE "append")
    /\ UNCHANGED <<leads, calendar, work, held, mailed>>

(* ... and the append, by when somebody else may have appended it.         *)
AppendWork(i) ==
    /\ At(i, "append")
    /\ work' = Append(work, Item(cmds[i].req))
    /\ Goto(i, "answer")
    /\ UNCHANGED <<leads, calendar, held, mailed>>

Answer(i) ==
    /\ At(i, "answer")
    /\ Goto(i, "ended")
    /\ UNCHANGED <<leads, calendar, work, held, mailed>>

(* A call threw, or the platform's time limit struck: the visitor gets     *)
(* INTERNAL_ERROR, without a booking status, or nothing.                   *)
Die(i) ==
    /\ i \in Running
    /\ End(i, "error")
    /\ UNCHANGED <<leads, calendar, work, held, mailed>>

-----------------------------------------------------------------------------
(* handleSendBookingConfirmation.  The worker's lock lets one item be       *)
(* handled at a time (runWorkerCycle), but does not stop the commands:     *)
(* they may write the Lead between its reading and the sending.  What the  *)
(* marking of an item can do to it is Worker's subject; here an item whose *)
(* outcome is not recorded is pending again.                               *)

StillConfirmed(req) == Row(req).status = "booked" /\ Row(req).active = req.id

Commanding(lead) == {i \in Running : cmds[i].req.leadId = lead}

Idle == \A j \in DOMAIN work : work[j].state # "sending"

Becomes(j, state, rivals) ==
    /\ work' = [work EXCEPT ![j].state = state, ![j].rivals = rivals]
    /\ UNCHANGED <<leads, calendar, cmds, held>>

(* The Lead is read, and still has the booking.                            *)
CheckLead(j) ==
    /\ Idle /\ work[j].state = "pending"
    /\ StillConfirmed(work[j].req)
    /\ Becomes(j, "sending", Commanding(work[j].req.leadId))
    /\ UNCHANGED mailed

Withhold(j) ==
    /\ Idle /\ work[j].state = "pending"
    /\ ~ StillConfirmed(work[j].req)
    /\ Becomes(j, "done", {})
    /\ UNCHANGED mailed

(* The mail goes out; its outcome is recorded, or the worker dies first.   *)
Mail(j) ==
    /\ work[j].state = "sending"
    /\ mailed' = mailed \cup {work[j].req}
    /\ \E state \in {"pending", "done"} : Becomes(j, state, {})

(* It does not: a failure to be retried, or one that is final.             *)
NotMailed(j) ==
    /\ work[j].state = "sending"
    /\ \E state \in {"pending", "done"} : Becomes(j, state, {})
    /\ UNCHANGED mailed

Deliver ==
    \E j \in DOMAIN work : CheckLead(j) \/ Withhold(j) \/ Mail(j) \/ NotMailed(j)

-----------------------------------------------------------------------------
Init ==
    /\ leads = [l \in LeadIds |-> Blank]
    /\ calendar = {} /\ work = <<>> /\ cmds = <<>>
    /\ held = {} /\ mailed = {}

Start(req) ==
    \/ Reject(req) \/ Replay(req) \/ AlreadyActive(req)
    \/ OutsideWindow(req) \/ NoCalendar(req) \/ Proceed(req)

Continue(i) ==
    \/ ListFails(i) \/ ListBusy(i) \/ ListFree(i) \/ CreateEvent(i)
    \/ SetActive(i) \/ SetStatus(i) \/ SetEvent(i)
    \/ SearchWork(i) \/ AppendWork(i) \/ Answer(i)

Next ==
    \/ PartnerClears
    \/ \E req \in Requests : Start(req)
    \/ \E i \in DOMAIN cmds : Continue(i) \/ Die(i)
    \/ Deliver

Spec == Init /\ [][Next]_vars

-----------------------------------------------------------------------------
(* Properties.                                                             *)

(* Two commands for one Lead overlapped at some time.                      *)
LeadRaced(l) ==
    \E i \in DOMAIN cmds : \E j \in cmds[i].raced :
        cmds[i].req.leadId = l /\ cmds[j].req.leadId = l

Answered(i, status) == At(i, "ended") /\ cmds[i].status = status

(* The file's header: "confirmed is reachable from exactly one place: a    *)
(* successful createEvent".  Nobody is told confirmed, first hand, by a    *)
(* replay or by mail, of a request no event was ever created for.  For a   *)
(* mail this holds whatever overlaps; for an answer as long as no two      *)
(* commands for that Lead did (their cells can mix: see the README).       *)
ConfirmedWasHeld ==
    /\ mailed \subseteq held
    /\ \A i \in DOMAIN cmds :
          Answered(i, "confirmed") /\ ~ LeadRaced(cmds[i].req.leadId) =>
              cmds[i].req \in held

(* What the check of the calendar is for: two events of ours never share a *)
(* time, unless the commands that made them overlapped.  Dead commands     *)
(* leave their events behind, and those still count.                       *)
NoDoubleBooking ==
    \A e, f \in calendar :
        /\ e # f /\ e.slot \cap f.slot # {}
        => e.by \in cmds[f.by].raced

(* Once a visitor has been told confirmed, every later answer to that      *)
(* request says confirmed, and no other request of the Lead is confirmed:  *)
(* no retry, failure or death undoes a recorded booking (for commands of a *)
(* Lead that came one after the other).                                    *)
ConfirmedForGood ==
    \A i, j \in DOMAIN cmds :
        /\ i < j /\ cmds[i].req.leadId = cmds[j].req.leadId
        /\ ~ LeadRaced(cmds[i].req.leadId)
        /\ Answered(i, "confirmed") /\ At(j, "ended")
        => cmds[j].status \in IF cmds[i].req = cmds[j].req
                              THEN {"confirmed", "error"} ELSE {"rejected", "error"}

(* A command that may have written to its Lead: it is at the second cell   *)
(* or later, or it has ended, and not because its slot was taken.          *)
MayHaveWritten(i) ==
    ~ (At(i, "list") \/ At(i, "create") \/ At(i, "active") \/ Answered(i, "unavailable"))

(* The handler "refuses to send unless the calendar state still says       *)
(* booked".  It reads the Lead some time before it sends, with no lock     *)
(* against the commands; the cells may change in between, but only by the  *)
(* hand of a command that was running when they were read.  None that      *)
(* starts later can: while a confirmation is being sent, the Lead has that *)
(* booking still, or such an overlapping command has been writing to it.   *)
MailMatchesLead ==
    \A j \in DOMAIN work : work[j].state = "sending" =>
        StillConfirmed(work[j].req) \/ \E i \in work[j].rivals : MayHaveWritten(i)

(* Who was told confirmed is sent a confirmation: it is in the queue, or a *)
(* command for that very request was cut short before it got there.  No    *)
(* retry finds a booking recorded, and the mail forgotten, for any other   *)
(* reason (commands of a Lead that came one after the other).              *)
ConfirmationQueued ==
    \A i \in DOMAIN cmds :
        Answered(i, "confirmed") /\ ~ LeadRaced(cmds[i].req.leadId) =>
            \/ \E j \in DOMAIN work : work[j].req = cmds[i].req
            \/ \E k \in DOMAIN cmds : cmds[k].req = cmds[i].req /\ Answered(k, "error")
=============================================================================
