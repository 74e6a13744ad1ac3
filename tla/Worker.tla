------------------------------- MODULE Worker -------------------------------
(***************************************************************************)
(* The deferred-work machine: the trigger that runs runWorkerCycle, the    *)
(* handlers it calls and the Work tab it drains (scheduled/Worker.js,      *)
(* core/Notifications.js, handleSendBookingConfirmation of core/Booking.js *)
(* and the work repository of platform/SheetRepository.js).                *)
(*                                                                         *)
(* A cycle holds the script lock from its claim to its end, so two cycles  *)
(* never overlap.  It can die at any point, even between two of the five   *)
(* cells it writes for one item, and the next cycle starts from whatever   *)
(* is in the sheet.  A booking enqueues its confirmation WITHOUT the lock, *)
(* so an item may appear in the middle of a cycle.                         *)
(***************************************************************************)
EXTENDS Store, FiniteSets

CONSTANTS
    Exchanges,          \* the contents that are QR contact exchanges
    Reachable,          \* the contents that give an email address
    Keys,               \* the idempotency keys that may be enqueued
    Audit,              \* the Submissions tab
    AuditLeads,         \* the Leads tab
    MaxAttempts,        \* WORKER_MAX_ATTEMPTS
    MaxItems,           \* WORKER_MAX_ITEMS_PER_RUN
    Backoff,            \* WORKER_BACKOFF_MINUTES, in ticks, by attempts made
    MaxAge,             \* bound: how far completedAt is followed into the past
    MaxDeaths           \* bound: how many cycles die

Kinds == {"send_acknowledgement", "send_qr_acknowledgement",
          "notify_partners", "send_booking_confirmation"}

Acknowledgements == {AckKind("inquiry"), AckKind("contact_exchange")}

(* The intake keeps one Submissions row per submission, and enqueues one   *)
(* kind of acknowledgement about it.                                       *)
ASSUME WorkerAssumption ==
    /\ Audit \in Seq({Audit[a] : a \in DOMAIN Audit})
    /\ \A a, b \in DOMAIN Audit : Audit[a].submissionId = Audit[b].submissionId => a = b
    /\ \A k \in Keys : k.kind \in Kinds /\ k = Key(k.kind, k.subject)
    /\ \A k, q \in Keys :
          /\ k.kind \in Acknowledgements /\ q.kind \in Acknowledgements
          /\ k.subject = q.subject
          => k = q
    /\ MaxAttempts \in Nat \ {0} /\ MaxItems \in Nat \ {0}
    /\ Backoff \in [1 .. MaxAttempts -> Nat]
    /\ MaxAge \in Nat /\ MaxDeaths \in Nat

VARIABLES
    submissions, leads, deliveries, work,
    exec,               \* the execution that holds the script lock
    sent,               \* history: how many mails went out for each key
    lost,               \* history: how many of them were never recorded
    deaths              \* history: how many cycles died

vars == <<submissions, leads, deliveries, work, exec, sent, lost, deaths>>
records == <<submissions, leads>>

Nobody == [who |-> "nobody"]
Purposes == {"acknowledge", "notify", "qr_acknowledge"}
Terminal == {"succeeded", "abandoned"}

-----------------------------------------------------------------------------
(* What a handler looks up.                                                *)

HasLead(id) == \E i \in DOMAIN leads : leads[i].leadId = id
Submission(k) == Find(submissions, k.subject)

(* The guards at the head of each handler: permanent, nothing written.     *)
NotFound(k) ==
    CASE k.kind = "send_booking_confirmation" -> ~ HasLead(k.subject)
      [] k.kind = "send_qr_acknowledgement" ->
            \/ ~ Has(submissions, k.subject)
            \/ Submission(k).content \notin Exchanges
      [] OTHER ->
            \/ ~ Has(submissions, k.subject)
            \/ Submission(k).content \in Exchanges
            \/ ~ HasLead(Submission(k).businessId)

(* Nobody to write to, or somebody who must not be written to.             *)
Skipped(k) ==
    /\ k.kind \in {"send_acknowledgement", "send_qr_acknowledgement"}
    /\ Submission(k).spamSuspected \/ Submission(k).content \notin Reachable

Purpose(k) ==
    CASE k.kind = "notify_partners" -> "notify"
      [] k.kind = "send_qr_acknowledgement" -> "qr_acknowledge"
      [] OTHER -> "acknowledge"

(* ACK_STATUS_FIELD or NOTIFY_STATUS_FIELD; a confirmation records nothing.*)
Field(k) == IF k.kind = "notify_partners" THEN "notify" ELSE "ack"
Records(k) == k.kind # "send_booking_confirmation"

(* Mutant: one attempt too many.                                           *)
NextWorkStateLate(item, result) ==
    IF result = "ok" THEN "succeeded"
    ELSE IF result = "permanent" \/ item.attempts + 1 > MaxAttempts THEN "abandoned"
    ELSE "pending"

(* nextWorkState, its state.                                               *)
NextWorkState(item, result) ==
    IF result = "ok" THEN "succeeded"
    ELSE IF result = "permanent" \/ item.attempts + 1 >= MaxAttempts THEN "abandoned"
    ELSE "pending"

(* Mutant: claims everything that has not been given up on.                *)
DueOrDone(item) == item.state # "abandoned" /\ item.wait = 0

(* Mutant: a retried item never looks due (times of two formats compared). *)
DueAtFirst(item) == item.state = "pending" /\ item.attempts = 0

Due(item) == item.state = "pending" /\ item.wait = 0

(* claimDue: the first MaxItems due rows, in table order.                  *)
ClaimDue ==
    LET due == {i \in DOMAIN work : Due(work[i])} IN
    {i \in due : Cardinality({j \in due : j <= i}) <= MaxItems}

-----------------------------------------------------------------------------
(* The environment.                                                        *)

(* Intake enqueues under the lock, booking without it.                     *)
Arrive(k) ==
    /\ exec = Nobody \/ k.kind = "send_booking_confirmation"
    /\ ~ Queued(work, k)
    /\ work' = Enqueue(work, k)
    /\ UNCHANGED <<records, deliveries, exec, sent, lost, deaths>>

Older(item) ==
    [item EXCEPT !.wait = IF @ > 0 THEN @ - 1 ELSE 0,
                 !.age = IF @ # NotCompleted /\ @ < MaxAge THEN @ + 1 ELSE @]

(* A cycle reads the clock once, so time passes between cycles.            *)
Tick ==
    /\ exec = Nobody
    /\ work' = [i \in DOMAIN work |-> Older(work[i])]
    /\ UNCHANGED <<records, deliveries, exec, sent, lost, deaths>>

-----------------------------------------------------------------------------
(* A cycle.                                                                *)

(* Between two items of a cycle.                                           *)
Claimed(config, todo) ==
    [who |-> "worker", pc |-> "take", config |-> config, todo |-> todo,
     item |-> 0, result |-> "ok", status |-> "none"]

(* The trigger fires: read the configuration (what the claimed items will  *)
(* ask of it), take the lock, claim.                                       *)
StartCycle ==
    /\ exec = Nobody
    /\ ClaimDue # {}
    /\ \E config \in SUBSET {Purpose(work[i].key) : i \in ClaimDue} :
          exec' = Claimed(config, ClaimDue)
    /\ UNCHANGED <<records, deliveries, work, sent, lost, deaths>>

Holding(pc) == exec.who = "worker" /\ exec.pc = pc
Goto(pc) == exec' = [exec EXCEPT !.pc = pc]

(* The next claimed item is row i.                                         *)
Taking(i) ==
    /\ Holding("take")
    /\ i \in exec.todo
    /\ \A j \in exec.todo : i <= j

(* The handler is through with row i up to its setDelivery.                *)
Decide(i, result, status) ==
    /\ exec' = [exec EXCEPT !.pc = IF status = "none" THEN "state" ELSE "record",
                            !.todo = @ \ {i}, !.item = i,
                            !.result = result, !.status = status]
    /\ UNCHANGED <<records, deliveries, work, lost, deaths>>

StatusFor(k, status) == IF Records(k) THEN status ELSE "none"

(* A repository call threw before anything was sent or written.            *)
HandlerThrows(i) ==
    /\ Taking(i)
    /\ Decide(i, "transient", "none")
    /\ UNCHANGED sent

(* Nothing to write about, or the booking has been undone meanwhile (who   *)
(* books is not modelled here, so it may always have been).                *)
Refuse(i) ==
    /\ Taking(i)
    /\ NotFound(work[i].key) \/ work[i].key.kind = "send_booking_confirmation"
    /\ Decide(i, "permanent", "none")
    /\ UNCHANGED sent

Skip(i) ==
    /\ Taking(i)
    /\ ~ NotFound(work[i].key) /\ Skipped(work[i].key)
    /\ Decide(i, "ok", "skipped")
    /\ UNCHANGED sent

Sendable(k) == ~ NotFound(k) /\ ~ Skipped(k)

NotConfigured(i) ==
    /\ Taking(i)
    /\ Sendable(work[i].key)
    /\ Purpose(work[i].key) \notin exec.config
    /\ Decide(i, "permanent", StatusFor(work[i].key, "not_configured"))
    /\ UNCHANGED sent

(* Rendering failed, for good or not.                                      *)
CannotRender(i) ==
    /\ Taking(i)
    /\ Sendable(work[i].key)
    /\ Purpose(work[i].key) \in exec.config
    /\ \E result \in {"permanent", "transient"} :
          Decide(i, result, StatusFor(work[i].key, "failed"))
    /\ UNCHANGED sent

(* mail.send said no.  Whether it said "permanent" is dropped.             *)
MailFails(i) ==
    /\ Taking(i)
    /\ Sendable(work[i].key)
    /\ Purpose(work[i].key) \in exec.config
    /\ Decide(i, "transient", StatusFor(work[i].key, "failed"))
    /\ UNCHANGED sent

(* The mail is out, and nothing yet says so.                               *)
Send(i) ==
    /\ Taking(i)
    /\ Sendable(work[i].key)
    /\ Purpose(work[i].key) \in exec.config
    /\ Decide(i, "ok", StatusFor(work[i].key, "sent"))
    /\ sent' = [sent EXCEPT ![work[i].key] = @ + 1]

Current == work[exec.item]

(* The mail of the item in hand is out and its row does not show it.       *)
Unrecorded ==
    /\ exec.pc \in {"record", "state"}
    /\ exec.result = "ok" /\ exec.status # "skipped"

Losing == lost' = IF Unrecorded THEN [lost EXCEPT ![Current.key] = @ + 1] ELSE lost

(* updateDelivery: patch the first row of the submission, if there is one. *)
SetDelivery(k, status) ==
    IF Has(deliveries, k.subject)
    THEN [deliveries EXCEPT ![FirstRow(deliveries, k.subject)] =
             [@ EXCEPT ![Field(k)] = status]]
    ELSE deliveries

Record ==
    /\ Holding("record")
    /\ deliveries' = SetDelivery(Current.key, exec.status)
    /\ Goto("state")
    /\ UNCHANGED <<records, work, sent, lost, deaths>>

(* Mutant: the failure to record the delivery is swallowed.                *)
RecordSwallows ==
    /\ Holding("record")
    /\ deliveries' \in {deliveries, SetDelivery(Current.key, exec.status)}
    /\ Goto("state")
    /\ UNCHANGED <<records, work, sent, lost, deaths>>

(* setDelivery threw, before or after its first cell: the handler threw,   *)
(* which is retryable whatever the outcome was to be.                      *)
RecordThrows ==
    /\ Holding("record")
    /\ deliveries' \in {deliveries, SetDelivery(Current.key, exec.status)}
    /\ exec' = [exec EXCEPT !.pc = "state", !.result = "transient"]
    /\ Losing
    /\ UNCHANGED <<records, work, sent, deaths>>

(* __patch writes its cells one by one (lastError is left out).            *)
Mark(pc, item) ==
    /\ Holding(pc)
    /\ work' = [work EXCEPT ![exec.item] = item]
    /\ UNCHANGED <<records, deliveries, sent, lost, deaths>>

MarkState ==
    /\ Mark("state", [Current EXCEPT !.state = NextWorkState(Current, exec.result)])
    /\ Goto("attempts")

MarkAttempts ==
    /\ Mark("attempts", [Current EXCEPT !.attempts = @ + 1])
    /\ Goto("due")

MarkDue ==
    /\ Mark("due", [Current EXCEPT !.wait = IF Current.state = "pending"
                                            THEN Backoff[Current.attempts] ELSE 0])
    /\ Goto("done")

MarkDone ==
    /\ Mark("done", [Current EXCEPT !.age = IF Current.state = "pending"
                                            THEN NotCompleted ELSE 1])
    /\ exec' = Claimed(exec.config, exec.todo)

Finish ==
    /\ Holding("take")
    /\ exec.todo = {}
    /\ exec' = Nobody
    /\ UNCHANGED <<records, deliveries, work, sent, lost, deaths>>

(* Killed at the time limit, or a mark threw out of withLock.              *)
CycleDies ==
    /\ exec.who = "worker"
    /\ deaths < MaxDeaths
    /\ deaths' = deaths + 1
    /\ exec' = Nobody
    /\ Losing
    /\ UNCHANGED <<records, deliveries, work, sent>>

-----------------------------------------------------------------------------
Init ==
    /\ submissions = Audit
    /\ leads = AuditLeads
    /\ deliveries = [i \in DOMAIN Audit |->
                        [submissionId |-> Audit[i].submissionId,
                         ack |-> "pending", notify |-> "pending"]]
    /\ work = <<>>
    /\ exec = Nobody
    /\ sent = [k \in Keys |-> 0] /\ lost = [k \in Keys |-> 0]
    /\ deaths = 0

Handle ==
    \E i \in DOMAIN work :
       \/ HandlerThrows(i) \/ Refuse(i) \/ Skip(i)
       \/ NotConfigured(i) \/ CannotRender(i) \/ MailFails(i) \/ Send(i)

Cycle ==
    \/ Handle \/ Record \/ RecordThrows
    \/ MarkState \/ MarkAttempts \/ MarkDue \/ MarkDone \/ Finish

Next ==
    \/ \E k \in Keys : Arrive(k)
    \/ Tick
    \/ StartCycle
    \/ Cycle
    \/ CycleDies

(* The trigger keeps firing, a running cycle runs on until it ends or      *)
(* dies, and time passes.  Nothing obliges a cycle to die or not to.       *)
Fairness == WF_vars(StartCycle) /\ WF_vars(Cycle) /\ WF_vars(Tick)

Spec == Init /\ [][Next]_vars /\ Fairness

-----------------------------------------------------------------------------
(* Properties.                                                             *)

(* A second mail about the same thing leaves only when the outcome of an   *)
(* earlier one was lost: the cycle died, or recording it threw, between    *)
(* the send and the item's state cell (the guarantee in Worker.js's        *)
(* header); and an item given up on has never been delivered unnoticed     *)
(* in any other way.  Attempts bound the mails of an item: only a death    *)
(* hides one of them from the count.                                       *)
DuplicatesOnlyFromLoss ==
    /\ \A k \in Keys : sent[k] <= 1 + lost[k] /\ sent[k] <= MaxAttempts + deaths
    /\ \A i \in DOMAIN work :
          work[i].state = "abandoned" => sent[work[i].key] = lost[work[i].key]

(* An item that says succeeded was either sent once more than was lost,    *)
(* and its delivery row says sent, or had nobody to be sent to, was never  *)
(* sent, and its delivery row says skipped.                                *)
SucceededIsTrue ==
    \A i \in DOMAIN work :
        LET k == work[i].key IN
        work[i].state = "succeeded" =>
            /\ sent[k] = IF Skipped(k) THEN 0 ELSE lost[k] + 1
            /\ Records(k) =>
                  Find(deliveries, k.subject)[Field(k)] =
                      IF Skipped(k) THEN "skipped" ELSE "sent"

(* Nothing a cycle, a retry or a late enqueue does reopens a finished item,*)
(* sends for it again, or changes what its delivery row says.              *)
TerminalIsFinal ==
    [][\A i \in DOMAIN work :
          LET k == work[i].key IN
          work[i].state \in Terminal =>
              /\ work'[i].state = work[i].state
              /\ sent'[k] = sent[k]
              /\ Records(k) /\ Has(deliveries, k.subject) =>
                    Find(deliveries', k.subject)[Field(k)]
                        = Find(deliveries, k.subject)[Field(k)]]_vars

Finished(k) == \E i \in DOMAIN work : work[i].key = k /\ work[i].state \in Terminal

(* However many items fill the queue ahead of it, whatever fails and       *)
(* whichever cycles die, every enqueued item is finished in the end.       *)
EveryItemFinishes == \A k \in Keys : Queued(work, k) ~> Finished(k)
=============================================================================
