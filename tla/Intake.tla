------------------------------ MODULE Intake -------------------------------
(***************************************************************************)
(* The request path of the backend: handlePost for a service_inquiry or a  *)
(* contact_exchange, and processSubmission with its repair of half-written *)
(* requests (entrypoints/Entry.js, core/Intake.js, core/Records.js).       *)
(*                                                                         *)
(* One execution holds the script lock from its first read to its answer,  *)
(* so the interleavings that matter are with DEATH: an execution may throw *)
(* or be killed by the platform between any two appends, and the visitor's *)
(* browser may then send the same request again, or another one under the  *)
(* same id.  Every append is therefore a step of its own.                  *)
(***************************************************************************)
EXTENDS Store, FiniteSets

CONSTANTS
    SubmissionIds,      \* ids a browser may generate
    Contents,           \* what payloadFingerprint distinguishes
    Exchanges,          \* the contents that are QR contact exchanges
    Persons,            \* what emailKey and phoneKey distinguish
    PersonOf,           \* [Contents -> Persons]: who a content is about
    Bookable,           \* the inquiries isBookablePathway accepts
    MaxPosts,           \* bound: requests that ever reach the backend
    MaxTime             \* bound: the clock

ASSUME IntakeAssumption ==
    /\ Exchanges \subseteq Contents
    /\ Bookable \subseteq Contents \ Exchanges
    /\ PersonOf \in [Contents -> Persons]
    /\ MaxPosts \in Nat /\ MaxTime \in Nat

VARIABLES
    submissions,        \* the Submissions tab
    leads,              \* the Leads tab
    contacts,           \* the Contacts tab
    deliveries,         \* the Deliveries tab
    work,               \* the Work tab
    exec,               \* the execution that holds the script lock, or Nobody
    inbox,              \* requests the platform has not started or is blocking
    posts,              \* how many requests have been posted
    replies,            \* every answer given so far
    nextId,             \* the next id newId() will return
    now                 \* the clock

tables == <<submissions, leads, contacts, deliveries, work>>
vars == <<tables, exec, inbox, posts, replies, nextId, now>>

KindOf(c) == IF c \in Exchanges THEN "contact_exchange" ELSE "service_inquiry"

(* The envelope.  `signals` stands for clientSignals together with what    *)
(* screenSubmission finds in the text: TRUE when the screening would flag  *)
(* the request.  It is not part of the fingerprint.                        *)
Requests == [submissionId : SubmissionIds, content : Contents, signals : BOOLEAN]
Messages == [post : 1 .. MaxPosts, req : Requests]

Nobody == [who |-> "nobody"]
IntakePCs == {"submission", "business", "delivery", "ack", "notify", "answer"}

-----------------------------------------------------------------------------
(* Rows.                                                                   *)

(* flagPossibleMatches: existing Contacts that share the person's key.     *)
PossibleMatches(c) ==
    {contacts[i].contactId : i \in
        {j \in DOMAIN contacts : contacts[j].person = PersonOf[c]}}

(* The audit row a request not seen before will get.  It is also the       *)
(* context every later row of the request is built from.                   *)
NewSubmission(req) ==
    [submissionId |-> req.submissionId, content |-> req.content,
     spamSuspected |-> req.signals, possibleMatches |-> PossibleMatches(req.content),
     receivedAt |-> now, businessId |-> nextId]

(* Mutant: a repair that runs the matching again.                          *)
ReconciliationContextRematched(existing, req) ==
    [existing EXCEPT !.possibleMatches = PossibleMatches(req.content)]

(* reconciliationContext: everything from the immutable row, nothing       *)
(* recomputed from the request, the Contacts tab or the clock.             *)
ReconciliationContext(existing, req) == existing

Lead(req, ctx) ==
    [submissionId |-> req.submissionId, leadId |-> ctx.businessId,
     content |-> req.content, receivedAt |-> ctx.receivedAt,
     spamSuspected |-> ctx.spamSuspected, possibleMatches |-> ctx.possibleMatches,
     bookingEligible |-> req.content \in Bookable]

Contact(req, ctx) ==
    [submissionId |-> req.submissionId, contactId |-> ctx.businessId,
     content |-> req.content, receivedAt |-> ctx.receivedAt,
     person |-> PersonOf[req.content], possibleMatches |-> ctx.possibleMatches]

DigestStatusFor(req, ctx) ==
    CASE req.content \notin Exchanges -> "not_applicable"
      [] req.content \in Exchanges /\ ctx.spamSuspected -> "excluded_spam"
      [] OTHER -> "pending_digest"

Delivery(req, ctx) ==
    [submissionId |-> req.submissionId, ack |-> "pending",
     notify |-> IF req.content \in Exchanges THEN "deferred_to_digest" ELSE "pending",
     digest |-> DigestStatusFor(req, ctx)]

(* The first Lead row with an id (findLeadById).                           *)
HasLead(id) == \E i \in DOMAIN leads : leads[i].leadId = id
FindLead(id) ==
    leads[CHOOSE i \in DOMAIN leads :
            leads[i].leadId = id /\ \A j \in 1 .. i - 1 : leads[j].leadId # id]

-----------------------------------------------------------------------------
(* What a visitor is told: a refusal is its code; a success names the      *)
(* stored record.                                                          *)

Refusal(m, code) == [post |-> m.post, req |-> m.req, code |-> code]

(* Mutant: the answer to a replay is made from the request of the day.     *)
AcceptanceOfTheDay(m, ctx) ==
    [post |-> m.post, req |-> m.req, code |-> "OK",
     businessId |-> ctx.businessId,
     receivedAt |-> IF HasLead(ctx.businessId) THEN now ELSE 0,
     bookingEligible |-> m.req.content \in Bookable]

(* The result of processSubmission: on a first execution from the Lead it  *)
(* built, on a replay from the stored Submission and the stored Lead.      *)
Acceptance(m, ctx) ==
    [post |-> m.post, req |-> m.req, code |-> "OK",
     businessId |-> ctx.businessId,
     receivedAt |-> IF HasLead(ctx.businessId)
                    THEN FindLead(ctx.businessId).receivedAt ELSE 0,
     bookingEligible |-> /\ HasLead(ctx.businessId)
                         /\ FindLead(ctx.businessId).bookingEligible]

Holding(pc) == exec.who = "intake" /\ exec.pc = pc
Goto(pc) == exec' = [exec EXCEPT !.pc = pc]

-----------------------------------------------------------------------------
(* The environment: a request reaches the backend, and time passes.        *)

Post(req) ==
    /\ posts < MaxPosts
    /\ posts' = posts + 1
    /\ inbox' = inbox \cup {[post |-> posts + 1, req |-> req]}
    /\ UNCHANGED <<tables, exec, replies, nextId, now>>

(* An execution reads the clock once, under the lock, so time only passes  *)
(* between executions.                                                     *)
Tick ==
    /\ exec = Nobody
    /\ now < MaxTime
    /\ now' = now + 1
    /\ UNCHANGED <<tables, exec, inbox, posts, replies, nextId>>

-----------------------------------------------------------------------------
(* tryLock gave up after its 20 seconds.                                   *)
LockUnavailable(m) ==
    /\ m \in inbox
    /\ exec # Nobody
    /\ inbox' = inbox \ {m}
    /\ replies' = replies \cup {Refusal(m, "BUSY_TRY_AGAIN")}
    /\ UNCHANGED <<tables, exec, posts, nextId, now>>

(* The lock is taken and the id has never been seen: screen, match, mint   *)
(* the id of the business record.                                          *)
BeginNew(m) ==
    /\ m \in inbox
    /\ exec = Nobody
    /\ ~ Has(submissions, m.req.submissionId)
    /\ inbox' = inbox \ {m}
    /\ exec' = [who |-> "intake", pc |-> "submission", replay |-> FALSE,
                msg |-> m, ctx |-> NewSubmission(m.req)]
    /\ nextId' = nextId + 1
    /\ UNCHANGED <<tables, posts, replies, now>>

(* The id has been seen with other data: that is not a retry.              *)
RefuseConflict(m) ==
    /\ m \in inbox
    /\ exec = Nobody
    /\ Has(submissions, m.req.submissionId)
    /\ Find(submissions, m.req.submissionId).content # m.req.content
    /\ inbox' = inbox \ {m}
    /\ replies' = replies \cup {Refusal(m, "SUBMISSION_ID_CONFLICT")}
    /\ UNCHANGED <<tables, exec, posts, nextId, now>>

(* Mutant: a replay that reports the original result without looking.      *)
BeginReplayTrusting(m) ==
    /\ m \in inbox
    /\ exec = Nobody
    /\ Has(submissions, m.req.submissionId)
    /\ LET existing == Find(submissions, m.req.submissionId) IN
       /\ existing.content = m.req.content
       /\ exec' = [who |-> "intake", pc |-> "answer", replay |-> TRUE,
                   msg |-> m, ctx |-> ReconciliationContext(existing, m.req)]
    /\ inbox' = inbox \ {m}
    /\ UNCHANGED <<tables, posts, replies, nextId, now>>

(* The id has been seen with the same data: repair, then report success.   *)
BeginReplay(m) ==
    /\ m \in inbox
    /\ exec = Nobody
    /\ Has(submissions, m.req.submissionId)
    /\ LET existing == Find(submissions, m.req.submissionId) IN
       /\ existing.content = m.req.content
       /\ exec' = [who |-> "intake", pc |-> "business", replay |-> TRUE,
                   msg |-> m, ctx |-> ReconciliationContext(existing, m.req)]
    /\ inbox' = inbox \ {m}
    /\ UNCHANGED <<tables, posts, replies, nextId, now>>

InsertSubmission ==
    /\ Holding("submission")
    /\ submissions' = Append(submissions, exec.ctx)
    /\ Goto("business")
    /\ UNCHANGED <<leads, contacts, deliveries, work, inbox, posts, replies, nextId, now>>

(* Exactly one business record.  A first execution inserts it; a replay    *)
(* inserts it only when no record came from this submission.               *)
InsertLead ==
    /\ Holding("business")
    /\ exec.msg.req.content \notin Exchanges
    /\ leads' = IF exec.replay /\ Has(leads, exec.msg.req.submissionId)
                THEN leads ELSE Append(leads, Lead(exec.msg.req, exec.ctx))
    /\ Goto("delivery")
    /\ UNCHANGED <<submissions, contacts, deliveries, work, inbox, posts, replies, nextId, now>>

InsertContact ==
    /\ Holding("business")
    /\ exec.msg.req.content \in Exchanges
    /\ contacts' = IF exec.replay /\ Has(contacts, exec.msg.req.submissionId)
                   THEN contacts ELSE Append(contacts, Contact(exec.msg.req, exec.ctx))
    /\ Goto("delivery")
    /\ UNCHANGED <<submissions, leads, deliveries, work, inbox, posts, replies, nextId, now>>

(* Mutant: the repair inserts without an existence check.                  *)
InsertDeliveryUnchecked ==
    /\ Holding("delivery")
    /\ deliveries' = Append(deliveries, Delivery(exec.msg.req, exec.ctx))
    /\ Goto("ack")
    /\ UNCHANGED <<submissions, leads, contacts, work, inbox, posts, replies, nextId, now>>

InsertDelivery ==
    /\ Holding("delivery")
    /\ deliveries' = IF exec.replay /\ Has(deliveries, exec.msg.req.submissionId)
                     THEN deliveries
                     ELSE Append(deliveries, Delivery(exec.msg.req, exec.ctx))
    /\ Goto("ack")
    /\ UNCHANGED <<submissions, leads, contacts, work, inbox, posts, replies, nextId, now>>

(* enqueueSubmissionWork: the acknowledgement first ...                    *)
EnqueueAck ==
    /\ Holding("ack")
    /\ LET req == exec.msg.req IN
       /\ work' = Enqueue(work, Key(AckKind(KindOf(req.content)), req.submissionId))
       /\ Goto(IF req.content \in Exchanges THEN "answer" ELSE "notify")
    /\ UNCHANGED <<submissions, leads, contacts, deliveries, inbox, posts, replies, nextId, now>>

(* ... then, for an inquiry, the notification of the partners.             *)
EnqueueNotify ==
    /\ Holding("notify")
    /\ work' = Enqueue(work, Key("notify_partners", exec.msg.req.submissionId))
    /\ Goto("answer")
    /\ UNCHANGED <<submissions, leads, contacts, deliveries, inbox, posts, replies, nextId, now>>

Answer ==
    /\ Holding("answer")
    /\ replies' = replies \cup {Acceptance(exec.msg, exec.ctx)}
    /\ exec' = Nobody
    /\ UNCHANGED <<tables, inbox, posts, nextId, now>>

(* A repository call threw: withLock releases, handlePost answers.         *)
Throw ==
    /\ exec.who = "intake"
    /\ replies' = replies \cup {Refusal(exec.msg, "INTERNAL_ERROR")}
    /\ exec' = Nobody
    /\ UNCHANGED <<tables, inbox, posts, nextId, now>>

(* The platform killed the execution at its time limit: no answer at all.  *)
Killed ==
    /\ exec.who = "intake"
    /\ exec' = Nobody
    /\ UNCHANGED <<tables, inbox, posts, replies, nextId, now>>

-----------------------------------------------------------------------------
Init ==
    /\ submissions = <<>> /\ leads = <<>> /\ contacts = <<>>
    /\ deliveries = <<>> /\ work = <<>>
    /\ exec = Nobody
    /\ inbox = {} /\ posts = 0 /\ replies = {}
    /\ nextId = 1 /\ now = 1

Process ==
    \/ \E m \in inbox : BeginNew(m) \/ RefuseConflict(m) \/ BeginReplay(m)
    \/ InsertSubmission \/ InsertLead \/ InsertContact \/ InsertDelivery
    \/ EnqueueAck \/ EnqueueNotify \/ Answer

Next ==
    \/ \E req \in Requests : Post(req)
    \/ Tick
    \/ \E m \in inbox : LockUnavailable(m)
    \/ Process
    \/ Throw
    \/ Killed

Spec == Init /\ [][Next]_vars

-----------------------------------------------------------------------------
(* Properties.                                                             *)

SubmissionRows ==
    [submissionId : SubmissionIds, content : Contents, spamSuspected : BOOLEAN,
     possibleMatches : SUBSET Nat, receivedAt : Nat, businessId : Nat]
LeadRows ==
    [submissionId : SubmissionIds, leadId : Nat, content : Contents \ Exchanges,
     receivedAt : Nat, spamSuspected : BOOLEAN, possibleMatches : SUBSET Nat,
     bookingEligible : BOOLEAN]
ContactRows ==
    [submissionId : SubmissionIds, contactId : Nat, content : Exchanges,
     receivedAt : Nat, person : Persons, possibleMatches : SUBSET Nat]
DeliveryRows ==
    [submissionId : SubmissionIds, ack : {"pending"},
     notify : {"pending", "deferred_to_digest"},
     digest : {"not_applicable", "excluded_spam", "pending_digest"}]
WorkKeys ==
    [kind : {"send_acknowledgement", "send_qr_acknowledgement", "notify_partners"},
     subject : SubmissionIds]
Executions ==
    [who : {"intake"}, pc : IntakePCs, replay : BOOLEAN, msg : Messages,
     ctx : SubmissionRows]
Answers ==
    [post : 1 .. MaxPosts, req : Requests,
     code : {"BUSY_TRY_AGAIN", "SUBMISSION_ID_CONFLICT", "INTERNAL_ERROR"}]
    \cup
    [post : 1 .. MaxPosts, req : Requests, code : {"OK"}, businessId : Nat,
     receivedAt : Nat, bookingEligible : BOOLEAN]

(* Type correctness: every tab holds rows of its own shape, an execution   *)
(* in progress is one of Intake.js's, and the bounds are respected.        *)
TypeOK ==
    /\ submissions \in Seq(SubmissionRows)
    /\ leads \in Seq(LeadRows)
    /\ contacts \in Seq(ContactRows)
    /\ deliveries \in Seq(DeliveryRows)
    /\ work \in Seq({WorkItem(k) : k \in WorkKeys})
    /\ exec \in Executions \cup {Nobody}
    /\ posts \in 0 .. MaxPosts
    /\ inbox \subseteq [post : 1 .. posts, req : Requests]
    /\ replies \subseteq Answers
    /\ nextId \in Nat \ {0}
    /\ now \in Nat

Unique(tab) ==
    \A i, j \in DOMAIN tab :
        tab[i].submissionId = tab[j].submissionId => i = j

(* However an execution dies and whoever sends the id again, no request    *)
(* ever has two rows in one tab or two work items with one key, and none   *)
(* has both a Lead and a Contact (processSubmission, "exactly one business *)
(* record"; reconcileSubmission's existence checks).                       *)
OneRecordPerRequest ==
    /\ Unique(submissions) /\ Unique(leads) /\ Unique(contacts) /\ Unique(deliveries)
    /\ \A i, j \in DOMAIN work : work[i].key = work[j].key => i = j
    /\ \A i \in DOMAIN leads, j \in DOMAIN contacts :
          leads[i].submissionId # contacts[j].submissionId

(* What the audit row keeps of the request it came from.                   *)
RequestOf(row) == [submissionId |-> row.submissionId, content |-> row.content]

(* A Lead, a Contact or a Delivery, whichever execution wrote it and       *)
(* whatever the Contacts tab, the clock and the retry looked like by then, *)
(* says what the immutable Submission says: same id, content, time, spam   *)
(* determination and match flags (reconciliationContext).                  *)
RepairsReproduceTheAudit ==
    /\ \A i \in DOMAIN leads : \E a \in DOMAIN submissions :
          leads[i] = Lead(RequestOf(submissions[a]), submissions[a])
    /\ \A i \in DOMAIN contacts : \E a \in DOMAIN submissions :
          contacts[i] = Contact(RequestOf(submissions[a]), submissions[a])
    /\ \A i \in DOMAIN deliveries : \E a \in DOMAIN submissions :
          deliveries[i] = Delivery(RequestOf(submissions[a]), submissions[a])

(* Everything one accepted request of this content must have left behind.  *)
Complete(sid, c) ==
    /\ \E i \in DOMAIN submissions :
          submissions[i].submissionId = sid /\ submissions[i].content = c
    /\ Has(IF c \in Exchanges THEN contacts ELSE leads, sid)
    /\ Has(deliveries, sid)
    /\ Queued(work, Key(AckKind(KindOf(c)), sid))
    /\ c \notin Exchanges => Queued(work, Key("notify_partners", sid))

(* A visitor is told "stored" only about data that is stored: the very     *)
(* content sent, its business record, its delivery row and all its work    *)
(* exist, even when the answer is a replay after several deaths.           *)
AcceptedIsComplete ==
    \A r \in replies :
        r.code = "OK" => Complete(r.req.submissionId, r.req.content)

(* The detailed intake implements the ledger of AtomicIntake: a request is *)
(* entered when its last missing row lands, and what an answer says is the *)
(* entry (replayResult reads the stored records, never the request).       *)
Entry(sid) ==
    LET a == Find(submissions, sid) IN
    IF Has(submissions, sid) /\ Complete(sid, a.content)
    THEN {[content |-> a.content, businessId |-> a.businessId,
           receivedAt |-> IF a.content \in Exchanges THEN 0 ELSE Find(leads, sid).receivedAt,
           bookingEligible |-> /\ a.content \notin Exchanges
                               /\ Find(leads, sid).bookingEligible]}
    ELSE {}

Atomic == INSTANCE AtomicIntake WITH
    Entries <- [content : Contents, businessId : Nat, receivedAt : Nat,
                bookingEligible : BOOLEAN],
    ledger <- [s \in SubmissionIds |-> Entry(s)],
    answers <- {<<r.req.submissionId,
                  [content |-> r.req.content, businessId |-> r.businessId,
                   receivedAt |-> r.receivedAt, bookingEligible |-> r.bookingEligible]>> :
                r \in {q \in replies : q.code = "OK"}}

ImplementsAtomicIntake == Atomic!Spec
=============================================================================
