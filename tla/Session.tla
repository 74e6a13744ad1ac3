------------------------------ MODULE Session -------------------------------
(***************************************************************************)
(* One visitor from form to record: the form (useIntake of the website,    *)
(* useExchange of the QR card), the submission client it shares with every *)
(* other form of the page (Attempt), a network that loses, delays and      *)
(* garbles, and the backend (Intake) with its deaths.                      *)
(*                                                                         *)
(* A call of the client is awaited by the form that made it: `flight` is   *)
(* the post it waits for, and `form.awaits` says whether that form is      *)
(* still on the page to be told.                                           *)
(***************************************************************************)
EXTENDS Intake

CONSTANTS
    QrCard,             \* TRUE for the QR card's form, FALSE for the website's
    Initial,            \* the content of an untouched form
    MaxTroubles         \* bound: lost, late, garbled or failed calls

A == INSTANCE Transport

ASSUME SessionAssumption ==
    /\ QrCard \in BOOLEAN /\ Initial \in Contents /\ MaxTroubles \in Nat

VARIABLES
    client,             \* the submission client of the page
    form,               \* the form on the page
    flight,             \* the post being waited for, NoPost or LostPost
    minted,             \* history: the ids used so far, with their content
    told,               \* history: contents reported stored, by number
    dropped,            \* history: live attempts given up, by content
    troubles            \* history: how many calls went wrong

backend == <<tables, exec, inbox, posts, replies, nextId, now>>
visitor == <<client, form, flight, minted, told, dropped>>
sessionVars == <<backend, visitor, troubles>>

NoPost == 0
LostPost == MaxPosts + 1

Trouble == troubles < MaxTroubles /\ troubles' = troubles + 1
Opened == [screen |-> "form", state |-> "idle", draft |-> Initial, awaits |-> FALSE]

-----------------------------------------------------------------------------
(* The form.                                                               *)

(* Answers may be edited at any time on the website; the QR card makes its *)
(* fields read-only while it is sending.                                   *)
Edit(c) ==
    /\ form.screen = "form"
    /\ QrCard => form.state # "sending"
    /\ form' = [form EXCEPT !.draft = c]
    /\ UNCHANGED <<backend, client, flight, minted, told, dropped, troubles>>

(* backToGateway and choosePathway: the state is forgotten, whatever is    *)
(* in flight.                                                              *)
ChoosePathway ==
    /\ ~ QrCard
    /\ form.screen = "form"
    /\ form' = [form EXCEPT !.state = "idle"]
    /\ UNCHANGED <<backend, client, flight, minted, told, dropped, troubles>>

(* The form is left and opened anew; the client lives on.                  *)
Reopen ==
    /\ form' = Opened
    /\ UNCHANGED <<backend, client, flight, minted, told, dropped, troubles>>

Dropping(c) ==
    dropped' = IF A!Live(c) THEN [dropped EXCEPT ![c.envelope.req.content] = @ + 1]
                            ELSE dropped

(* The page is reloaded: nothing in it survives, a call under way does.    *)
Reload ==
    /\ client' = A!Idle
    /\ form' = Opened
    /\ flight' = NoPost
    /\ Dropping(client)
    /\ UNCHANGED <<backend, minted, told, troubles>>

-----------------------------------------------------------------------------
(* The client.                                                             *)

Same(c) == A!Live(client) /\ client.envelope.req.content = c

(* Nothing was sent: the form said "sending" before it asked.              *)
Refused ==
    /\ form' = [form EXCEPT !.state = "sending"]
    /\ UNCHANGED <<backend, client, flight, minted, told, dropped, troubles>>

(* The envelope leaves; it reaches the backend or it does not.             *)
Send(c) ==
    /\ client' = A!Sending(c)
    /\ form' = [form EXCEPT !.state = "sending", !.awaits = TRUE]
    /\ UNCHANGED told
    /\ \/ /\ Post(c.envelope.req)
          /\ flight' = posts + 1
          /\ UNCHANGED troubles
       \/ /\ Trouble
          /\ flight' = LostPost
          /\ UNCHANGED backend

SubmitOffered == form.screen = "form" /\ form.state \notin
                    (IF QrCard THEN {"sending", "failed"} ELSE {"sending"})

SubmitRefused ==
    /\ SubmitOffered
    /\ A!Refuses(client, Same(form.draft))
    /\ Refused

(* A new attempt.  What screening will find is Intake's subject: here the  *)
(* request raises no suspicion.                                            *)
SubmitNew(sid) ==
    /\ SubmitOffered
    /\ ~ A!Refuses(client, Same(form.draft))
    /\ A!NeedsNew(client, Same(form.draft))
    /\ sid \notin {m.submissionId : m \in minted}
    /\ LET req == [submissionId |-> sid, content |-> form.draft, signals |-> FALSE]
       IN Send(A!Begun([id |-> sid, req |-> req]))
    /\ minted' = minted \cup {[submissionId |-> sid, content |-> form.draft]}
    /\ IF Same(form.draft) THEN UNCHANGED dropped ELSE Dropping(client)

SubmitAgain ==
    /\ SubmitOffered
    /\ ~ A!Refuses(client, Same(form.draft))
    /\ ~ A!NeedsNew(client, Same(form.draft))
    /\ Send(client)
    /\ UNCHANGED <<minted, dropped>>

RetryOffered == form.screen = "form" /\ form.state = "failed"

(* Mutant: a retry sends the answers of the form under the old id.         *)
RetryWithDraft ==
    /\ RetryOffered
    /\ ~ A!RefusesRetry(client)
    /\ Send([client EXCEPT !.envelope.req.content = form.draft])
    /\ UNCHANGED <<minted, dropped>>

(* The client could refuse, and nothing would be sent; RetryIsHonoured says *)
(* that an offered retry never meets that.                                 *)
Retry ==
    /\ RetryOffered
    /\ ~ A!RefusesRetry(client)
    /\ Send(client)
    /\ UNCHANGED <<minted, dropped>>

(* Mutant: a form that has moved on meanwhile is not told.                 *)
ApplyIfSending(result) ==
    /\ client' = A!Applied(client, result)
    /\ flight' = NoPost
    /\ form' = IF form.state # "sending" THEN form
               ELSE [form EXCEPT !.state = A!FormState(result), !.awaits = FALSE]
    /\ told' = IF result.outcome = "ok"
               THEN [told EXCEPT ![client.envelope.req.content] = @ + 1] ELSE told
    /\ UNCHANGED <<backend, minted, dropped>>

(* A result is in: the client takes it, and so does the form that waited,  *)
(* if it is still there, whatever it shows by now.                         *)
Apply(result) ==
    /\ client' = A!Applied(client, result)
    /\ flight' = NoPost
    /\ form' = CASE ~ form.awaits -> form
                 [] form.awaits /\ result.outcome = "ok" ->
                      [form EXCEPT !.screen = "confirmation", !.state = "idle",
                                   !.awaits = FALSE]
                 [] OTHER ->
                      [form EXCEPT !.state = A!FormState(result), !.awaits = FALSE]
    /\ told' = IF result.outcome = "ok"
               THEN [told EXCEPT ![client.envelope.req.content] = @ + 1] ELSE told
    /\ UNCHANGED <<backend, minted, dropped>>

(* The body of an answer of the backend, and what the client sent.         *)
BodyOf(r) ==
    LET inquiry == KindOf(r.req.content) = "service_inquiry"
        ok == r.code = "OK"
    IN [ok |-> ok, typed |-> TRUE, id |-> r.req.submissionId,
        kind |-> KindOf(r.req.content), lead |-> ok /\ inquiry,
        contact |-> ok /\ ~ inquiry, sla |-> ok /\ inquiry, code |-> r.code]
Sent == [id |-> client.envelope.id, kind |-> KindOf(client.envelope.req.content)]

Receive ==
    /\ \E r \in replies : r.post = flight /\ Apply(A!Read(BodyOf(r), Sent))
    /\ UNCHANGED troubles

(* Something in front of the endpoint answers: with an answer it has kept, *)
(* with a success of its own or with a page.  The post runs on.            *)
AnsweredElsewhere ==
    /\ flight # NoPost
    /\ Trouble
    /\ \E body \in {BodyOf(r) : r \in replies} \cup {A!Generic, A!NoBody} :
          Apply(A!Read(body, Sent))

(* Twenty seconds are over; the post may still be waiting, running or      *)
(* answered.                                                               *)
TimeOut ==
    /\ flight \in 1 .. MaxPosts
    /\ Trouble
    /\ Apply(A!NetworkFailure)

(* Nothing reached the backend, or a deployment that is not configured.    *)
NeverArrived ==
    /\ flight = LostPost
    /\ \/ Apply(A!NetworkFailure)
       \/ Apply(A!Read([ok |-> FALSE, typed |-> TRUE,
                         code |-> "SERVICE_NOT_CONFIGURED"], Sent))
    /\ UNCHANGED troubles

-----------------------------------------------------------------------------
(* The backend goes on; what goes wrong there is counted as well.          *)

Serve == Process /\ UNCHANGED <<visitor, troubles>>

Fail ==
    /\ Trouble
    /\ (\E m \in inbox : LockUnavailable(m)) \/ Throw \/ Killed
    /\ UNCHANGED visitor

(* An execution died with its visitor's answer: the platform's error page  *)
(* comes instead.                                                          *)
Unanswerable ==
    /\ flight \in 1 .. MaxPosts
    /\ ~ \E m \in inbox : m.post = flight
    /\ exec.who = "intake" => exec.msg.post # flight
    /\ ~ \E r \in replies : r.post = flight

ErrorPage ==
    /\ Unanswerable
    /\ Apply(A!Read(A!NoBody, Sent))
    /\ UNCHANGED troubles

-----------------------------------------------------------------------------
SessionInit ==
    /\ Init
    /\ client = A!Idle /\ form = Opened /\ flight = NoPost
    /\ minted = {} /\ troubles = 0
    /\ told = [c \in Contents |-> 0] /\ dropped = [c \in Contents |-> 0]

Deliver == Receive \/ NeverArrived \/ ErrorPage

Press ==
    \/ SubmitRefused \/ SubmitAgain
    \/ \E sid \in SubmissionIds : SubmitNew(sid)
    \/ Retry

SessionNext ==
    \/ \E c \in Contents : Edit(c)
    \/ ChoosePathway \/ Reopen \/ Reload
    \/ Press
    \/ Deliver \/ TimeOut \/ AnsweredElsewhere
    \/ Serve \/ Fail

(* The network delivers in the end, and the backend runs on.  Nothing      *)
(* obliges the visitor to press anything.                                  *)
SessionFairness == WF_sessionVars(Deliver) /\ WF_sessionVars(Serve)

SessionSpec == SessionInit /\ [][SessionNext]_sessionVars /\ SessionFairness

-----------------------------------------------------------------------------
(* Properties.                                                             *)

(* A success shown to the visitor is never taken on credit: whatever was   *)
(* lost, late or killed on the way, the content of the attempt it ended is *)
(* completely stored.                                                      *)
ToldIsStored ==
    \A c \in Contents : told[c] > 0 =>
        \E m \in minted : m.content = c /\ Complete(m.submissionId, c)

(* attempt.ts, "the rule this file exists to enforce": retrying, pressing  *)
(* again and timing out never store a content twice.  Every further record *)
(* of a content follows a success that was reported, or an attempt the     *)
(* visitor gave up by editing or reloading.                                *)
RecordsAreWarranted ==
    \A c \in Contents :
        Cardinality({i \in DOMAIN submissions : submissions[i].content = c})
            <= 1 + told[c] + dropped[c]

(* "A client that reuses an id while the answers changed gets              *)
(* SUBMISSION_ID_CONFLICT": this client never does, so no answer ever says *)
(* so and no attempt is ever dead.                                         *)
NeverConflicts ==
    /\ \A r \in replies : r.code # "SUBMISSION_ID_CONFLICT"
    /\ ~ client.exhausted

(* "Try again" is offered only when the client will send: the form's word  *)
(* for a failure and the client's memory of it never drift apart, though   *)
(* each is kept on its own and forms come and go under one client.         *)
RetryIsHonoured == RetryOffered => ~ A!RefusesRetry(client)

(* A form that waits for its own call is released from "sending" in the    *)
(* end, whatever happens to the call, or is left.                          *)
OwnCallComesBack == form.awaits ~> ~ form.awaits
=============================================================================
