--------------------------- MODULE SessionProofs ----------------------------
(***************************************************************************)
(* Proofs about Session.tla, for every set of contents and ids, any number *)
(* of posts and troubles, and both forms: what the visitor is told is      *)
(* stored, no content is stored twice without a warrant, an id is never    *)
(* reused for other answers, and a retry that is offered is made.          *)
(***************************************************************************)
EXTENDS Session, IntakeProofs, FiniteSetTheorems

-----------------------------------------------------------------------------
(* The inductive invariant.                                                *)

Envelopes == {[id |-> r.submissionId, req |-> r] : r \in Requests}

Clients ==
    [envelope : {A!NoEnvelope} \cup Envelopes,
     status : {"idle", "sending", "failed", "succeeded"},
     retryable : BOOLEAN, exhausted : BOOLEAN, inFlight : BOOLEAN]

Forms ==
    [screen : {"form", "confirmation"},
     state : {"idle", "sending", "failed", "unavailable", "blocked"},
     draft : Contents, awaits : BOOLEAN]

Ids == [submissionId : SubmissionIds, content : Contents]

VisitorTypes ==
    /\ client \in Clients /\ form \in Forms /\ minted \in SUBSET Ids
    /\ told \in [Contents -> Nat] /\ dropped \in [Contents -> Nat]

(* A call is in flight exactly while one is awaited; what it carries was   *)
(* minted for it; and nothing the client hears ends an attempt for good.   *)
ClientInv ==
    /\ client.inFlight <=> flight # NoPost
    /\ flight # NoPost => client.envelope \in Envelopes
    /\ client.envelope \in Envelopes => RequestOf(client.envelope.req) \in minted
    /\ ~ client.exhausted

(* A form that offers to try again leaves the client ready to.             *)
FormInv ==
    form.state = "failed" =>
        client.envelope \in Envelopes /\ client.retryable /\ ~ client.inFlight

(* An id is minted once, so it has one content.                            *)
MintedOnce ==
    \A m, n \in minted : m.submissionId = n.submissionId => m = n

(* Everything the backend has of the visitor, under whatever id, is what   *)
(* the id was minted for: in transit, in hand, in the sheet and answered.  *)
NoImpostor ==
    /\ \A m \in inbox : RequestOf(m.req) \in minted
    /\ exec.who = "intake" => RequestOf(exec.msg.req) \in minted
    /\ \A a \in DOMAIN submissions : RequestOf(submissions[a]) \in minted
    /\ \A r \in replies : RequestOf(r.req) \in minted

NoConflictTold == \A r \in replies : r.code # "SUBMISSION_ID_CONFLICT"

(* Every id minted for a content was told stored, or given up, or is the   *)
(* live attempt's.                                                         *)
MintedOf(c) == {m \in minted : m.content = c}
Trying(c) == client.envelope \in Envelopes /\ client.envelope.req.content = c

Accounted ==
    \A c \in Contents :
        /\ IsFiniteSet(MintedOf(c))
        /\ Cardinality(MintedOf(c)) = told[c] + dropped[c] + (IF Trying(c) THEN 1 ELSE 0)

VInv == /\ VisitorTypes
        /\ ClientInv
        /\ FormInv
        /\ MintedOnce
        /\ NoImpostor
        /\ NoConflictTold
        /\ ToldIsStored
        /\ Accounted

-----------------------------------------------------------------------------
(* The client.                                                             *)

LEMMA EnvelopeFacts ==
    ASSUME NEW e \in Envelopes
    PROVE  /\ e.req \in Requests /\ e.id = e.req.submissionId
           /\ e.req.submissionId \in SubmissionIds /\ e.req.content \in Contents
           /\ RequestOf(e.req) \in Ids
           /\ e # A!NoEnvelope
  BY DEF Envelopes, Requests, RequestOf, Ids, A!NoEnvelope

(* A live envelope is a request; without one there is nothing to send.     *)
LEMMA LiveEnvelope ==
    ASSUME NEW c \in Clients
    PROVE  A!Live(c) <=> c.envelope \in Envelopes
  BY EnvelopeFacts DEF A!Live, Clients

LEMMA BegunClient ==
    ASSUME NEW e \in Envelopes
    PROVE  A!Begun(e) \in Clients /\ A!Begun(e).envelope = e /\ ~ A!Begun(e).exhausted
  BY DEF A!Begun, A!Idle, Clients

LEMMA IdleClient ==
    /\ A!Idle \in Clients /\ ~ A!Idle.inFlight /\ ~ A!Idle.exhausted
    /\ A!Idle.envelope \notin Envelopes
  BY EnvelopeFacts DEF A!Idle, Clients

LEMMA SendingClient ==
    ASSUME NEW c \in Clients
    PROVE  /\ A!Sending(c) \in Clients /\ A!Sending(c).envelope = c.envelope
           /\ A!Sending(c).inFlight /\ A!Sending(c).exhausted = c.exhausted
  BY DEF A!Sending, Clients

(* What a result may be that is not an id conflict.                        *)
Verdicts == {A!Result(o, FALSE) : o \in {"ok", "retryable", "not_configured", "permanent"}}

LEMMA AppliedClient ==
    ASSUME NEW c \in Clients, NEW result \in Verdicts
    PROVE  /\ A!Applied(c, result) \in Clients
           /\ ~ A!Applied(c, result).inFlight /\ ~ A!Applied(c, result).exhausted
           /\ result.outcome = "ok" => A!Applied(c, result).envelope \notin Envelopes
           /\ result.outcome # "ok" =>
                 /\ A!Applied(c, result).envelope = c.envelope
                 /\ A!Applied(c, result).retryable <=> result.outcome = "retryable"
  <1>1. result.exhausted = FALSE
    BY DEF Verdicts, A!Result
  <1>2. CASE result.outcome = "ok"
    <2> DEFINE d == [A!Idle EXCEPT !.status = "succeeded"]
    <2>1. /\ d \in Clients /\ d.inFlight = FALSE /\ d.exhausted = FALSE
          /\ d.envelope = A!NoEnvelope
      BY DEF A!Idle, Clients
    <2>2. A!Applied(c, result) = d
      BY <1>2 DEF A!Applied
    <2> HIDE DEF d
    <2>3. A!NoEnvelope \notin Envelopes
      BY EnvelopeFacts
    <2>4. QED
      BY <1>2, <2>1, <2>2, <2>3
  <1>3. CASE result.outcome # "ok"
    <2> DEFINE b == result.outcome = "retryable" /\ ~ result.exhausted
               d == [c EXCEPT !.status = "failed", !.inFlight = FALSE,
                              !.retryable = b, !.exhausted = result.exhausted]
    <2>1. b \in BOOLEAN /\ (b <=> result.outcome = "retryable")
      BY <1>1
    <2>2. A!Applied(c, result) = d
      BY <1>3 DEF A!Applied
    <2> HIDE DEF b
    <2>3. /\ d \in Clients /\ d.inFlight = FALSE /\ d.exhausted = FALSE
          /\ d.envelope = c.envelope /\ d.retryable = b
      BY <1>1, <2>1 DEF Clients
    <2> HIDE DEF d
    <2>4. QED
      BY <1>3, <2>1, <2>2, <2>3
  <1>4. QED
    BY <1>2, <1>3

(* What the client makes of a reply: never an id conflict unless the reply *)
(* says so, and a success only of an answer to this very id.               *)
LEMMA ReadFacts ==
    ASSUME NEW body, NEW sent,
           body.typed /\ ~ body.ok => body.code # "SUBMISSION_ID_CONFLICT"
    PROVE  /\ A!Read(body, sent) \in Verdicts
           /\ A!Read(body, sent).outcome = "ok" =>
                 /\ body.typed
                 /\ body.ok => body.id = sent.id
                 /\ ~ body.ok => body.code = "OK"
  BY DEF A!Read, A!IsValidSuccess, A!ClassifyBackend, A!NetworkFailure,
         A!NotConfigured, A!Result, Verdicts

LEMMA FormStates ==
    ASSUME NEW result \in Verdicts
    PROVE  /\ A!FormState(result) \in {"idle", "failed", "unavailable", "blocked"}
           /\ A!FormState(result) = "failed" <=> result.outcome = "retryable"
  BY DEF Verdicts, A!FormState, A!Result

LEMMA NetworkFailureFacts ==
    A!NetworkFailure \in Verdicts /\ A!NetworkFailure.outcome # "ok"
  BY DEF A!NetworkFailure, A!Result, Verdicts

-----------------------------------------------------------------------------
(* The backend: tabs only grow.                                            *)

Grows(tab, after) == \A i \in DOMAIN tab : i \in DOMAIN after /\ after[i] = tab[i]

LEMMA AppendedGrows ==
    ASSUME NEW S, NEW tab \in Seq(S), NEW row, NEW after \in {tab, Append(tab, row)}
    PROVE  Grows(tab, after)
  BY DEF Grows

LEMMA EnqueuedGrows ==
    ASSUME NEW S, NEW w \in Seq(S), NEW k
    PROVE  Grows(w, Enqueue(w, k))
  BY AppendedGrows DEF Enqueue

TabsGrow ==
    /\ Grows(submissions, submissions') /\ Grows(leads, leads')
    /\ Grows(contacts, contacts') /\ Grows(deliveries, deliveries')
    /\ Grows(work, work')

LEMMA BackendGrows ==
    ASSUME IInv, [Next]_vars
    PROVE  TabsGrow
  <1>1. /\ submissions \in Seq(SubmissionRows) /\ leads \in Seq(LeadRows)
        /\ contacts \in Seq(ContactRows) /\ deliveries \in Seq(DeliveryRows)
        /\ work \in Seq({WorkItem(k) : k \in WorkKeys})
    BY DEF IInv, TypeOK
  <1>2. ASSUME UNCHANGED tables
        PROVE  TabsGrow
    BY <1>2 DEF tables, TabsGrow, Grows
  <1>3. CASE \/ \E req \in Requests : Post(req)
             \/ Tick \/ Throw \/ Killed \/ Answer \/ UNCHANGED vars
             \/ \E m \in inbox : LockUnavailable(m)
             \/ \E m \in inbox : BeginNew(m) \/ RefuseConflict(m) \/ BeginReplay(m)
    BY <1>2, <1>3 DEF Post, Tick, Throw, Killed, Answer, LockUnavailable, BeginNew,
                      RefuseConflict, BeginReplay, vars
  <1>4. CASE InsertSubmission
    BY <1>1, <1>4, AppendedGrows DEF InsertSubmission, TabsGrow, Grows
  <1>5. CASE InsertLead
    BY <1>1, <1>5, AppendedGrows DEF InsertLead, TabsGrow, Grows
  <1>6. CASE InsertContact
    BY <1>1, <1>6, AppendedGrows DEF InsertContact, TabsGrow, Grows
  <1>7. CASE InsertDelivery
    BY <1>1, <1>7, AppendedGrows DEF InsertDelivery, TabsGrow, Grows
  <1>8. CASE EnqueueAck \/ EnqueueNotify
    BY <1>1, <1>8, EnqueuedGrows DEF EnqueueAck, EnqueueNotify, TabsGrow, Grows
  <1>9. QED
    BY <1>3, <1>4, <1>5, <1>6, <1>7, <1>8 DEF Next, Process

(* What was completely stored stays so.                                    *)
LEMMA StoredStays ==
    ASSUME IInv, [Next]_vars, NEW sid, NEW c, Complete(sid, c)
    PROVE  Complete(sid, c)'
  <1>1. TabsGrow
    BY BackendGrows
  <1>2. \A tab, after : Grows(tab, after) /\ Has(tab, sid) => Has(after, sid)
    BY DEF Grows, Has
  <1>3. /\ Has(leads, sid) => Has(leads', sid)
        /\ Has(contacts, sid) => Has(contacts', sid)
        /\ Has(deliveries, sid) => Has(deliveries', sid)
    BY <1>1, <1>2 DEF TabsGrow
  <1>4. \A k : Queued(work, k) => Queued(work', k)
    BY <1>1 DEF TabsGrow, Grows, Queued
  <1>5. \A i \in DOMAIN submissions :
            i \in DOMAIN submissions' /\ submissions'[i] = submissions[i]
    BY <1>1 DEF TabsGrow, Grows
  <1>6. QED
    BY <1>3, <1>4, <1>5, CompleteGrows

LEMMA ToldStays ==
    ASSUME IInv, ToldIsStored, [Next]_vars, minted \subseteq minted', told' = told
    PROVE  ToldIsStored'
  <1> SUFFICES ASSUME NEW c \in Contents, told[c] > 0
               PROVE  \E m \in minted' : m.content = c /\ Complete(m.submissionId, c)'
    BY DEF ToldIsStored
  <1>1. PICK m \in minted : m.content = c /\ Complete(m.submissionId, c)
    BY DEF ToldIsStored
  <1>2. Complete(m.submissionId, c)'
    BY <1>1, StoredStays
  <1>3. QED
    BY <1>1, <1>2

-----------------------------------------------------------------------------
(* The backend never turns what the visitor sent into something else.      *)

LEMMA SourcesKept ==
    ASSUME NoImpostor, minted \subseteq minted', submissions' = submissions,
           \A m \in inbox' : m \in inbox \/ RequestOf(m.req) \in minted',
           exec'.who = "intake" =>
              \/ exec.who = "intake" /\ exec'.msg = exec.msg
              \/ exec'.msg \in inbox,
           \A r \in replies' :
              \/ r \in replies
              \/ exec.who = "intake" /\ r.req = exec.msg.req
              \/ \E m \in inbox : r.req = m.req
    PROVE  NoImpostor'
  BY DEF NoImpostor

(* Two requests under one id are the same request, so nothing conflicts.   *)
LEMMA NothingConflicts ==
    ASSUME IInv, VInv, NEW m \in inbox
    PROVE  ~ RefuseConflict(m)
  <1> SUFFICES ASSUME RefuseConflict(m) PROVE FALSE
    OBVIOUS
  <1>1. Unique(submissions) /\ Has(submissions, m.req.submissionId)
        /\ Find(submissions, m.req.submissionId).content # m.req.content
    BY DEF IInv, OneRecordPerRequest, RefuseConflict
  <1>2. PICK a \in DOMAIN submissions :
            /\ submissions[a] = Find(submissions, m.req.submissionId)
            /\ submissions[a].submissionId = m.req.submissionId
    BY <1>1, FindRow DEF IInv, TypeOK
  <1>3. RequestOf(submissions[a]) \in minted /\ RequestOf(m.req) \in minted
    BY DEF VInv, NoImpostor
  <1>4. RequestOf(submissions[a]) = RequestOf(m.req)
    BY <1>2, <1>3 DEF VInv, MintedOnce, RequestOf
  <1>5. QED
    BY <1>1, <1>2, <1>4 DEF RequestOf

BackendInv == NoImpostor /\ NoConflictTold

LEMMA BeginSources ==
    ASSUME IInv, VInv, UNCHANGED minted, NEW m \in inbox,
           BeginNew(m) \/ BeginReplay(m) \/ LockUnavailable(m)
    PROVE  BackendInv'
  <1>1. inbox' \subseteq inbox /\ submissions' = submissions
    BY DEF BeginNew, BeginReplay, LockUnavailable, tables
  <1>2. \/ exec'.msg = m /\ replies' = replies
        \/ exec' = exec /\ replies' = replies \cup {Refusal(m, "BUSY_TRY_AGAIN")}
    BY DEF BeginNew, BeginReplay, LockUnavailable
  <1>3. NoImpostor'
    BY <1>1, <1>2, SourcesKept DEF VInv, Refusal
  <1>4. QED
    BY <1>2, <1>3 DEF VInv, BackendInv, NoConflictTold, Refusal

LEMMA WriteSources ==
    ASSUME IInv, VInv, UNCHANGED minted,
           \/ InsertLead \/ InsertContact \/ InsertDelivery
           \/ EnqueueAck \/ EnqueueNotify
    PROVE  BackendInv'
  <1>1. UNCHANGED <<submissions, inbox, replies>> /\ exec.who = "intake"
        /\ \E pc : exec' = [exec EXCEPT !.pc = pc]
    BY DEF InsertLead, InsertContact, InsertDelivery, EnqueueAck, EnqueueNotify,
           Holding, Goto
  <1>2. exec'.msg = exec.msg
    BY <1>1, Holder DEF Executions
  <1>3. NoImpostor'
    BY <1>1, <1>2, SourcesKept DEF VInv
  <1>4. QED
    BY <1>1, <1>3 DEF VInv, BackendInv, NoConflictTold

LEMMA InsertSources ==
    ASSUME IInv, VInv, UNCHANGED minted, InsertSubmission
    PROVE  BackendInv'
  <1>1. /\ submissions' = Append(submissions, exec.ctx)
        /\ exec' = [exec EXCEPT !.pc = "business"] /\ exec.who = "intake"
        /\ UNCHANGED <<inbox, replies>>
    BY DEF InsertSubmission, Holding, Goto
  <1>2. exec \in Executions /\ exec.ctx \in SubmissionRows /\ Written
    BY <1>1, Holder
  <1>3. exec'.msg = exec.msg /\ exec'.who = "intake"
    BY <1>1, <1>2 DEF Executions
  <1>4. RequestOf(exec.ctx) \in minted
    BY <1>1, <1>2 DEF VInv, NoImpostor, Written, RequestOf
  <1>5. \A a \in DOMAIN submissions' :
            submissions'[a] = exec.ctx \/ (a \in DOMAIN submissions
                                           /\ submissions'[a] = submissions[a])
    BY <1>1, <1>2, AppendRows DEF IInv, TypeOK
  <1>6. NoImpostor'
    BY <1>1, <1>3, <1>4, <1>5 DEF VInv, NoImpostor
  <1>7. QED
    BY <1>1, <1>6 DEF VInv, BackendInv, NoConflictTold

LEMMA EndSources ==
    ASSUME IInv, VInv, UNCHANGED minted, Answer \/ Throw \/ Killed
    PROVE  BackendInv'
  <1>1. UNCHANGED <<submissions, inbox>> /\ exec.who = "intake" /\ exec' = Nobody
    BY DEF Answer, Throw, Killed, Holding, tables
  <1>2. \/ replies' = replies
        \/ replies' = replies \cup {Acceptance(exec.msg, exec.ctx)}
        \/ replies' = replies \cup {Refusal(exec.msg, "INTERNAL_ERROR")}
    BY DEF Answer, Throw, Killed
  <1>3. NoImpostor'
    BY <1>1, <1>2, SourcesKept DEF VInv, Refusal, Acceptance, Nobody
  <1>4. QED
    BY <1>2, <1>3 DEF VInv, BackendInv, NoConflictTold, Refusal, Acceptance

(* Whatever the backend does, and however it fails.                        *)
LEMMA BackendStep ==
    ASSUME IInv, VInv, Serve \/ Fail
    PROVE  [Next]_vars /\ VInv'
  <1>1. Next /\ UNCHANGED visitor
    BY DEF Serve, Fail, Next
  <1>2. UNCHANGED <<client, form, flight, minted, told, dropped>>
    BY <1>1 DEF visitor
  <1>3. BackendInv'
    <2>1. CASE Serve
      BY <1>2, <2>1, NothingConflicts, BeginSources, WriteSources, InsertSources, EndSources
         DEF Serve, Process
    <2>2. CASE Fail
      BY <1>2, <2>2, BeginSources, EndSources DEF Fail
    <2>3. QED
      BY <2>1, <2>2
  <1>4. ToldIsStored'
    BY <1>1, <1>2, ToldStays DEF VInv
  <1>5. VisitorTypes' /\ ClientInv' /\ FormInv' /\ MintedOnce'
    BY <1>2 DEF VInv, VisitorTypes, ClientInv, FormInv, MintedOnce
  <1>6. Accounted'
    BY <1>2 DEF VInv, Accounted, MintedOf, Trying
  <1>7. QED
    BY <1>1, <1>3, <1>4, <1>5, <1>6 DEF VInv, BackendInv

-----------------------------------------------------------------------------
(* The visitor.                                                            *)

(* Only the form moves, and offers no retry it did not offer before.       *)
LEMMA FormStep ==
    ASSUME VInv,
           UNCHANGED <<backend, client, flight, minted, told, dropped>>,
           form' \in Forms, form'.state = "failed" => form.state = "failed"
    PROVE  [Next]_vars /\ VInv'
  <1>1. UNCHANGED vars /\ UNCHANGED tables
    BY DEF backend, vars
  <1>2. ToldIsStored'
    BY <1>1, CompleteUnchanged DEF VInv, ToldIsStored
  <1>3. NoImpostor' /\ NoConflictTold' /\ MintedOnce'
    BY <1>1 DEF VInv, NoImpostor, NoConflictTold, MintedOnce, vars, tables
  <1>4. VisitorTypes' /\ ClientInv' /\ FormInv'
    BY DEF VInv, VisitorTypes, ClientInv, FormInv
  <1>5. Accounted'
    BY DEF VInv, Accounted, MintedOf, Trying
  <1>6. QED
    BY <1>1, <1>2, <1>3, <1>4, <1>5 DEF VInv

LEMMA EditStep ==
    ASSUME VInv, (\E c \in Contents : Edit(c)) \/ ChoosePathway \/ Reopen \/ SubmitRefused
    PROVE  [Next]_vars /\ VInv'
  <1>1. form \in Forms /\ Initial \in Contents
    BY SessionAssumption DEF VInv, VisitorTypes
  <1>2. UNCHANGED <<backend, client, flight, minted, told, dropped>>
    BY DEF Edit, ChoosePathway, Reopen, SubmitRefused, Refused
  <1>3. form' \in Forms /\ (form'.state = "failed" => form.state = "failed")
    <2>1. ASSUME NEW c \in Contents, Edit(c)
          PROVE  form' \in Forms /\ form'.state = form.state
      BY <1>1, <2>1 DEF Edit, Forms
    <2>2. CASE ChoosePathway
      BY <1>1, <2>2 DEF ChoosePathway, Forms
    <2>3. CASE Reopen
      BY <1>1, <2>3 DEF Reopen, Opened, Forms
    <2>4. CASE SubmitRefused
      BY <1>1, <2>4 DEF SubmitRefused, Refused, Forms
    <2>5. QED
      BY <2>1, <2>2, <2>3, <2>4
  <1>4. QED
    BY <1>2, <1>3, FormStep

(* An attempt that is dropped is counted, if there was one.                *)
LEMMA DroppingCounts ==
    ASSUME VInv, Dropping(client)
    PROVE  /\ dropped' \in [Contents -> Nat]
           /\ \A c \in Contents : dropped'[c] = dropped[c] + (IF Trying(c) THEN 1 ELSE 0)
  <1>1. client \in Clients /\ dropped \in [Contents -> Nat]
    BY DEF VInv, VisitorTypes
  <1>2. CASE A!Live(client)
    <2>1. client.envelope \in Envelopes /\ client.envelope.req.content \in Contents
      BY <1>1, <1>2, LiveEnvelope, EnvelopeFacts
    <2>2. dropped' = [dropped EXCEPT ![client.envelope.req.content] = @ + 1]
      BY <1>2 DEF Dropping
    <2>3. QED
      BY <1>1, <2>1, <2>2 DEF Trying
  <1>3. CASE ~ A!Live(client)
    BY <1>1, <1>3, LiveEnvelope DEF Dropping, Trying
  <1>4. QED
    BY <1>2, <1>3

LEMMA ReloadStep ==
    ASSUME VInv, Reload
    PROVE  [Next]_vars /\ VInv'
  <1>1. /\ client' = A!Idle /\ form' = Opened /\ flight' = NoPost /\ Dropping(client)
        /\ UNCHANGED <<minted, told>> /\ UNCHANGED vars /\ UNCHANGED tables
    BY DEF Reload, backend, vars
  <1>2. form' \in Forms /\ form'.state # "failed"
    BY <1>1, SessionAssumption DEF Opened, Forms
  <1>3. VisitorTypes' /\ ClientInv' /\ FormInv'
    BY <1>1, <1>2, IdleClient, DroppingCounts
       DEF VInv, VisitorTypes, ClientInv, FormInv
  <1>4. ToldIsStored'
    BY <1>1, CompleteUnchanged DEF VInv, ToldIsStored
  <1>5. NoImpostor' /\ NoConflictTold' /\ MintedOnce'
    BY <1>1 DEF VInv, NoImpostor, NoConflictTold, MintedOnce, vars, tables
  <1>6. Accounted'
    <2> SUFFICES ASSUME NEW c \in Contents
                 PROVE  /\ IsFiniteSet(MintedOf(c)')
                        /\ Cardinality(MintedOf(c)') =
                              told'[c] + dropped'[c] + (IF Trying(c)' THEN 1 ELSE 0)
      BY DEF Accounted
    <2>1. MintedOf(c)' = MintedOf(c) /\ ~ Trying(c)'
      BY <1>1, IdleClient DEF MintedOf, Trying
    <2>2. told[c] \in Nat /\ dropped[c] \in Nat
      BY DEF VInv, VisitorTypes
    <2>3. /\ IsFiniteSet(MintedOf(c))
          /\ Cardinality(MintedOf(c)) = told[c] + dropped[c] + (IF Trying(c) THEN 1 ELSE 0)
      BY DEF VInv, Accounted
    <2>4. dropped'[c] = dropped[c] + (IF Trying(c) THEN 1 ELSE 0)
      BY <1>1, DroppingCounts
    <2>5. QED
      BY <1>1, <2>1, <2>2, <2>3, <2>4
  <1>7. QED
    BY <1>1, <1>3, <1>4, <1>5, <1>6 DEF VInv

(* An envelope leaves, or is lost on the way: whether anything was ever    *)
(* sent under its id before, and what is counted of it, is for the caller. *)
LEMMA SendStep ==
    ASSUME IInv, VInv, NEW c \in Clients, c.envelope \in Envelopes, ~ c.exhausted,
           Send(c), minted' \in SUBSET Ids, minted \subseteq minted',
           RequestOf(c.envelope.req) \in minted', MintedOnce',
           dropped' \in [Contents -> Nat], Accounted'
    PROVE  [Next]_vars /\ VInv'
  <1>1. c.envelope.req \in Requests
    BY EnvelopeFacts
  <1>2. [Next]_vars
    BY <1>1 DEF Send, Next, vars, backend
  <1>3. client' = A!Sending(c) /\ told' = told
        /\ form' = [form EXCEPT !.state = "sending", !.awaits = TRUE]
        /\ flight' \in {posts + 1, LostPost}
    BY DEF Send
  <1>4. posts \in Nat /\ MaxPosts \in Nat
    BY IntakeAssumption DEF IInv, TypeOK
  <1>5. flight' # NoPost
    BY <1>3, <1>4 DEF NoPost, LostPost
  <1>6. /\ client' \in Clients /\ client'.envelope = c.envelope
        /\ client'.inFlight /\ ~ client'.exhausted
    BY <1>3, SendingClient
  <1>7. form' \in Forms /\ form'.state # "failed"
    BY <1>3 DEF VInv, VisitorTypes, Forms
  <1>8. VisitorTypes' /\ ClientInv' /\ FormInv'
    BY <1>3, <1>5, <1>6, <1>7 DEF VInv, VisitorTypes, ClientInv, FormInv
  <1>9. ToldIsStored'
    BY <1>2, <1>3, ToldStays DEF VInv
  <1>10. NoImpostor' /\ NoConflictTold'
    <2>1. UNCHANGED <<submissions, exec, replies>>
          /\ \A m \in inbox' : m \in inbox \/ m.req = c.envelope.req
      BY DEF Send, Post, backend, tables
    <2>2. QED
      BY <2>1, SourcesKept DEF VInv, NoConflictTold
  <1>11. QED
    BY <1>2, <1>8, <1>9, <1>10 DEF VInv

(* The same envelope again: nothing is minted and nothing is counted.      *)
LEMMA AgainStep ==
    ASSUME IInv, VInv, SubmitAgain \/ Retry
    PROVE  [Next]_vars /\ VInv'
  <1>1. Send(client) /\ A!Live(client) /\ UNCHANGED <<minted, dropped>>
    BY DEF SubmitAgain, Retry, A!NeedsNew, A!RefusesRetry
  <1>2. client \in Clients /\ ~ client.exhausted
    BY DEF VInv, VisitorTypes, ClientInv
  <1>3. client.envelope \in Envelopes
    BY <1>1, <1>2, LiveEnvelope
  <1>4. RequestOf(client.envelope.req) \in minted
    BY <1>3 DEF VInv, ClientInv
  <1>5. client'.envelope = client.envelope /\ told' = told
    BY <1>1, <1>2, SendingClient DEF Send
  <1>6. Accounted' /\ MintedOnce'
    BY <1>1, <1>5 DEF VInv, Accounted, MintedOf, Trying, MintedOnce
  <1>7. QED
    BY <1>1, <1>2, <1>3, <1>4, <1>6, SendStep DEF VInv, VisitorTypes

(* A new id: the attempt it replaces is given up.                          *)
LEMMA NewStep ==
    ASSUME IInv, VInv, NEW sid \in SubmissionIds, SubmitNew(sid)
    PROVE  [Next]_vars /\ VInv'
  <1> DEFINE draft == form.draft
             req == [submissionId |-> sid, content |-> draft, signals |-> FALSE]
             e == [id |-> sid, req |-> req]
             m == [submissionId |-> sid, content |-> draft]
  <1>1. draft \in Contents /\ client \in Clients /\ minted \in SUBSET Ids
    BY DEF VInv, VisitorTypes, Forms
  <1>2. /\ Send(A!Begun(e)) /\ minted' = minted \cup {m}
        /\ \A n \in minted : n.submissionId # sid
        /\ ~ Same(draft) => Dropping(client)
        /\ A!NeedsNew(client, Same(draft))
    BY DEF SubmitNew
  <1>3. ~ Same(draft)
    BY <1>2 DEF A!NeedsNew, Same
  <1>4. e \in Envelopes /\ RequestOf(e.req) = m /\ m \in Ids /\ e.req.content = draft
        /\ m.submissionId = sid /\ m.content = draft
    <2>1. /\ req \in Requests /\ m \in Ids
          /\ req.submissionId = sid /\ req.content = draft
      BY <1>1 DEF Requests, Ids
    <2>2. RequestOf(req) = m
      BY <2>1 DEF RequestOf
    <2> HIDE DEF req
    <2>3. e \in Envelopes
      BY <2>1 DEF Envelopes
    <2>4. QED
      BY <2>1, <2>2, <2>3
  <1> HIDE DEF e, m
  <1>5. /\ A!Begun(e) \in Clients /\ A!Begun(e).envelope = e /\ ~ A!Begun(e).exhausted
    BY <1>4, BegunClient
  <1>6. client'.envelope = e /\ told' = told
    BY <1>2, <1>5, SendingClient DEF Send
  <1>7. MintedOnce'
    BY <1>2, <1>4 DEF VInv, MintedOnce
  <1>8. Accounted'
    <2> SUFFICES ASSUME NEW c \in Contents
                 PROVE  /\ IsFiniteSet(MintedOf(c)')
                        /\ Cardinality(MintedOf(c)') =
                              told'[c] + dropped'[c] + (IF Trying(c)' THEN 1 ELSE 0)
      BY DEF Accounted
    <2>1. told[c] \in Nat /\ dropped[c] \in Nat
      BY DEF VInv, VisitorTypes
    <2>2. dropped'[c] = dropped[c] + (IF Trying(c) THEN 1 ELSE 0)
      BY <1>2, <1>3, DroppingCounts
    <2>3. /\ IsFiniteSet(MintedOf(c))
          /\ Cardinality(MintedOf(c)) = told[c] + dropped[c] + (IF Trying(c) THEN 1 ELSE 0)
      BY DEF VInv, Accounted
    <2>4. Trying(c)' <=> c = draft
      BY <1>4, <1>6 DEF Trying
    <2>5. m \notin MintedOf(c)
      BY <1>2, <1>4 DEF MintedOf
    <2>6. MintedOf(c)' = IF c = draft THEN MintedOf(c) \cup {m} ELSE MintedOf(c)
      BY <1>2, <1>4 DEF MintedOf
    <2>7. /\ IsFiniteSet(MintedOf(c) \cup {m})
          /\ Cardinality(MintedOf(c) \cup {m}) = Cardinality(MintedOf(c)) + 1
      BY <2>3, <2>5, FS_AddElement
    <2>8. QED
      BY <1>6, <2>1, <2>2, <2>3, <2>4, <2>6, <2>7
  <1>9. QED
    BY <1>1, <1>2, <1>3, <1>4, <1>5, <1>7, <1>8, DroppingCounts, SendStep

-----------------------------------------------------------------------------
(* Results.                                                                *)

LEMMA ApplyStep ==
    ASSUME IInv, VInv, NEW result \in Verdicts, Apply(result), flight # NoPost,
           result.outcome = "ok" =>
              Complete(client.envelope.req.submissionId, client.envelope.req.content)
    PROVE  [Next]_vars /\ VInv'
  <1> DEFINE mine == client.envelope.req.content
  <1>1. UNCHANGED <<minted, dropped>> /\ UNCHANGED vars /\ UNCHANGED tables
        /\ client' = A!Applied(client, result) /\ flight' = NoPost
    BY DEF Apply, backend, vars
  <1>2. /\ client \in Clients /\ form \in Forms /\ client.inFlight
        /\ told \in [Contents -> Nat] /\ dropped \in [Contents -> Nat]
        /\ client.envelope \in Envelopes /\ RequestOf(client.envelope.req) \in minted
    BY DEF VInv, VisitorTypes, ClientInv
  <1>3. mine \in Contents
    BY <1>2, EnvelopeFacts
  <1>4. /\ client' \in Clients /\ ~ client'.inFlight /\ ~ client'.exhausted
        /\ result.outcome = "ok" => client'.envelope \notin Envelopes
        /\ result.outcome # "ok" =>
              /\ client'.envelope = client.envelope
              /\ client'.retryable <=> result.outcome = "retryable"
    BY <1>1, <1>2, AppliedClient
  <1>5. /\ form' \in Forms
        /\ form'.state = "failed" => form.state = "failed" \/ result.outcome = "retryable"
    <2>1. CASE ~ form.awaits
      BY <1>2, <2>1 DEF Apply
    <2>2. CASE form.awaits /\ result.outcome = "ok"
      BY <1>2, <2>2 DEF Apply, Forms
    <2>3. CASE form.awaits /\ result.outcome # "ok"
      <3>1. form' = [form EXCEPT !.state = A!FormState(result), !.awaits = FALSE]
        BY <2>3 DEF Apply
      <3>2. QED
        BY <1>2, <3>1, FormStates DEF Forms
    <2>4. QED
      BY <2>1, <2>2, <2>3
  <1>6. form.state # "failed"
    BY <1>2 DEF VInv, FormInv
  <1>7. told' = IF result.outcome = "ok" THEN [told EXCEPT ![mine] = @ + 1] ELSE told
    BY DEF Apply
  <1>8. VisitorTypes'
    BY <1>1, <1>2, <1>3, <1>4, <1>5, <1>7 DEF VInv, VisitorTypes
  <1>9. ClientInv' /\ FormInv'
    BY <1>1, <1>2, <1>4, <1>5, <1>6 DEF ClientInv, FormInv
  <1>10. NoImpostor' /\ NoConflictTold' /\ MintedOnce'
    BY <1>1 DEF VInv, NoImpostor, NoConflictTold, MintedOnce, vars, tables
  <1>11. ToldIsStored'
    <2> SUFFICES ASSUME NEW c \in Contents, told'[c] > 0
                 PROVE  \E m \in minted : m.content = c /\ Complete(m.submissionId, c)'
      BY <1>1 DEF ToldIsStored
    <2>1. CASE told[c] > 0
      BY <1>1, <2>1, CompleteUnchanged DEF VInv, ToldIsStored
    <2>2. CASE ~ told[c] > 0
      <3>1. result.outcome = "ok" /\ c = mine
        BY <1>2, <1>3, <1>7, <2>2
      <3>2. PICK m \in minted : m = RequestOf(client.envelope.req)
        BY <1>2
      <3>3. m.content = c /\ Complete(m.submissionId, c)
        BY <3>1, <3>2 DEF RequestOf
      <3>4. Complete(m.submissionId, c)'
        BY <1>1, <3>3, CompleteUnchanged
      <3>5. QED
        BY <3>3, <3>4
    <2>3. QED
      BY <2>1, <2>2
  <1>12. Accounted'
    <2> SUFFICES ASSUME NEW c \in Contents
                 PROVE  /\ IsFiniteSet(MintedOf(c)')
                        /\ Cardinality(MintedOf(c)') =
                              told'[c] + dropped'[c] + (IF Trying(c)' THEN 1 ELSE 0)
      BY DEF Accounted
    <2>1. MintedOf(c)' = MintedOf(c) /\ dropped'[c] = dropped[c]
      BY <1>1 DEF MintedOf
    <2>2. /\ IsFiniteSet(MintedOf(c))
          /\ Cardinality(MintedOf(c)) = told[c] + dropped[c] + (IF Trying(c) THEN 1 ELSE 0)
      BY DEF VInv, Accounted
    <2>3. told[c] \in Nat /\ dropped[c] \in Nat
      BY <1>2
    <2>4. Trying(c) <=> c = mine
      BY <1>2 DEF Trying
    <2>5. CASE result.outcome = "ok"
      <3>1. told'[c] = told[c] + (IF c = mine THEN 1 ELSE 0)
        BY <1>2, <1>3, <1>7, <2>3, <2>5
      <3>2. ~ Trying(c)'
        BY <1>4, <2>5 DEF Trying
      <3>3. QED
        BY <2>1, <2>2, <2>3, <2>4, <3>1, <3>2
    <2>6. CASE result.outcome # "ok"
      <3>1. told' = told /\ (Trying(c)' <=> Trying(c))
        BY <1>4, <1>7, <2>6 DEF Trying
      <3>2. QED
        BY <2>1, <2>2, <3>1
    <2>7. QED
      BY <2>5, <2>6
  <1>13. QED
    BY <1>1, <1>8, <1>9, <1>10, <1>11, <1>12 DEF VInv

(* A success that names the awaited id is about what was sent under it.    *)
LEMMA ReplyStep ==
    ASSUME IInv, VInv, NEW r \in replies, flight # NoPost,
           Apply(A!Read(BodyOf(r), Sent))
    PROVE  [Next]_vars /\ VInv'
  <1> DEFINE body == BodyOf(r)
             result == A!Read(body, Sent)
  <1>1. /\ body.ok <=> r.code = "OK"
        /\ body.typed /\ body.id = r.req.submissionId /\ body.code = r.code
    BY DEF BodyOf
  <1>2. r.code # "SUBMISSION_ID_CONFLICT" /\ RequestOf(r.req) \in minted
    BY DEF VInv, NoConflictTold, NoImpostor
  <1> HIDE DEF body
  <1>3. /\ result \in Verdicts
        /\ result.outcome = "ok" => r.code = "OK" /\ body.id = Sent.id
    BY <1>1, <1>2, ReadFacts
  <1>4. /\ client.envelope \in Envelopes /\ RequestOf(client.envelope.req) \in minted
        /\ Sent.id = client.envelope.req.submissionId
    BY EnvelopeFacts DEF VInv, ClientInv, Sent
  <1>5. ASSUME result.outcome = "ok"
        PROVE  Complete(client.envelope.req.submissionId, client.envelope.req.content)
    <2>1. Complete(r.req.submissionId, r.req.content)
      BY <1>3, <1>5 DEF IInv, AcceptedIsComplete
    <2>2. r.req.submissionId = client.envelope.req.submissionId
      BY <1>1, <1>3, <1>4, <1>5
    <2>3. RequestOf(r.req) = RequestOf(client.envelope.req)
      BY <1>2, <1>4, <2>2 DEF VInv, MintedOnce, RequestOf
    <2>4. QED
      BY <2>1, <2>2, <2>3 DEF RequestOf
  <1>6. Apply(result)
    BY DEF body
  <1> HIDE DEF result
  <1>7. QED
    BY <1>3, <1>5, <1>6, ApplyStep

(* What is no success of this contract is a failure of some kind.          *)
LEMMA FailureStep ==
    ASSUME IInv, VInv, NEW result \in Verdicts, result.outcome # "ok",
           flight # NoPost, Apply(result)
    PROVE  [Next]_vars /\ VInv'
  BY ApplyStep

LEMMA UnreadableFacts ==
    ASSUME NEW body \in {A!Generic, A!NoBody,
                         [ok |-> FALSE, typed |-> TRUE, code |-> "SERVICE_NOT_CONFIGURED"]}
    PROVE  A!Read(body, Sent) \in Verdicts /\ A!Read(body, Sent).outcome # "ok"
  <1>1. body.typed => ~ body.ok /\ body.code = "SERVICE_NOT_CONFIGURED"
    BY DEF A!Generic, A!NoBody
  <1>2. QED
    BY <1>1, ReadFacts

LEMMA ResultStep ==
    ASSUME IInv, VInv, Deliver \/ TimeOut \/ AnsweredElsewhere
    PROVE  [Next]_vars /\ VInv'
  <1>1. MaxPosts \in Nat
    BY IntakeAssumption
  <1>2. \A r \in replies : r.post \in 1 .. MaxPosts
    BY DEF IInv, TypeOK, Answers
  <1>3. flight # NoPost
    BY <1>1, <1>2 DEF Deliver, Receive, NeverArrived, ErrorPage, Unanswerable,
                      TimeOut, AnsweredElsewhere, NoPost, LostPost
  <1>4. CASE Receive
    BY <1>3, <1>4, ReplyStep DEF Receive
  <1>5. CASE NeverArrived \/ ErrorPage \/ TimeOut
    BY <1>3, <1>5, FailureStep, UnreadableFacts, NetworkFailureFacts
       DEF NeverArrived, ErrorPage, TimeOut
  <1>6. CASE AnsweredElsewhere
    BY <1>3, <1>6, ReplyStep, FailureStep, UnreadableFacts DEF AnsweredElsewhere
  <1>7. QED
    BY <1>4, <1>5, <1>6 DEF Deliver

-----------------------------------------------------------------------------
LEMMA InitVInv == SessionInit => Init /\ VInv
  <1> SUFFICES ASSUME SessionInit PROVE Init /\ VInv
    OBVIOUS
  <1>1. /\ Init /\ client = A!Idle /\ form = Opened /\ flight = NoPost /\ minted = {}
        /\ told = [c \in Contents |-> 0] /\ dropped = [c \in Contents |-> 0]
    BY DEF SessionInit
  <1>2. form \in Forms /\ form.state # "failed"
    BY <1>1, SessionAssumption DEF Opened, Forms
  <1>3. VisitorTypes /\ ClientInv /\ FormInv
    BY <1>1, <1>2, IdleClient DEF VisitorTypes, ClientInv, FormInv
  <1>4. MintedOnce /\ NoImpostor /\ NoConflictTold /\ ToldIsStored
    BY <1>1 DEF MintedOnce, NoImpostor, NoConflictTold, ToldIsStored, Init, Nobody
  <1>5. Accounted
    <2>1. \A c \in Contents : MintedOf(c) = {} /\ ~ Trying(c)
      BY <1>1, IdleClient DEF MintedOf, Trying
    <2>2. QED
      BY <1>1, <2>1, FS_EmptySet DEF Accounted
  <1>6. QED
    BY <1>1, <1>3, <1>4, <1>5 DEF VInv

LEMMA NextVInv ==
    IInv /\ VInv /\ [SessionNext]_sessionVars => [Next]_vars /\ VInv'
  <1> SUFFICES ASSUME IInv, VInv, [SessionNext]_sessionVars
               PROVE  [Next]_vars /\ VInv'
    OBVIOUS
  <1>1. CASE (\E c \in Contents : Edit(c)) \/ ChoosePathway \/ Reopen \/ SubmitRefused
    BY <1>1, EditStep
  <1>2. CASE Reload
    BY <1>2, ReloadStep
  <1>3. CASE SubmitAgain \/ Retry
    BY <1>3, AgainStep
  <1>4. ASSUME NEW sid \in SubmissionIds, SubmitNew(sid)
        PROVE  [Next]_vars /\ VInv'
    BY <1>4, NewStep
  <1>5. CASE Deliver \/ TimeOut \/ AnsweredElsewhere
    BY <1>5, ResultStep
  <1>6. CASE Serve \/ Fail
    BY <1>6, BackendStep
  <1>7. CASE UNCHANGED sessionVars
    <2>1. UNCHANGED <<backend, client, form, flight, minted, told, dropped>>
      BY <1>7 DEF sessionVars, visitor
    <2>2. QED
      BY <2>1, FormStep DEF VInv, VisitorTypes
  <1>8. QED
    BY <1>1, <1>2, <1>3, <1>4, <1>5, <1>6, <1>7 DEF SessionNext, Press

-----------------------------------------------------------------------------
(* The invariant of the composition: that of the backend, and the visitor's*)
(* own.                                                                    *)
THEOREM SessionInductiveInvariant == SessionSpec => [](IInv /\ VInv)
  <1>1. SessionInit => IInv /\ VInv
    BY InitVInv, InitIInv
  <1>2. IInv /\ VInv /\ [SessionNext]_sessionVars => (IInv /\ VInv)'
    BY NextVInv, NextIInv
  <1>3. QED
    BY <1>1, <1>2, PTL DEF SessionSpec

(* Whatever the visitor, the client and the network do, the backend they   *)
(* drive behaves as Intake says; so it implements the ledger here as well. *)
THEOREM SessionDrivesIntake == SessionSpec => Spec /\ ImplementsAtomicIntake
  <1>1. SessionInit => Init
    BY InitVInv
  <1>2. IInv /\ VInv /\ [SessionNext]_sessionVars => [Next]_vars
    BY NextVInv
  <1>3. SessionSpec => Spec
    BY <1>1, <1>2, SessionInductiveInvariant, PTL DEF SessionSpec, Spec
  <1>4. QED
    BY <1>3, IntakeImplementsLedger

(* A success shown to the visitor is never taken on credit: the content it *)
(* reports is completely stored, whatever was lost, late or killed.        *)
THEOREM SessionToldIsStored == SessionSpec => []ToldIsStored
  <1>1. VInv => ToldIsStored
    BY DEF VInv
  <1>2. QED
    BY <1>1, SessionInductiveInvariant, PTL

(* The client never reuses an id for other answers, so the backend never   *)
(* says it did and no attempt is ever dead.                                *)
THEOREM SessionNeverConflicts == SessionSpec => []NeverConflicts
  <1>1. VInv => NeverConflicts
    BY DEF VInv, NoConflictTold, ClientInv, NeverConflicts
  <1>2. QED
    BY <1>1, SessionInductiveInvariant, PTL

(* A retry that is offered is one the client makes.                        *)
THEOREM SessionRetryIsHonoured == SessionSpec => []RetryIsHonoured
  <1>1. VInv => RetryIsHonoured
    BY LiveEnvelope DEF VInv, VisitorTypes, FormInv, RetryIsHonoured, RetryOffered,
                        A!RefusesRetry
  <1>2. QED
    BY <1>1, SessionInductiveInvariant, PTL

(* Every record of a content beyond the first follows a success that was   *)
(* reported or an attempt the visitor gave up: the records have different  *)
(* ids, each of them minted for that content, and of the ids minted only   *)
(* the live attempt's is neither told nor dropped.                         *)
THEOREM SessionRecordsAreWarranted == SessionSpec => []RecordsAreWarranted
  <1>1. ASSUME IInv, VInv, NEW c \in Contents
        PROVE  Cardinality({i \in DOMAIN submissions : submissions[i].content = c})
                  <= 1 + told[c] + dropped[c]
    <2> DEFINE Rows == {i \in DOMAIN submissions : submissions[i].content = c}
               idOf == [i \in Rows |-> RequestOf(submissions[i])]
    <2>1. idOf \in [Rows -> MintedOf(c)]
      BY <1>1 DEF VInv, NoImpostor, MintedOf, RequestOf
    <2>2. \A i, j \in Rows : idOf[i] = idOf[j] => i = j
      BY <1>1 DEF IInv, OneRecordPerRequest, Unique, RequestOf
    <2>3. idOf \in Injection(Rows, MintedOf(c))
      BY <2>1, <2>2 DEF Injection, IsInjective
    <2>4. IsFiniteSet(MintedOf(c))
          /\ Cardinality(MintedOf(c)) = told[c] + dropped[c] + (IF Trying(c) THEN 1 ELSE 0)
      BY <1>1 DEF VInv, Accounted
    <2> HIDE DEF Rows, idOf
    <2>5. IsFiniteSet(Rows) /\ Cardinality(Rows) <= Cardinality(MintedOf(c))
      BY <2>3, <2>4, FS_Injection
    <2>6. Cardinality(Rows) \in Nat
      BY <2>5, FS_CardinalityType
    <2>7. told[c] \in Nat /\ dropped[c] \in Nat
      BY <1>1 DEF VInv, VisitorTypes
    <2>8. Cardinality(Rows) <= 1 + told[c] + dropped[c]
      BY <2>4, <2>5, <2>6, <2>7
    <2>9. QED
      BY <2>8 DEF Rows
  <1>2. IInv /\ VInv => RecordsAreWarranted
    BY <1>1 DEF RecordsAreWarranted
  <1>3. QED
    BY <1>2, SessionInductiveInvariant, PTL
=============================================================================
