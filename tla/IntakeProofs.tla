---------------------------- MODULE IntakeProofs ----------------------------
(***************************************************************************)
(* Proofs about Intake.tla, for every set of ids and contents and every    *)
(* number of posts, deaths and repairs: the type invariant and the three   *)
(* safety invariants, all from one inductive invariant.                    *)
(***************************************************************************)
EXTENDS Intake, TLAPS

-----------------------------------------------------------------------------
(* The inductive invariant adds, to the three invariants, what is known of *)
(* the execution that holds the lock at each of its program points, and    *)
(* that business ids are minted once.                                      *)

BusinessTab(c) == IF c \in Exchanges THEN contacts ELSE leads

(* The context is the audit row, and what lies before the program counter  *)
(* has been written.                                                       *)
Written ==
    LET req == exec.msg.req IN
    /\ exec.ctx.submissionId = req.submissionId
    /\ exec.ctx.content = req.content
    /\ exec.pc # "submission" => \E a \in DOMAIN submissions : submissions[a] = exec.ctx
    /\ exec.pc \in {"delivery", "ack", "notify", "answer"}
          => Has(BusinessTab(req.content), req.submissionId)
    /\ exec.pc \in {"ack", "notify", "answer"} => Has(deliveries, req.submissionId)
    /\ exec.pc \in {"notify", "answer"}
          => Queued(work, Key(AckKind(KindOf(req.content)), req.submissionId))
    /\ exec.pc = "answer" /\ req.content \notin Exchanges
          => Queued(work, Key("notify_partners", req.submissionId))

(* A first execution, which does not look before it inserts, has nothing   *)
(* of its request ahead of it.                                             *)
Unwritten ==
    LET req == exec.msg.req IN
    /\ exec.pc = "submission" =>
          /\ ~ exec.replay
          /\ ~ Has(submissions, req.submissionId)
          /\ \A a \in DOMAIN submissions : submissions[a].businessId # exec.ctx.businessId
    /\ ~ exec.replay /\ exec.pc \in {"submission", "business"} =>
          /\ ~ Has(leads, req.submissionId) /\ ~ Has(contacts, req.submissionId)
    /\ ~ exec.replay /\ exec.pc \in {"submission", "business", "delivery"} =>
          ~ Has(deliveries, req.submissionId)

ExecInv == exec.who = "intake" =>
              Written /\ Unwritten /\ exec.ctx.businessId < nextId

FreshIds ==
    /\ \A a \in DOMAIN submissions : submissions[a].businessId < nextId
    /\ \A a, b \in DOMAIN submissions :
          submissions[a].businessId = submissions[b].businessId => a = b

IInv == /\ TypeOK
        /\ OneRecordPerRequest
        /\ RepairsReproduceTheAudit
        /\ AcceptedIsComplete
        /\ ExecInv
        /\ FreshIds

-----------------------------------------------------------------------------
(* Lemmas about tabs.                                                      *)

(* A row that is appended is in the tab, after every row it held.          *)
LEMMA AppendRows ==
    ASSUME NEW S, NEW tab \in Seq(S), NEW row \in S
    PROVE  /\ Append(tab, row) \in Seq(S)
           /\ DOMAIN Append(tab, row) = DOMAIN tab \cup {Len(tab) + 1}
           /\ \A i \in DOMAIN tab : Append(tab, row)[i] = tab[i]
           /\ Append(tab, row)[Len(tab) + 1] = row
           /\ Len(tab) + 1 \notin DOMAIN tab
  OBVIOUS

LEMMA HasAppend ==
    ASSUME NEW S, NEW tab \in Seq(S), NEW row \in S, NEW sid
    PROVE  Has(Append(tab, row), sid) <=> Has(tab, sid) \/ row.submissionId = sid
  BY AppendRows DEF Has

(* Appending a row about a submission the tab does not know keeps it       *)
(* duplicate-free.                                                         *)
LEMMA UniqueAppend ==
    ASSUME NEW S, NEW tab \in Seq(S), NEW row \in S,
           Unique(tab), ~ Has(tab, row.submissionId)
    PROVE  Unique(Append(tab, row))
  BY AppendRows DEF Unique, Has

(* An insertion guarded by an existence check, on any tab: the row is      *)
(* there afterwards, once, and nothing else has moved.                     *)
LEMMA InsertOnce ==
    ASSUME NEW S, NEW tab \in Seq(S), NEW row \in S, NEW after, Unique(tab),
           Has(tab, row.submissionId) => after = tab,
           ~ Has(tab, row.submissionId) => after = Append(tab, row)
    PROVE  /\ after \in Seq(S)
           /\ Has(after, row.submissionId)
           /\ \A s : Has(tab, s) => Has(after, s)
           /\ Unique(after)
           /\ \A i \in DOMAIN after :
                  after[i] = row \/ (i \in DOMAIN tab /\ after[i] = tab[i])
  <1>1. CASE Has(tab, row.submissionId)
    BY <1>1
  <1>2. CASE ~ Has(tab, row.submissionId)
    <2>1. after = Append(tab, row)
      BY <1>2
    <2>2. \A s : Has(Append(tab, row), s) <=> Has(tab, s) \/ row.submissionId = s
      BY HasAppend
    <2>3. Unique(Append(tab, row))
      BY <1>2, UniqueAppend
    <2>4. QED
      BY <2>1, <2>2, <2>3, AppendRows
  <1>3. QED
    BY <1>1, <1>2

(* In a duplicate-free tab, Find returns a row about the submission.       *)
LEMMA FindRow ==
    ASSUME NEW S, NEW tab \in Seq(S), NEW sid, Unique(tab), Has(tab, sid)
    PROVE  \E a \in DOMAIN tab : tab[a] = Find(tab, sid) /\ tab[a].submissionId = sid
  <1>1. PICK a \in DOMAIN tab : tab[a].submissionId = sid
    BY DEF Has
  <1>2. \A j \in 1 .. a - 1 : j \in DOMAIN tab /\ j # a
    BY <1>1
  <1>3. \A j \in 1 .. a - 1 : tab[j].submissionId # sid
    BY <1>1, <1>2 DEF Unique
  <1>4. /\ FirstRow(tab, sid) \in DOMAIN tab
        /\ tab[FirstRow(tab, sid)].submissionId = sid
    BY <1>1, <1>3 DEF FirstRow
  <1>5. QED
    BY <1>4 DEF Find

FreshItems(K) == {WorkItem(k) : k \in K}

(* Enqueue restores a missing item, keeps the others, and never makes a    *)
(* second one with the same key.                                           *)
LEMMA EnqueueItems ==
    ASSUME NEW K, NEW k \in K, NEW w \in Seq(FreshItems(K)),
           \A i, j \in DOMAIN w : w[i].key = w[j].key => i = j
    PROVE  /\ Enqueue(w, k) \in Seq(FreshItems(K))
           /\ Queued(Enqueue(w, k), k)
           /\ \A q : Queued(w, q) => Queued(Enqueue(w, k), q)
           /\ \A i, j \in DOMAIN Enqueue(w, k) :
                 Enqueue(w, k)[i].key = Enqueue(w, k)[j].key => i = j
  <1>1. WorkItem(k) \in FreshItems(K) /\ WorkItem(k).key = k
    BY DEF FreshItems, WorkItem
  <1>2. CASE Queued(w, k)
    BY <1>2 DEF Enqueue
  <1>3. CASE ~ Queued(w, k)
    BY <1>1, <1>3, AppendRows DEF Enqueue, Queued
  <1>4. QED
    BY <1>2, <1>3

-----------------------------------------------------------------------------
(* Steps that write no row.                                                *)

(* Completeness of a request is about the tabs only.                       *)
LEMMA CompleteUnchanged ==
    ASSUME UNCHANGED tables, NEW sid, NEW c
    PROVE  Complete(sid, c)' <=> Complete(sid, c)
  BY DEF tables, Complete, Has, Queued

(* A step that leaves the tabs alone keeps what the tabs say.              *)
LEMMA TabsUnchanged ==
    ASSUME IInv, UNCHANGED tables, nextId' \in Nat, nextId' >= nextId
    PROVE  OneRecordPerRequest' /\ RepairsReproduceTheAudit' /\ FreshIds'
  <1>1. OneRecordPerRequest' /\ RepairsReproduceTheAudit'
    BY DEF IInv, tables, OneRecordPerRequest, RepairsReproduceTheAudit, Unique
  <1>2. /\ nextId \in Nat
        /\ \A a \in DOMAIN submissions : submissions[a] \in SubmissionRows
    BY DEF IInv, TypeOK
  <1>3. \A a \in DOMAIN submissions : submissions[a].businessId \in Nat
    BY <1>2 DEF SubmissionRows
  <1>4. FreshIds'
    BY <1>2, <1>3 DEF IInv, tables, FreshIds
  <1>5. QED
    BY <1>1, <1>4

(* A refusal never counts as an acceptance.                                *)
LEMMA RefusalsKeepAnswers ==
    ASSUME IInv, UNCHANGED tables, NEW m, NEW code, code # "OK",
           replies' \subseteq replies \cup {Refusal(m, code)}
    PROVE  AcceptedIsComplete'
  BY CompleteUnchanged DEF IInv, AcceptedIsComplete, Refusal

(* Nothing running: nothing to know about the execution.                   *)
LEMMA NobodyRuns ==
    ASSUME exec' = Nobody
    PROVE  ExecInv'
  BY DEF ExecInv, Nobody

(* The lock holder's facts depend on it and the tabs alone.                *)
LEMMA ExecUnchanged ==
    ASSUME IInv, UNCHANGED <<tables, exec>>, nextId' = nextId
    PROVE  ExecInv'
  BY DEF IInv, ExecInv, Written, Unwritten, BusinessTab, Has, Queued, tables

LEMMA PostStep ==
    ASSUME IInv, NEW req \in Requests, Post(req)
    PROVE  IInv'
  <1>1. TypeOK'
    BY IntakeAssumption DEF IInv, TypeOK, Post, tables
  <1>2. UNCHANGED <<tables, exec, replies, nextId>> /\ nextId \in Nat
    BY DEF Post, IInv, TypeOK
  <1>3. AcceptedIsComplete'
    BY <1>2, CompleteUnchanged DEF IInv, AcceptedIsComplete
  <1>4. QED
    BY <1>1, <1>2, <1>3, TabsUnchanged, ExecUnchanged DEF IInv

LEMMA TickStep ==
    ASSUME IInv, Tick
    PROVE  IInv'
  <1>1. TypeOK'
    BY IntakeAssumption DEF IInv, TypeOK, Tick, tables
  <1>2. UNCHANGED <<tables, exec, replies, nextId>> /\ nextId \in Nat
    BY DEF Tick, IInv, TypeOK
  <1>3. AcceptedIsComplete'
    BY <1>2, CompleteUnchanged DEF IInv, AcceptedIsComplete
  <1>4. QED
    BY <1>1, <1>2, <1>3, TabsUnchanged, ExecUnchanged DEF IInv

(* The two refusals of a request that never gets to run.                   *)
LEMMA RefuseStep ==
    ASSUME IInv, NEW m \in inbox, LockUnavailable(m) \/ RefuseConflict(m)
    PROVE  IInv'
  <1>1. PICK code \in {"BUSY_TRY_AGAIN", "SUBMISSION_ID_CONFLICT"} :
            replies' = replies \cup {Refusal(m, code)}
    BY DEF LockUnavailable, RefuseConflict
  <1>2. UNCHANGED <<tables, exec, posts, nextId, now>> /\ inbox' = inbox \ {m}
    BY DEF LockUnavailable, RefuseConflict
  <1>3. Refusal(m, code) \in Answers
    BY IntakeAssumption DEF IInv, TypeOK, Refusal, Answers
  <1>4. TypeOK'
    BY <1>1, <1>2, <1>3 DEF IInv, TypeOK, tables
  <1>5. AcceptedIsComplete'
    BY <1>1, <1>2, RefusalsKeepAnswers
  <1>6. nextId \in Nat
    BY DEF IInv, TypeOK
  <1>7. QED
    BY <1>2, <1>4, <1>5, <1>6, TabsUnchanged, ExecUnchanged DEF IInv

(* Dying, with or without an answer.                                       *)
LEMMA DieStep ==
    ASSUME IInv, Throw \/ Killed
    PROVE  IInv'
  <1>1. /\ UNCHANGED <<tables, inbox, posts, nextId, now>>
        /\ exec' = Nobody
        /\ exec.who = "intake"
        /\ replies' \subseteq replies \cup {Refusal(exec.msg, "INTERNAL_ERROR")}
    BY DEF Throw, Killed
  <1>2. Refusal(exec.msg, "INTERNAL_ERROR") \in Answers
    BY <1>1 DEF IInv, TypeOK, Refusal, Answers, Executions, Messages, Nobody
  <1>3. TypeOK'
    BY <1>1, <1>2 DEF IInv, TypeOK, tables
  <1>4. AcceptedIsComplete'
    BY <1>1, RefusalsKeepAnswers
  <1>5. nextId \in Nat
    BY DEF IInv, TypeOK
  <1>6. QED
    BY <1>1, <1>3, <1>4, <1>5, TabsUnchanged, NobodyRuns DEF IInv

-----------------------------------------------------------------------------
(* Taking the lock.                                                        *)

(* The ids of contacts are numbers, so the flags of a new request are.     *)
LEMMA MatchesType ==
    ASSUME TypeOK, NEW c \in Contents
    PROVE  PossibleMatches(c) \in SUBSET Nat
  <1>1. \A i \in DOMAIN contacts : contacts[i] \in ContactRows
    BY DEF TypeOK
  <1>2. \A i \in DOMAIN contacts : contacts[i].contactId \in Nat
    BY <1>1 DEF ContactRows
  <1>3. QED
    BY <1>2 DEF PossibleMatches

(* No row of an unknown submission exists anywhere: every row has its      *)
(* audit row.                                                              *)
LEMMA NoAuditNoRows ==
    ASSUME IInv, NEW sid, ~ Has(submissions, sid)
    PROVE  ~ Has(leads, sid) /\ ~ Has(contacts, sid) /\ ~ Has(deliveries, sid)
  <1>1. \A a \in DOMAIN submissions : submissions[a].submissionId # sid
    BY DEF Has
  <1>2. \A i \in DOMAIN leads : leads[i].submissionId # sid
    BY <1>1 DEF IInv, RepairsReproduceTheAudit, Lead, RequestOf
  <1>3. \A i \in DOMAIN contacts : contacts[i].submissionId # sid
    BY <1>1 DEF IInv, RepairsReproduceTheAudit, Contact, RequestOf
  <1>4. \A i \in DOMAIN deliveries : deliveries[i].submissionId # sid
    <2> SUFFICES ASSUME NEW i \in DOMAIN deliveries
                 PROVE  deliveries[i].submissionId # sid
      OBVIOUS
    <2>1. PICK a \in DOMAIN submissions :
              deliveries[i] = Delivery(RequestOf(submissions[a]), submissions[a])
      BY DEF IInv, RepairsReproduceTheAudit
    <2>2. deliveries[i].submissionId = submissions[a].submissionId
      BY <2>1 DEF Delivery, RequestOf
    <2>3. QED
      BY <1>1, <2>2
  <1>5. QED
    BY <1>2, <1>3, <1>4 DEF Has

LEMMA BeginNewStep ==
    ASSUME IInv, NEW m \in inbox, BeginNew(m)
    PROVE  IInv'
  <1> DEFINE ctx == NewSubmission(m.req)
  <1>1. m \in Messages /\ m.req \in Requests
    BY IntakeAssumption DEF IInv, TypeOK, Messages
  <1>2. ctx \in SubmissionRows
    BY <1>1, MatchesType DEF IInv, TypeOK, NewSubmission, SubmissionRows, Requests
  <1>3. UNCHANGED <<tables, posts, replies, now>> /\ nextId' = nextId + 1
        /\ inbox' = inbox \ {m}
        /\ exec' = [who |-> "intake", pc |-> "submission", replay |-> FALSE,
                    msg |-> m, ctx |-> ctx]
    BY DEF BeginNew
  <1>4. nextId \in Nat \ {0}
    BY DEF IInv, TypeOK
  <1>5. TypeOK'
    <2>1. exec' \in Executions
      BY <1>1, <1>2, <1>3 DEF Executions, IntakePCs
    <2>2. QED
      BY <2>1, <1>3, <1>4 DEF IInv, TypeOK, tables
  <1>6. ExecInv'
    <2>1. ~ Has(submissions, m.req.submissionId)
      BY DEF BeginNew
    <2>2. /\ ~ Has(leads, m.req.submissionId) /\ ~ Has(contacts, m.req.submissionId)
          /\ ~ Has(deliveries, m.req.submissionId)
      BY <2>1, NoAuditNoRows
    <2>3. \A a \in DOMAIN submissions : submissions[a].businessId # nextId
      BY <1>4 DEF IInv, FreshIds, TypeOK, SubmissionRows
    <2>4. ctx.submissionId = m.req.submissionId /\ ctx.content = m.req.content
          /\ ctx.businessId = nextId
      BY DEF NewSubmission
    <2>5. Written'
      BY <1>3, <2>4 DEF Written
    <2>6. Unwritten'
      BY <1>3, <2>1, <2>2, <2>3, <2>4 DEF Unwritten, Has, tables
    <2>7. QED
      BY <1>3, <1>4, <2>4, <2>5, <2>6 DEF ExecInv
  <1>7. AcceptedIsComplete'
    BY <1>3, CompleteUnchanged DEF IInv, AcceptedIsComplete
  <1>8. QED
    BY <1>3, <1>4, <1>5, <1>6, <1>7, TabsUnchanged DEF IInv

LEMMA BeginReplayStep ==
    ASSUME IInv, NEW m \in inbox, BeginReplay(m)
    PROVE  IInv'
  <1> DEFINE ctx == Find(submissions, m.req.submissionId)
  <1>1. m \in Messages /\ m.req \in Requests
    BY IntakeAssumption DEF IInv, TypeOK, Messages
  <1>2. PICK a \in DOMAIN submissions :
            submissions[a] = ctx /\ ctx.submissionId = m.req.submissionId
    BY FindRow DEF IInv, TypeOK, OneRecordPerRequest, BeginReplay
  <1>3. /\ UNCHANGED <<tables, posts, replies, nextId, now>>
        /\ inbox' = inbox \ {m}
        /\ ctx.content = m.req.content
        /\ exec' = [who |-> "intake", pc |-> "business", replay |-> TRUE,
                    msg |-> m, ctx |-> ctx]
    BY DEF BeginReplay, ReconciliationContext
  <1>4. ctx \in SubmissionRows /\ ctx.businessId < nextId
    BY <1>2 DEF IInv, TypeOK, FreshIds
  <1>5. TypeOK'
    <2>1. exec' \in Executions
      BY <1>1, <1>3, <1>4 DEF Executions, IntakePCs
    <2>2. QED
      BY <2>1, <1>3 DEF IInv, TypeOK, tables
  <1>6. ExecInv'
    <2>1. Written'
      BY <1>2, <1>3 DEF Written, tables
    <2>2. Unwritten'
      BY <1>3 DEF Unwritten
    <2>3. QED
      BY <1>3, <1>4, <2>1, <2>2 DEF ExecInv
  <1>7. AcceptedIsComplete'
    BY <1>3, CompleteUnchanged DEF IInv, AcceptedIsComplete
  <1>8. nextId \in Nat
    BY DEF IInv, TypeOK
  <1>9. QED
    BY <1>3, <1>5, <1>6, <1>7, <1>8, TabsUnchanged DEF IInv

-----------------------------------------------------------------------------
(* Writing rows.                                                           *)

(* What the invariant says of the lock holder, in one place.               *)
LEMMA Holder ==
    ASSUME IInv, exec.who = "intake"
    PROVE  /\ exec \in Executions
           /\ exec.msg \in Messages /\ exec.msg.req \in Requests
           /\ exec.msg.req.submissionId \in SubmissionIds
           /\ exec.msg.req.content \in Contents
           /\ exec.ctx \in SubmissionRows
           /\ Written /\ Unwritten /\ exec.ctx.businessId < nextId
  BY DEF IInv, TypeOK, ExecInv, Executions, Nobody, Messages, Requests

(* Tabs only grow, so what was complete stays complete.                    *)
LEMMA CompleteGrows ==
    ASSUME NEW sid, NEW c, Complete(sid, c),
           \A i \in DOMAIN submissions :
               i \in DOMAIN submissions' /\ submissions'[i] = submissions[i],
           Has(leads, sid) => Has(leads, sid)',
           Has(contacts, sid) => Has(contacts, sid)',
           Has(deliveries, sid) => Has(deliveries, sid)',
           \A k : Queued(work, k) => Queued(work, k)'
    PROVE  Complete(sid, c)'
  <1>1. \E i \in DOMAIN submissions' :
           submissions'[i].submissionId = sid /\ submissions'[i].content = c
    BY DEF Complete
  <1>2. Has(IF c \in Exchanges THEN contacts ELSE leads, sid)'
    BY DEF Complete
  <1>3. QED
    BY <1>1, <1>2 DEF Complete

LEMMA InsertSubmissionStep ==
    ASSUME IInv, InsertSubmission
    PROVE  IInv'
  <1> DEFINE req == exec.msg.req
             sid == exec.msg.req.submissionId
  <1>1. exec.who = "intake" /\ exec.pc = "submission"
    BY DEF InsertSubmission, Holding
  <1>2. /\ submissions' = Append(submissions, exec.ctx)
        /\ exec' = [exec EXCEPT !.pc = "business"]
        /\ UNCHANGED <<leads, contacts, deliveries, work, inbox, posts, replies, nextId, now>>
    BY DEF InsertSubmission, Goto
  <1>3. /\ submissions \in Seq(SubmissionRows)
        /\ \A a \in DOMAIN submissions : submissions[a] \in SubmissionRows
        /\ nextId \in Nat
    BY DEF IInv, TypeOK
  <1>4. /\ exec \in Executions /\ exec.ctx \in SubmissionRows
        /\ Written /\ Unwritten /\ exec.ctx.businessId < nextId
    BY <1>1, Holder
  <1>5. /\ submissions' \in Seq(SubmissionRows)
        /\ DOMAIN submissions' = DOMAIN submissions \cup {Len(submissions) + 1}
        /\ \A i \in DOMAIN submissions : submissions'[i] = submissions[i]
        /\ submissions'[Len(submissions) + 1] = exec.ctx
        /\ Len(submissions) + 1 \notin DOMAIN submissions
    BY <1>2, <1>3, <1>4, AppendRows
  <1>6. exec' \in Executions
    BY <1>2, <1>4 DEF Executions, IntakePCs
  <1>7. TypeOK'
    BY <1>2, <1>5, <1>6 DEF IInv, TypeOK
  <1>8. OneRecordPerRequest'
    <2>1. Unique(submissions)'
      BY <1>1, <1>2, <1>3, <1>4, UniqueAppend
         DEF IInv, OneRecordPerRequest, Written, Unwritten
    <2>2. QED
      BY <1>2, <2>1 DEF IInv, OneRecordPerRequest, Unique
  <1>9. RepairsReproduceTheAudit'
    <2>1. \A a \in DOMAIN submissions :
             a \in DOMAIN submissions' /\ submissions'[a] = submissions[a]
      BY <1>5
    <2>2. \A i \in DOMAIN leads : \E a \in DOMAIN submissions' :
             leads[i] = Lead(RequestOf(submissions'[a]), submissions'[a])
      BY <2>1 DEF IInv, RepairsReproduceTheAudit
    <2>3. \A i \in DOMAIN contacts : \E a \in DOMAIN submissions' :
             contacts[i] = Contact(RequestOf(submissions'[a]), submissions'[a])
      BY <2>1 DEF IInv, RepairsReproduceTheAudit
    <2>4. \A i \in DOMAIN deliveries : \E a \in DOMAIN submissions' :
             deliveries[i] = Delivery(RequestOf(submissions'[a]), submissions'[a])
      BY <2>1 DEF IInv, RepairsReproduceTheAudit
    <2>5. QED
      BY <1>2, <2>2, <2>3, <2>4 DEF RepairsReproduceTheAudit
  <1>10. AcceptedIsComplete'
    BY <1>2, <1>5, CompleteGrows DEF IInv, AcceptedIsComplete
  <1>11. ExecInv'
    <2>1. exec'.pc = "business" /\ exec'.msg = exec.msg /\ exec'.ctx = exec.ctx
          /\ exec'.replay = exec.replay
      BY <1>2, <1>4 DEF Executions
    <2>2. Written'
      BY <1>4, <1>5, <2>1 DEF Written
    <2>3. Unwritten'
      BY <1>1, <1>2, <1>4, <2>1 DEF Unwritten, Has
    <2>4. QED
      BY <1>2, <1>4, <2>1, <2>2, <2>3 DEF ExecInv
  <1>12. FreshIds'
    <2>1. \A a \in DOMAIN submissions : submissions[a].businessId # exec.ctx.businessId
      BY <1>1, <1>4 DEF Unwritten
    <2>2. QED
      BY <1>2, <1>4, <1>5, <2>1 DEF IInv, FreshIds
  <1>13. QED
    BY <1>7, <1>8, <1>9, <1>10, <1>11, <1>12 DEF IInv

(* The row written about the request in hand has its audit row.            *)
LEMMA HolderIsAudited ==
    ASSUME IInv, exec.who = "intake", exec.pc # "submission"
    PROVE  \E a \in DOMAIN submissions :
               /\ submissions[a] = exec.ctx
               /\ Lead(exec.msg.req, exec.ctx) = Lead(RequestOf(submissions[a]), submissions[a])
               /\ Contact(exec.msg.req, exec.ctx)
                     = Contact(RequestOf(submissions[a]), submissions[a])
               /\ Delivery(exec.msg.req, exec.ctx)
                     = Delivery(RequestOf(submissions[a]), submissions[a])
  <1>1. PICK a \in DOMAIN submissions : submissions[a] = exec.ctx
    BY Holder DEF Written
  <1>2. /\ RequestOf(exec.ctx).submissionId = exec.msg.req.submissionId
        /\ RequestOf(exec.ctx).content = exec.msg.req.content
    BY Holder DEF Written, RequestOf
  <1>3. Lead(exec.msg.req, exec.ctx) = Lead(RequestOf(exec.ctx), exec.ctx)
    BY <1>2 DEF Lead
  <1>4. Contact(exec.msg.req, exec.ctx) = Contact(RequestOf(exec.ctx), exec.ctx)
    BY <1>2 DEF Contact
  <1>5. DigestStatusFor(exec.msg.req, exec.ctx) = DigestStatusFor(RequestOf(exec.ctx), exec.ctx)
    BY <1>2 DEF DigestStatusFor
  <1>6. Delivery(exec.msg.req, exec.ctx) = Delivery(RequestOf(exec.ctx), exec.ctx)
    BY <1>2, <1>5 DEF Delivery
  <1>7. QED
    BY <1>1, <1>3, <1>4, <1>6

LEMMA InsertLeadStep ==
    ASSUME IInv, InsertLead
    PROVE  IInv'
  <1> DEFINE req == exec.msg.req
             sid == exec.msg.req.submissionId
             row == Lead(exec.msg.req, exec.ctx)
  <1>1. exec.who = "intake" /\ exec.pc = "business" /\ req.content \notin Exchanges
    BY DEF InsertLead, Holding
  <1>2. /\ leads' = IF exec.replay /\ Has(leads, sid) THEN leads ELSE Append(leads, row)
        /\ exec' = [exec EXCEPT !.pc = "delivery"]
        /\ UNCHANGED <<submissions, contacts, deliveries, work, inbox, posts, replies, nextId, now>>
    BY DEF InsertLead, Goto
  <1>3. /\ leads \in Seq(LeadRows) /\ nextId \in Nat
        /\ exec \in Executions /\ exec.ctx \in SubmissionRows
        /\ Written /\ Unwritten /\ exec.ctx.businessId < nextId
    BY <1>1, Holder DEF IInv, TypeOK
  <1>4. row \in LeadRows /\ row.submissionId = sid
    BY <1>1, <1>3, Holder, IntakeAssumption DEF Lead, LeadRows, SubmissionRows
  <1>5. Has(leads, sid) \/ leads' = Append(leads, row)
    BY <1>2
  <1>6. ~ Has(leads, sid) \/ leads' = leads
    BY <1>1, <1>2, <1>3 DEF Unwritten, Executions
  <1>7. /\ leads' \in Seq(LeadRows)
        /\ Has(leads', sid)
        /\ \A s : Has(leads, s) => Has(leads', s)
        /\ Unique(leads')
        /\ \A i \in DOMAIN leads' :
               leads'[i] = row \/ (i \in DOMAIN leads /\ leads'[i] = leads[i])
    <2>1. Unique(leads)
      BY DEF IInv, OneRecordPerRequest
    <2>2. QED
      BY <1>3, <1>4, <1>5, <1>6, <2>1, InsertOnce
  <1>8. exec' \in Executions /\ exec'.pc = "delivery" /\ exec'.msg = exec.msg
        /\ exec'.ctx = exec.ctx /\ exec'.replay = exec.replay
    BY <1>2, <1>3 DEF Executions, IntakePCs
  <1>9. TypeOK'
    BY <1>2, <1>7, <1>8 DEF IInv, TypeOK
  <1>10. OneRecordPerRequest'
    <2>1. PICK a \in DOMAIN submissions : submissions[a] = exec.ctx
      BY <1>1, <1>3 DEF Written
    <2>2. \A j \in DOMAIN contacts : contacts[j].submissionId # sid
      <3> SUFFICES ASSUME NEW j \in DOMAIN contacts, contacts[j].submissionId = sid
                   PROVE  FALSE
        OBVIOUS
      <3>1. contacts[j] \in ContactRows
        BY DEF IInv, TypeOK
      <3>2. contacts[j].content \in Exchanges
        BY <3>1 DEF ContactRows
      <3>3. PICK b \in DOMAIN submissions :
               /\ contacts[j].submissionId = submissions[b].submissionId
               /\ contacts[j].content = submissions[b].content
        BY DEF IInv, RepairsReproduceTheAudit, Contact, RequestOf
      <3>4. submissions[b].submissionId = submissions[a].submissionId
            /\ submissions[a].content = req.content
        BY <1>3, <2>1, <3>3 DEF Written
      <3>5. a = b
        BY <3>4 DEF IInv, OneRecordPerRequest, Unique
      <3>6. QED
        BY <1>1, <3>2, <3>3, <3>4, <3>5
    <2>3. \A i \in DOMAIN leads', j \in DOMAIN contacts :
             leads'[i].submissionId # contacts[j].submissionId
      BY <1>4, <1>7, <2>2 DEF IInv, OneRecordPerRequest
    <2>4. QED
      BY <1>2, <1>7, <2>3 DEF IInv, OneRecordPerRequest, Unique
  <1>11. RepairsReproduceTheAudit'
    <2>1. \E a \in DOMAIN submissions :
             row = Lead(RequestOf(submissions[a]), submissions[a])
      BY <1>1, HolderIsAudited
    <2>2. \A i \in DOMAIN leads' : \E a \in DOMAIN submissions :
             leads'[i] = Lead(RequestOf(submissions[a]), submissions[a])
      BY <1>7, <2>1 DEF IInv, RepairsReproduceTheAudit
    <2>3. QED
      BY <1>2, <2>2 DEF IInv, RepairsReproduceTheAudit
  <1>12. AcceptedIsComplete'
    BY <1>2, <1>7, CompleteGrows DEF IInv, AcceptedIsComplete, Has, Queued
  <1>13. ExecInv'
    <2>1. exec'.msg.req.submissionId = sid /\ exec'.msg.req.content = req.content
      BY <1>8
    <2>2. Written'
      BY <1>1, <1>2, <1>3, <1>7, <1>8, <2>1 DEF Written, BusinessTab
    <2>3. Unwritten'
      BY <1>1, <1>2, <1>3, <1>8 DEF Unwritten, Has
    <2>4. QED
      BY <1>2, <1>3, <1>8, <2>2, <2>3 DEF ExecInv
  <1>14. FreshIds'
    BY <1>2 DEF IInv, FreshIds
  <1>15. QED
    BY <1>9, <1>10, <1>11, <1>12, <1>13, <1>14 DEF IInv

LEMMA InsertContactStep ==
    ASSUME IInv, InsertContact
    PROVE  IInv'
  <1> DEFINE req == exec.msg.req
             sid == exec.msg.req.submissionId
             row == Contact(exec.msg.req, exec.ctx)
  <1>1. exec.who = "intake" /\ exec.pc = "business" /\ req.content \in Exchanges
    BY DEF InsertContact, Holding
  <1>2. /\ contacts' = IF exec.replay /\ Has(contacts, sid) THEN contacts ELSE Append(contacts, row)
        /\ exec' = [exec EXCEPT !.pc = "delivery"]
        /\ UNCHANGED <<submissions, leads, deliveries, work, inbox, posts, replies, nextId, now>>
    BY DEF InsertContact, Goto
  <1>3. /\ contacts \in Seq(ContactRows) /\ nextId \in Nat
        /\ exec \in Executions /\ exec.ctx \in SubmissionRows
        /\ Written /\ Unwritten /\ exec.ctx.businessId < nextId
    BY <1>1, Holder DEF IInv, TypeOK
  <1>4. row \in ContactRows /\ row.submissionId = sid
    BY <1>1, <1>3, Holder, IntakeAssumption DEF Contact, ContactRows, SubmissionRows
  <1>5. Has(contacts, sid) \/ contacts' = Append(contacts, row)
    BY <1>2
  <1>6. ~ Has(contacts, sid) \/ contacts' = contacts
    BY <1>1, <1>2, <1>3 DEF Unwritten, Executions
  <1>7. /\ contacts' \in Seq(ContactRows)
        /\ Has(contacts', sid)
        /\ \A s : Has(contacts, s) => Has(contacts', s)
        /\ Unique(contacts')
        /\ \A i \in DOMAIN contacts' :
               contacts'[i] = row \/ (i \in DOMAIN contacts /\ contacts'[i] = contacts[i])
    <2>1. Unique(contacts)
      BY DEF IInv, OneRecordPerRequest
    <2>2. QED
      BY <1>3, <1>4, <1>5, <1>6, <2>1, InsertOnce
  <1>8. exec' \in Executions /\ exec'.pc = "delivery" /\ exec'.msg = exec.msg
        /\ exec'.ctx = exec.ctx /\ exec'.replay = exec.replay
    BY <1>2, <1>3 DEF Executions, IntakePCs
  <1>9. TypeOK'
    BY <1>2, <1>7, <1>8 DEF IInv, TypeOK
  <1>10. OneRecordPerRequest'
    <2>1. PICK a \in DOMAIN submissions : submissions[a] = exec.ctx
      BY <1>1, <1>3 DEF Written
    <2>2. \A j \in DOMAIN leads : leads[j].submissionId # sid
      <3> SUFFICES ASSUME NEW j \in DOMAIN leads, leads[j].submissionId = sid
                   PROVE  FALSE
        OBVIOUS
      <3>1. leads[j] \in LeadRows
        BY DEF IInv, TypeOK
      <3>2. leads[j].content \notin Exchanges
        BY <3>1 DEF LeadRows
      <3>3. PICK b \in DOMAIN submissions :
               /\ leads[j].submissionId = submissions[b].submissionId
               /\ leads[j].content = submissions[b].content
        BY DEF IInv, RepairsReproduceTheAudit, Lead, RequestOf
      <3>4. submissions[b].submissionId = submissions[a].submissionId
            /\ submissions[a].content = req.content
        BY <1>3, <2>1, <3>3 DEF Written
      <3>5. a = b
        BY <3>4 DEF IInv, OneRecordPerRequest, Unique
      <3>6. QED
        BY <1>1, <3>2, <3>3, <3>4, <3>5
    <2>3. \A i \in DOMAIN contacts', j \in DOMAIN leads :
             contacts'[i].submissionId # leads[j].submissionId
      BY <1>4, <1>7, <2>2 DEF IInv, OneRecordPerRequest
    <2>4. QED
      BY <1>2, <1>7, <2>3 DEF IInv, OneRecordPerRequest, Unique
  <1>11. RepairsReproduceTheAudit'
    <2>1. \E a \in DOMAIN submissions :
             row = Contact(RequestOf(submissions[a]), submissions[a])
      BY <1>1, HolderIsAudited
    <2>2. \A i \in DOMAIN contacts' : \E a \in DOMAIN submissions :
             contacts'[i] = Contact(RequestOf(submissions[a]), submissions[a])
      BY <1>7, <2>1 DEF IInv, RepairsReproduceTheAudit
    <2>3. QED
      BY <1>2, <2>2 DEF IInv, RepairsReproduceTheAudit
  <1>12. AcceptedIsComplete'
    BY <1>2, <1>7, CompleteGrows DEF IInv, AcceptedIsComplete, Has, Queued
  <1>13. ExecInv'
    <2>1. exec'.msg.req.submissionId = sid /\ exec'.msg.req.content = req.content
      BY <1>8
    <2>2. Written'
      BY <1>1, <1>2, <1>3, <1>7, <1>8, <2>1 DEF Written, BusinessTab
    <2>3. Unwritten'
      BY <1>1, <1>2, <1>3, <1>8 DEF Unwritten, Has
    <2>4. QED
      BY <1>2, <1>3, <1>8, <2>2, <2>3 DEF ExecInv
  <1>14. FreshIds'
    BY <1>2 DEF IInv, FreshIds
  <1>15. QED
    BY <1>9, <1>10, <1>11, <1>12, <1>13, <1>14 DEF IInv

LEMMA InsertDeliveryStep ==
    ASSUME IInv, InsertDelivery
    PROVE  IInv'
  <1> DEFINE req == exec.msg.req
             sid == exec.msg.req.submissionId
             row == Delivery(exec.msg.req, exec.ctx)
  <1>1. exec.who = "intake" /\ exec.pc = "delivery"
    BY DEF InsertDelivery, Holding
  <1>2. /\ deliveries' = IF exec.replay /\ Has(deliveries, sid)
                         THEN deliveries ELSE Append(deliveries, row)
        /\ exec' = [exec EXCEPT !.pc = "ack"]
        /\ UNCHANGED <<submissions, leads, contacts, work, inbox, posts, replies, nextId, now>>
    BY DEF InsertDelivery, Goto
  <1>3. /\ deliveries \in Seq(DeliveryRows) /\ nextId \in Nat
        /\ exec \in Executions /\ exec.ctx \in SubmissionRows
        /\ Written /\ Unwritten /\ exec.ctx.businessId < nextId
        /\ sid \in SubmissionIds
    BY <1>1, Holder DEF IInv, TypeOK
  <1>4. row \in DeliveryRows /\ row.submissionId = sid
    <2>1. DigestStatusFor(req, exec.ctx)
             \in {"not_applicable", "excluded_spam", "pending_digest"}
      BY DEF DigestStatusFor
    <2>2. QED
      BY <1>3, <2>1 DEF Delivery, DeliveryRows
  <1>5. Has(deliveries, sid) \/ deliveries' = Append(deliveries, row)
    BY <1>2
  <1>6. ~ Has(deliveries, sid) \/ deliveries' = deliveries
    BY <1>1, <1>2, <1>3 DEF Unwritten, Executions
  <1>7. /\ deliveries' \in Seq(DeliveryRows)
        /\ Has(deliveries', sid)
        /\ \A s : Has(deliveries, s) => Has(deliveries', s)
        /\ Unique(deliveries')
        /\ \A i \in DOMAIN deliveries' :
               \/ deliveries'[i] = row
               \/ i \in DOMAIN deliveries /\ deliveries'[i] = deliveries[i]
    <2>1. Unique(deliveries)
      BY DEF IInv, OneRecordPerRequest
    <2>2. QED
      BY <1>3, <1>4, <1>5, <1>6, <2>1, InsertOnce
  <1>8. exec' \in Executions /\ exec'.pc = "ack" /\ exec'.msg = exec.msg
        /\ exec'.ctx = exec.ctx /\ exec'.replay = exec.replay
    BY <1>2, <1>3 DEF Executions, IntakePCs
  <1>9. TypeOK'
    BY <1>2, <1>7, <1>8 DEF IInv, TypeOK
  <1>10. OneRecordPerRequest'
    BY <1>2, <1>7 DEF IInv, OneRecordPerRequest, Unique
  <1>11. RepairsReproduceTheAudit'
    <2>1. \E a \in DOMAIN submissions :
             row = Delivery(RequestOf(submissions[a]), submissions[a])
      BY <1>1, HolderIsAudited
    <2>2. \A i \in DOMAIN deliveries' : \E a \in DOMAIN submissions :
             deliveries'[i] = Delivery(RequestOf(submissions[a]), submissions[a])
      BY <1>7, <2>1 DEF IInv, RepairsReproduceTheAudit
    <2>3. QED
      BY <1>2, <2>2 DEF IInv, RepairsReproduceTheAudit
  <1>12. AcceptedIsComplete'
    BY <1>2, <1>7, CompleteGrows DEF IInv, AcceptedIsComplete, Has, Queued
  <1>13. ExecInv'
    <2>1. exec'.msg.req.submissionId = sid /\ exec'.msg.req.content = req.content
      BY <1>8
    <2>2. Written'
      BY <1>1, <1>2, <1>3, <1>7, <1>8, <2>1 DEF Written, BusinessTab
    <2>3. Unwritten'
      BY <1>1, <1>2, <1>3, <1>8 DEF Unwritten, Has
    <2>4. QED
      BY <1>2, <1>3, <1>8, <2>2, <2>3 DEF ExecInv
  <1>14. FreshIds'
    BY <1>2 DEF IInv, FreshIds
  <1>15. QED
    BY <1>9, <1>10, <1>11, <1>12, <1>13, <1>14 DEF IInv

(* The two enqueues differ in their key and in what comes next.            *)
LEMMA EnqueueStep ==
    ASSUME IInv, NEW k \in WorkKeys, NEW pc \in {"notify", "answer"},
           exec.who = "intake",
           work' = Enqueue(work, k),
           Goto(pc),
           UNCHANGED <<submissions, leads, contacts, deliveries,
                       inbox, posts, replies, nextId, now>>,
           exec.pc \in {"ack", "notify"},
           LET req == exec.msg.req
               ackKey == Key(AckKind(KindOf(req.content)), req.submissionId)
           IN  /\ Queued(work, ackKey) \/ k = ackKey
               /\ pc = "answer" /\ req.content \notin Exchanges
                     => k = Key("notify_partners", req.submissionId)
    PROVE  IInv'
  <1> DEFINE req == exec.msg.req
             ackKey == Key(AckKind(KindOf(req.content)), req.submissionId)
  <1>1. /\ exec \in Executions /\ nextId \in Nat
        /\ Written /\ Unwritten /\ exec.ctx.businessId < nextId
    BY Holder DEF IInv, TypeOK
  <1>2. exec' \in Executions /\ exec'.pc = pc /\ exec'.msg = exec.msg
        /\ exec'.ctx = exec.ctx /\ exec'.replay = exec.replay
    BY <1>1 DEF Executions, IntakePCs, Goto
  <1>3. /\ work' \in Seq({WorkItem(q) : q \in WorkKeys})
        /\ Queued(work', k)
        /\ \A q : Queued(work, q) => Queued(work', q)
        /\ \A i, j \in DOMAIN work' : work'[i].key = work'[j].key => i = j
    <2>1. work \in Seq(FreshItems(WorkKeys))
      BY DEF IInv, TypeOK, FreshItems
    <2>2. \A i, j \in DOMAIN work : work[i].key = work[j].key => i = j
      BY DEF IInv, OneRecordPerRequest
    <2>3. /\ Enqueue(work, k) \in Seq(FreshItems(WorkKeys))
          /\ Queued(Enqueue(work, k), k)
          /\ \A q : Queued(work, q) => Queued(Enqueue(work, k), q)
          /\ \A i, j \in DOMAIN Enqueue(work, k) :
                Enqueue(work, k)[i].key = Enqueue(work, k)[j].key => i = j
      BY <2>1, <2>2, EnqueueItems
    <2>4. QED
      BY <2>3 DEF FreshItems
  <1>4. TypeOK'
    BY <1>2, <1>3 DEF IInv, TypeOK
  <1>5. OneRecordPerRequest'
    BY <1>3 DEF IInv, OneRecordPerRequest, Unique
  <1>6. RepairsReproduceTheAudit'
    BY DEF IInv, RepairsReproduceTheAudit
  <1>7. AcceptedIsComplete'
    BY <1>3, CompleteGrows DEF IInv, AcceptedIsComplete, Has, Queued
  <1>8. Written'
    <2>1. exec'.msg.req = req
      BY <1>2
    <2>2. Has(IF req.content \in Exchanges THEN contacts ELSE leads, req.submissionId)
          /\ Has(deliveries, req.submissionId)
      BY <1>1 DEF Written, BusinessTab
    <2>3. Queued(work', ackKey)
      BY <1>3
    <2>4. pc = "answer" /\ req.content \notin Exchanges
             => Queued(work', Key("notify_partners", req.submissionId))
      BY <1>3
    <2>5. QED
      BY <1>1, <1>2, <2>1, <2>2, <2>3, <2>4 DEF Written, BusinessTab
  <1>9. Unwritten'
    BY <1>2 DEF Unwritten
  <1>10. ExecInv'
    BY <1>1, <1>2, <1>8, <1>9 DEF ExecInv
  <1>11. FreshIds'
    BY DEF IInv, FreshIds
  <1>12. QED
    BY <1>4, <1>5, <1>6, <1>7, <1>10, <1>11 DEF IInv

LEMMA EnqueueAckStep ==
    ASSUME IInv, EnqueueAck
    PROVE  IInv'
  <1> DEFINE k == Key(AckKind(KindOf(exec.msg.req.content)), exec.msg.req.submissionId)
             pc == IF exec.msg.req.content \in Exchanges THEN "answer" ELSE "notify"
  <1>1. exec.who = "intake" /\ exec.pc = "ack"
    BY DEF EnqueueAck, Holding
  <1>2. k \in WorkKeys
    BY <1>1, Holder DEF WorkKeys, Key, AckKind, KindOf
  <1>3. pc \in {"notify", "answer"} /\ (pc = "answer" => exec.msg.req.content \in Exchanges)
    OBVIOUS
  <1>4. /\ work' = Enqueue(work, k) /\ Goto(pc)
        /\ UNCHANGED <<submissions, leads, contacts, deliveries,
                       inbox, posts, replies, nextId, now>>
    BY DEF EnqueueAck
  <1> HIDE DEF pc
  <1>5. QED
    BY <1>1, <1>2, <1>3, <1>4, EnqueueStep

LEMMA EnqueueNotifyStep ==
    ASSUME IInv, EnqueueNotify
    PROVE  IInv'
  <1> DEFINE k == Key("notify_partners", exec.msg.req.submissionId)
  <1>1. exec.who = "intake" /\ exec.pc = "notify"
    BY DEF EnqueueNotify, Holding
  <1>2. k \in WorkKeys
    BY <1>1, Holder DEF WorkKeys, Key
  <1>3. Queued(work, Key(AckKind(KindOf(exec.msg.req.content)), exec.msg.req.submissionId))
    BY <1>1, Holder DEF Written
  <1>4. /\ work' = Enqueue(work, k) /\ Goto("answer")
        /\ UNCHANGED <<submissions, leads, contacts, deliveries,
                       inbox, posts, replies, nextId, now>>
    BY DEF EnqueueNotify
  <1>5. QED
    BY <1>1, <1>2, <1>3, <1>4, EnqueueStep

-----------------------------------------------------------------------------
(* Answering.                                                              *)

(* Two Leads never share an id: each took it from its own audit row.       *)
LEMMA LeadIdsUnique ==
    ASSUME IInv, NEW i \in DOMAIN leads, NEW j \in DOMAIN leads,
           leads[i].leadId = leads[j].leadId
    PROVE  i = j
  <1>1. PICK a \in DOMAIN submissions :
            /\ leads[i].leadId = submissions[a].businessId
            /\ leads[i].submissionId = submissions[a].submissionId
    BY DEF IInv, RepairsReproduceTheAudit, Lead, RequestOf
  <1>2. PICK b \in DOMAIN submissions :
            /\ leads[j].leadId = submissions[b].businessId
            /\ leads[j].submissionId = submissions[b].submissionId
    BY DEF IInv, RepairsReproduceTheAudit, Lead, RequestOf
  <1>3. a = b
    BY <1>1, <1>2 DEF IInv, FreshIds
  <1>4. QED
    BY <1>1, <1>2, <1>3 DEF IInv, OneRecordPerRequest, Unique

(* findLeadById returns a row with the id whenever there is one.           *)
LEMMA FindLeadRow ==
    ASSUME IInv, NEW id, HasLead(id)
    PROVE  \E i \in DOMAIN leads : FindLead(id) = leads[i] /\ leads[i].leadId = id
  <1> DEFINE P(i) == leads[i].leadId = id /\ \A j \in 1 .. i - 1 : leads[j].leadId # id
  <1>1. PICK i \in DOMAIN leads : leads[i].leadId = id
    BY DEF HasLead
  <1>2. \A j \in 1 .. i - 1 : j \in DOMAIN leads /\ j # i
    BY <1>1 DEF IInv, TypeOK
  <1>3. \A j \in 1 .. i - 1 : leads[j].leadId # id
    BY <1>1, <1>2, LeadIdsUnique
  <1>4. P(i)
    BY <1>1, <1>3
  <1> HIDE DEF P
  <1>5. (CHOOSE x \in DOMAIN leads : P(x)) \in DOMAIN leads
        /\ P(CHOOSE x \in DOMAIN leads : P(x))
    BY <1>4
  <1>6. FindLead(id) = leads[CHOOSE x \in DOMAIN leads : P(x)]
    BY DEF FindLead, P
  <1>7. QED
    BY <1>5, <1>6 DEF P

LEMMA AnswerStep ==
    ASSUME IInv, Answer
    PROVE  IInv'
  <1> DEFINE req == exec.msg.req
             ans == Acceptance(exec.msg, exec.ctx)
  <1>1. exec.who = "intake" /\ exec.pc = "answer"
    BY DEF Answer, Holding
  <1>2. /\ UNCHANGED <<tables, inbox, posts, nextId, now>>
        /\ exec' = Nobody
        /\ replies' = replies \cup {ans}
    BY DEF Answer
  <1>3. /\ exec \in Executions /\ exec.ctx \in SubmissionRows
        /\ exec.msg \in Messages /\ Written /\ nextId \in Nat
    BY <1>1, Holder DEF IInv, TypeOK
  <1>4. ans \in Answers
    <2> DEFINE id == exec.ctx.businessId
    <2>1. HasLead(id) => FindLead(id) \in LeadRows
      BY FindLeadRow DEF IInv, TypeOK
    <2>2. (IF HasLead(id) THEN FindLead(id).receivedAt ELSE 0) \in Nat
      BY <2>1 DEF LeadRows
    <2>3. (HasLead(id) /\ FindLead(id).bookingEligible) \in BOOLEAN
      BY <2>1 DEF LeadRows
    <2>4. id \in Nat /\ exec.msg.post \in 1 .. MaxPosts /\ exec.msg.req \in Requests
      BY <1>3 DEF SubmissionRows, Messages
    <2>5. QED
      BY <2>2, <2>3, <2>4 DEF Acceptance, Answers
  <1>5. TypeOK'
    BY <1>2, <1>4 DEF IInv, TypeOK, tables
  <1>6. Complete(req.submissionId, req.content)
    <2>1. \E a \in DOMAIN submissions :
             /\ submissions[a].submissionId = req.submissionId
             /\ submissions[a].content = req.content
      BY <1>1, <1>3 DEF Written
    <2>2. QED
      BY <1>1, <1>3, <2>1 DEF Written, BusinessTab, Complete
  <1>7. AcceptedIsComplete'
    <2> SUFFICES ASSUME NEW r \in replies', r.code = "OK"
                 PROVE  Complete(r.req.submissionId, r.req.content)'
      BY DEF AcceptedIsComplete
    <2>1. CASE r \in replies
      BY <1>2, <2>1, CompleteUnchanged DEF IInv, AcceptedIsComplete
    <2>2. CASE r = ans
      <3>1. r.req = req
        BY <2>2 DEF Acceptance
      <3>2. QED
        BY <1>2, <1>6, <3>1, CompleteUnchanged
    <2>3. QED
      BY <1>2, <2>1, <2>2
  <1>8. QED
    BY <1>2, <1>3, <1>5, <1>7, TabsUnchanged, NobodyRuns DEF IInv

-----------------------------------------------------------------------------
(* The theorems.                                                           *)

LEMMA InitIInv == Init => IInv
  <1> SUFFICES ASSUME Init PROVE IInv
    OBVIOUS
  <1>1. TypeOK
    BY IntakeAssumption DEF Init, TypeOK
  <1>2. OneRecordPerRequest
    BY DEF Init, OneRecordPerRequest, Unique
  <1>3. RepairsReproduceTheAudit
    BY DEF Init, RepairsReproduceTheAudit
  <1>4. AcceptedIsComplete /\ ExecInv /\ FreshIds
    BY DEF Init, AcceptedIsComplete, ExecInv, FreshIds, Nobody
  <1>5. QED
    BY <1>1, <1>2, <1>3, <1>4 DEF IInv

LEMMA StutterStep ==
    ASSUME IInv, UNCHANGED vars
    PROVE  IInv'
  <1>1. UNCHANGED <<tables, exec, inbox, posts, replies, nextId, now>> /\ nextId \in Nat
    BY DEF vars, IInv, TypeOK
  <1>2. TypeOK'
    BY <1>1 DEF IInv, TypeOK, tables
  <1>3. AcceptedIsComplete'
    BY <1>1, CompleteUnchanged DEF IInv, AcceptedIsComplete
  <1>4. QED
    BY <1>1, <1>2, <1>3, TabsUnchanged, ExecUnchanged DEF IInv

LEMMA NextIInv == IInv /\ [Next]_vars => IInv'
  <1> SUFFICES ASSUME IInv, [Next]_vars PROVE IInv'
    OBVIOUS
  <1>1. ASSUME NEW req \in Requests, Post(req) PROVE IInv'
    BY <1>1, PostStep
  <1>2. CASE Tick
    BY <1>2, TickStep
  <1>3. ASSUME NEW m \in inbox, LockUnavailable(m) \/ RefuseConflict(m) PROVE IInv'
    BY <1>3, RefuseStep
  <1>4. ASSUME NEW m \in inbox, BeginNew(m) PROVE IInv'
    BY <1>4, BeginNewStep
  <1>5. ASSUME NEW m \in inbox, BeginReplay(m) PROVE IInv'
    BY <1>5, BeginReplayStep
  <1>6. CASE InsertSubmission
    BY <1>6, InsertSubmissionStep
  <1>7. CASE InsertLead
    BY <1>7, InsertLeadStep
  <1>8. CASE InsertContact
    BY <1>8, InsertContactStep
  <1>9. CASE InsertDelivery
    BY <1>9, InsertDeliveryStep
  <1>10. CASE EnqueueAck
    BY <1>10, EnqueueAckStep
  <1>11. CASE EnqueueNotify
    BY <1>11, EnqueueNotifyStep
  <1>12. CASE Answer
    BY <1>12, AnswerStep
  <1>13. CASE Throw \/ Killed
    BY <1>13, DieStep
  <1>14. CASE UNCHANGED vars
    BY <1>14, StutterStep
  <1>15. QED
    BY <1>1, <1>2, <1>3, <1>4, <1>5, <1>6, <1>7, <1>8, <1>9, <1>10, <1>11,
       <1>12, <1>13, <1>14 DEF Next, Process

(* The inductive invariant holds in every reachable state of the intake.   *)
THEOREM InductiveInvariant == Spec => []IInv
  BY InitIInv, NextIInv, PTL DEF Spec

(* Every tab, answer and execution of the intake keeps its shape, for any  *)
(* number of submissions, posts and deaths.                                *)
THEOREM IntakeTypeCorrect == Spec => []TypeOK
  <1>1. IInv => TypeOK
    BY DEF IInv
  <1>2. QED
    BY <1>1, InductiveInvariant, PTL

(* Whatever dies and whatever is sent again, a request never has two rows  *)
(* in a tab, two work items of one kind, or a Lead beside a Contact.       *)
THEOREM IntakeOneRecord == Spec => []OneRecordPerRequest
  <1>1. IInv => OneRecordPerRequest
    BY DEF IInv
  <1>2. QED
    BY <1>1, InductiveInvariant, PTL

(* A row written by a repair says what the row the original execution      *)
(* would have written says.                                                *)
THEOREM IntakeRepairsFaithful == Spec => []RepairsReproduceTheAudit
  <1>1. IInv => RepairsReproduceTheAudit
    BY DEF IInv
  <1>2. QED
    BY <1>1, InductiveInvariant, PTL

(* A visitor told "stored" has the record, the delivery row and the work   *)
(* in the sheet.                                                           *)
THEOREM IntakeAcceptedComplete == Spec => []AcceptedIsComplete
  <1>1. IInv => AcceptedIsComplete
    BY DEF IInv
  <1>2. QED
    BY <1>1, InductiveInvariant, PTL

-----------------------------------------------------------------------------
(* The intake implements AtomicIntake.  A request enters the ledger at the *)
(* step that writes its last missing row, whichever execution takes it;    *)
(* from then on its entry is the same, because the first row about a       *)
(* submission stays the first.                                             *)

LedgerEntries == [content : Contents, businessId : Nat, receivedAt : Nat,
                  bookingEligible : BOOLEAN]
Ledger == [s \in SubmissionIds |-> Entry(s)]
Told == {<<r.req.submissionId,
           [content |-> r.req.content, businessId |-> r.businessId,
            receivedAt |-> r.receivedAt, bookingEligible |-> r.bookingEligible]>> :
         r \in {q \in replies : q.code = "OK"}}

(* A tab, or the work, after a step that wrote about one submission.       *)
Adds(tab, after, sid) ==
    /\ \A s : Has(tab, s) => Has(after, s) /\ Find(after, s) = Find(tab, s)
    /\ \A s : s # sid /\ Has(after, s) => Has(tab, s)

AddsWork(w, after, sid) ==
    /\ \A k : Queued(w, k) => Queued(after, k)
    /\ \A k : k.subject # sid /\ Queued(after, k) => Queued(w, k)

LEMMA AppendAdds ==
    ASSUME NEW S, NEW tab \in Seq(S), NEW row \in S, Unique(tab),
           NEW after \in {tab, Append(tab, row)}
    PROVE  Adds(tab, after, row.submissionId)
  <1>1. CASE after = tab
    BY <1>1 DEF Adds
  <1>2. CASE after = Append(tab, row)
    <2>1. \A s : Has(after, s) <=> Has(tab, s) \/ row.submissionId = s
      BY <1>2, HasAppend
    <2>2. ASSUME NEW s, Has(tab, s)
          PROVE  Find(after, s) = Find(tab, s)
      <3> DEFINE First(t, i) == t[i].submissionId = s
                                /\ \A j \in 1 .. i - 1 : t[j].submissionId # s
      <3>1. PICK a \in DOMAIN tab : tab[a].submissionId = s
        BY <2>2 DEF Has
      <3>2. /\ DOMAIN after = DOMAIN tab \cup {Len(tab) + 1}
            /\ \A i \in DOMAIN tab : after[i] = tab[i]
            /\ \A i \in DOMAIN tab : i \in 1 .. Len(tab)
        BY <1>2, AppendRows
      <3>3. \A j \in 1 .. a - 1 : j \in DOMAIN tab /\ j # a
        BY <3>1
      <3>4. First(tab, a) /\ First(after, a)
        BY <3>1, <3>2, <3>3 DEF Unique
      <3>5. \A i \in DOMAIN tab : First(tab, i) => i = a
        BY <3>1 DEF Unique
      <3>6. \A i \in DOMAIN after : First(after, i) => i = a
        <4> SUFFICES ASSUME NEW i \in DOMAIN after, First(after, i)
                     PROVE  i = a
          OBVIOUS
        <4>1. CASE i \in DOMAIN tab
          BY <3>1, <3>2, <4>1 DEF Unique
        <4>2. CASE i = Len(tab) + 1
          <5>1. a \in 1 .. i - 1
            BY <3>1, <4>2
          <5>2. after[a].submissionId = s
            BY <3>1, <3>2
          <5>3. QED
            BY <5>1, <5>2
        <4>3. QED
          BY <3>2, <4>1, <4>2
      <3>7. a \in DOMAIN after
        BY <3>2
      <3> HIDE DEF First
      <3>8. /\ (CHOOSE i \in DOMAIN tab : First(tab, i)) = a
            /\ (CHOOSE i \in DOMAIN after : First(after, i)) = a
        BY <3>4, <3>5, <3>6, <3>7
      <3>9. FirstRow(tab, s) = a /\ FirstRow(after, s) = a
        BY <3>8 DEF FirstRow, First
      <3>10. QED
        BY <3>2, <3>9 DEF Find
    <2>3. QED
      BY <2>1, <2>2 DEF Adds
  <1>3. QED
    BY <1>1, <1>2

LEMMA EnqueueAdds ==
    ASSUME NEW w \in Seq(FreshItems(WorkKeys)), NEW kind, NEW sid
    PROVE  AddsWork(w, Enqueue(w, Key(kind, sid)), sid)
  <1> DEFINE k == Key(kind, sid)
  <1>1. CASE Queued(w, k)
    BY <1>1 DEF Enqueue, AddsWork
  <1>2. CASE ~ Queued(w, k)
    <2>1. Enqueue(w, k) = Append(w, WorkItem(k)) /\ WorkItem(k).key = k /\ k.subject = sid
      BY <1>2 DEF Enqueue, WorkItem, Key
    <2>2. /\ DOMAIN Append(w, WorkItem(k)) = DOMAIN w \cup {Len(w) + 1}
          /\ \A i \in DOMAIN w : Append(w, WorkItem(k))[i] = w[i]
          /\ Append(w, WorkItem(k))[Len(w) + 1] = WorkItem(k)
      OBVIOUS
    <2>3. QED
      BY <2>1, <2>2 DEF AddsWork, Queued
  <1>3. QED
    BY <1>1, <1>2

(* An entry is one of the ledger's, now and after any step.                *)
EntriesTyped == \A s : Entry(s) = {} \/ \E e \in LedgerEntries : Entry(s) = {e}

LEMMA EntryTyped == IInv => EntriesTyped
  <1> SUFFICES ASSUME IInv, NEW s, Entry(s) # {}
               PROVE  \E e \in LedgerEntries : Entry(s) = {e}
    BY DEF EntriesTyped
  <1> DEFINE a == Find(submissions, s)
             received == IF a.content \in Exchanges THEN 0 ELSE Find(leads, s).receivedAt
             eligible == a.content \notin Exchanges /\ Find(leads, s).bookingEligible
             e == [content |-> a.content, businessId |-> a.businessId,
                   receivedAt |-> received, bookingEligible |-> eligible]
  <1>1. Has(submissions, s) /\ Complete(s, a.content) /\ Entry(s) = {e}
    BY DEF Entry
  <1>2. a \in SubmissionRows
    BY <1>1, FindRow DEF IInv, TypeOK, OneRecordPerRequest
  <1>3. a.content \notin Exchanges => Find(leads, s) \in LeadRows
    <2>1. a.content \notin Exchanges => Has(leads, s)
      BY <1>1 DEF Complete
    <2>2. QED
      BY <2>1, FindRow DEF IInv, TypeOK, OneRecordPerRequest
  <1>4. received \in Nat /\ eligible \in BOOLEAN
    BY <1>3 DEF LeadRows
  <1> HIDE DEF received, eligible
  <1>5. e \in LedgerEntries
    BY <1>2, <1>4 DEF SubmissionRows, LedgerEntries
  <1>6. QED
    BY <1>1, <1>5

(* A write about one submission makes its entry, once, and no other.       *)
LEMMA EntryKept ==
    ASSUME IInv, IInv', NEW sid,
           Adds(submissions, submissions', sid), Adds(leads, leads', sid),
           Adds(contacts, contacts', sid), Adds(deliveries, deliveries', sid),
           AddsWork(work, work', sid)
    PROVE  \A s : s # sid \/ Entry(s) # {} => Entry(s)' = Entry(s)
  <1> SUFFICES ASSUME NEW s, s # sid \/ Entry(s) # {}
               PROVE  Entry(s)' = Entry(s)
    OBVIOUS
  <1> DEFINE c == Find(submissions, s).content
             Rows == /\ Has(IF c \in Exchanges THEN contacts ELSE leads, s)
                     /\ Has(deliveries, s)
                     /\ Queued(work, Key(AckKind(KindOf(c)), s))
                     /\ c \notin Exchanges => Queued(work, Key("notify_partners", s))
             RowsAfter == /\ Has(IF c \in Exchanges THEN contacts' ELSE leads', s)
                          /\ Has(deliveries', s)
                          /\ Queued(work', Key(AckKind(KindOf(c)), s))
                          /\ c \notin Exchanges => Queued(work', Key("notify_partners", s))
  <1>1. CASE ~ Has(submissions, s)
    BY <1>1 DEF Entry, Adds
  <1>2. CASE Has(submissions, s)
    <2>1. Has(submissions', s) /\ Find(submissions', s) = Find(submissions, s)
      BY <1>2 DEF Adds
    <2>2. Complete(s, c) <=> Rows
      BY <1>2, FindRow DEF IInv, TypeOK, OneRecordPerRequest, Complete
    <2>3. \E i \in DOMAIN submissions' :
             submissions'[i].submissionId = s /\ submissions'[i].content = c
      <3>1. submissions' \in Seq(SubmissionRows) /\ Unique(submissions')
        BY DEF IInv, TypeOK, OneRecordPerRequest, Unique
      <3>2. QED
        BY <2>1, <3>1, FindRow
    <2>4. Complete(s, c)' <=> RowsAfter
      BY <2>1, <2>3 DEF Complete
    <2>5. Rows => RowsAfter
      BY DEF Adds, AddsWork
    <2>6. \A kind : Key(kind, s).subject = s
      BY DEF Key
    <2>7. s # sid /\ RowsAfter => Rows
      BY <2>6 DEF Adds, AddsWork
    <2>8. Rows /\ c \notin Exchanges => Find(leads', s) = Find(leads, s)
      BY DEF Adds
    <2>9. Entry(s) # {} => Rows
      BY <2>2 DEF Entry
    <2>10. Complete(s, c)' <=> Complete(s, c)
      BY <2>2, <2>4, <2>5, <2>7, <2>9
    <2> HIDE DEF Rows, RowsAfter
    <2>11. QED
      BY <1>2, <2>1, <2>2, <2>8, <2>10 DEF Entry
  <1>3. QED
    BY <1>1, <1>2

LEMMA EntryTypedNext == IInv' => EntriesTyped'
  BY EntryTyped, PTL

(* A step that tells no one anything new, and writes about one submission, *)
(* enters that submission in the ledger or does nothing to it.             *)
LEMMA WriteRefines ==
    ASSUME IInv, IInv', NEW sid \in SubmissionIds, UNCHANGED Told,
           \A s : s # sid \/ Entry(s) # {} => Entry(s)' = Entry(s)
    PROVE  UNCHANGED <<Ledger, Told>> \/ Atomic!Commit(sid)
  <1>1. CASE Entry(sid)' = Entry(sid)
    BY <1>1 DEF Ledger
  <1>2. CASE Entry(sid)' # Entry(sid)
    <2>1. PICK e \in LedgerEntries : Entry(sid)' = {e}
      BY <1>2, EntryTypedNext DEF EntriesTyped
    <2>2. Entry(sid) = {}
      BY <1>2
    <2>3. Ledger' = [Ledger EXCEPT ![sid] = {e}] /\ Ledger[sid] = {} /\ e \in Ledger'[sid]
      BY <2>1, <2>2 DEF Ledger
    <2>4. QED
      BY <2>3 DEF Atomic!Commit, Ledger, Told, LedgerEntries
  <1>3. QED
    BY <1>1, <1>2

(* A step that writes no row and accepts nothing changes nothing.          *)
LEMMA RefusalsRefine ==
    ASSUME UNCHANGED tables, {q \in replies' : q.code = "OK"} = {q \in replies : q.code = "OK"}
    PROVE  UNCHANGED <<Ledger, Told>>
  <1>1. \A s : Entry(s)' = Entry(s)
    BY DEF tables, Entry, Complete
  <1>2. QED
    BY <1>1 DEF Ledger, Told

LEMMA QuietRefines ==
    ASSUME \/ \E req \in Requests : Post(req)
           \/ Tick \/ Throw \/ Killed \/ UNCHANGED vars
           \/ \E m \in inbox : \/ LockUnavailable(m) \/ BeginNew(m)
                               \/ RefuseConflict(m) \/ BeginReplay(m)
    PROVE  UNCHANGED <<Ledger, Told>>
  <1>1. /\ UNCHANGED tables
        /\ \/ replies' = replies
           \/ \E m, code : code # "OK" /\ replies' = replies \cup {Refusal(m, code)}
    BY DEF Post, Tick, Throw, Killed, vars, LockUnavailable, BeginNew, RefuseConflict,
           BeginReplay
  <1>2. \A m, code : Refusal(m, code).code = code
    BY DEF Refusal
  <1>3. QED
    BY <1>1, <1>2, RefusalsRefine

LEMMA InsertRefines ==
    ASSUME IInv, IInv', InsertSubmission \/ InsertLead \/ InsertContact \/ InsertDelivery
    PROVE  UNCHANGED <<Ledger, Told>> \/ Atomic!Commit(exec.msg.req.submissionId)
  <1> DEFINE req == exec.msg.req
             sid == exec.msg.req.submissionId
  <1>1. /\ exec.who = "intake" /\ UNCHANGED <<work, replies>>
        /\ submissions' \in {submissions, Append(submissions, exec.ctx)}
        /\ leads' \in {leads, Append(leads, Lead(req, exec.ctx))}
        /\ contacts' \in {contacts, Append(contacts, Contact(req, exec.ctx))}
        /\ deliveries' \in {deliveries, Append(deliveries, Delivery(req, exec.ctx))}
        /\ leads' # leads => req.content \notin Exchanges
        /\ contacts' # contacts => req.content \in Exchanges
    BY DEF InsertSubmission, InsertLead, InsertContact, InsertDelivery, Holding
  <1>2. /\ req \in Requests /\ sid \in SubmissionIds /\ req.content \in Contents
        /\ exec.ctx \in SubmissionRows /\ exec.ctx.submissionId = sid
    BY <1>1, Holder DEF Written
  <1>3. /\ submissions \in Seq(SubmissionRows) /\ Unique(submissions)
        /\ leads \in Seq(LeadRows) /\ Unique(leads)
        /\ contacts \in Seq(ContactRows) /\ Unique(contacts)
        /\ deliveries \in Seq(DeliveryRows) /\ Unique(deliveries)
    BY DEF IInv, TypeOK, OneRecordPerRequest
  <1>4. Adds(submissions, submissions', sid)
    BY <1>1, <1>2, <1>3, AppendAdds
  <1>5. Adds(leads, leads', sid)
    <2>1. CASE leads' = leads
      BY <2>1 DEF Adds
    <2>2. CASE leads' # leads
      <3>1. Lead(req, exec.ctx) \in LeadRows
        BY <1>1, <1>2, <2>2, IntakeAssumption DEF Lead, LeadRows, SubmissionRows
      <3>2. Lead(req, exec.ctx).submissionId = sid
        BY DEF Lead
      <3>3. QED
        BY <1>1, <1>3, <3>1, <3>2, AppendAdds
    <2>3. QED
      BY <2>1, <2>2
  <1>6. Adds(contacts, contacts', sid)
    <2>1. CASE contacts' = contacts
      BY <2>1 DEF Adds
    <2>2. CASE contacts' # contacts
      <3>1. Contact(req, exec.ctx) \in ContactRows
        BY <1>1, <1>2, <2>2, IntakeAssumption DEF Contact, ContactRows, SubmissionRows
      <3>2. Contact(req, exec.ctx).submissionId = sid
        BY DEF Contact
      <3>3. QED
        BY <1>1, <1>3, <3>1, <3>2, AppendAdds
    <2>3. QED
      BY <2>1, <2>2
  <1>7. Adds(deliveries, deliveries', sid)
    <2>1. DigestStatusFor(req, exec.ctx)
             \in {"not_applicable", "excluded_spam", "pending_digest"}
      BY DEF DigestStatusFor
    <2>2. Delivery(req, exec.ctx) \in DeliveryRows
          /\ Delivery(req, exec.ctx).submissionId = sid
      BY <1>2, <2>1 DEF Delivery, DeliveryRows
    <2>3. QED
      BY <1>1, <1>3, <2>2, AppendAdds
  <1>8. AddsWork(work, work', sid)
    BY <1>1 DEF AddsWork
  <1>9. UNCHANGED Told
    BY <1>1 DEF Told
  <1>10. QED
    BY <1>2, <1>4, <1>5, <1>6, <1>7, <1>8, <1>9, EntryKept, WriteRefines

LEMMA EnqueueRefines ==
    ASSUME IInv, IInv', EnqueueAck \/ EnqueueNotify
    PROVE  UNCHANGED <<Ledger, Told>> \/ Atomic!Commit(exec.msg.req.submissionId)
  <1> DEFINE sid == exec.msg.req.submissionId
  <1>1. /\ exec.who = "intake"
        /\ \E kind : work' = Enqueue(work, Key(kind, sid))
        /\ UNCHANGED <<submissions, leads, contacts, deliveries, replies>>
    BY DEF EnqueueAck, EnqueueNotify, Holding
  <1>2. work \in Seq(FreshItems(WorkKeys)) /\ sid \in SubmissionIds
    BY <1>1, Holder DEF IInv, TypeOK, FreshItems
  <1>3. AddsWork(work, work', sid)
    BY <1>1, <1>2, EnqueueAdds
  <1>4. /\ Adds(submissions, submissions', sid) /\ Adds(leads, leads', sid)
        /\ Adds(contacts, contacts', sid) /\ Adds(deliveries, deliveries', sid)
    BY <1>1 DEF Adds
  <1>5. UNCHANGED Told
    BY <1>1 DEF Told
  <1>6. QED
    BY <1>2, <1>3, <1>4, <1>5, EntryKept, WriteRefines

(* The answer reads its entry: a first execution from the rows it wrote, a *)
(* replay from the stored ones.                                            *)
LEMMA AnswerRefines ==
    ASSUME IInv, Answer
    PROVE  Atomic!Tell(exec.msg.req.submissionId)
  <1> DEFINE req == exec.msg.req
             sid == exec.msg.req.submissionId
             id == exec.ctx.businessId
             ans == Acceptance(exec.msg, exec.ctx)
             e == [content |-> req.content, businessId |-> ans.businessId,
                   receivedAt |-> ans.receivedAt, bookingEligible |-> ans.bookingEligible]
  <1>1. /\ exec.who = "intake" /\ exec.pc = "answer" /\ UNCHANGED tables
        /\ replies' = replies \cup {ans}
    BY DEF Answer, Holding
  <1>2. /\ sid \in SubmissionIds /\ Written
        /\ exec.ctx.submissionId = sid /\ exec.ctx.content = req.content
    BY <1>1, Holder DEF Written
  <1>3. PICK a \in DOMAIN submissions : submissions[a] = exec.ctx
    BY <1>1, <1>2 DEF Written
  <1>4. Has(submissions, sid) /\ Find(submissions, sid) = exec.ctx
    <2>1. Has(submissions, sid)
      BY <1>2, <1>3 DEF Has
    <2>2. PICK b \in DOMAIN submissions :
              submissions[b] = Find(submissions, sid) /\ submissions[b].submissionId = sid
      BY <2>1, FindRow DEF IInv, TypeOK, OneRecordPerRequest
    <2>3. a = b
      BY <1>2, <1>3, <2>2 DEF IInv, OneRecordPerRequest, Unique
    <2>4. QED
      BY <1>3, <2>1, <2>2, <2>3
  <1>5. Complete(sid, req.content)
    BY <1>1, <1>2, <1>3 DEF Written, BusinessTab, Complete
  <1>6. /\ ans.businessId = id /\ ans.code = "OK" /\ ans.req = req
        /\ ans.receivedAt = IF HasLead(id) THEN FindLead(id).receivedAt ELSE 0
        /\ ans.bookingEligible = (HasLead(id) /\ FindLead(id).bookingEligible)
    BY DEF Acceptance
  <1>7. ASSUME req.content \in Exchanges
        PROVE  Entry(sid) = {e}
    <2>1. ~ HasLead(id)
      <3> SUFFICES ASSUME NEW i \in DOMAIN leads, leads[i].leadId = id
                   PROVE  FALSE
        BY DEF HasLead
      <3>1. PICK b \in DOMAIN submissions :
                /\ leads[i].leadId = submissions[b].businessId
                /\ leads[i].submissionId = submissions[b].submissionId
        BY DEF IInv, RepairsReproduceTheAudit, Lead, RequestOf
      <3>2. a = b
        BY <1>3, <3>1 DEF IInv, FreshIds
      <3>3. leads[i].submissionId = sid
        BY <1>2, <1>3, <3>1, <3>2
      <3>4. Has(contacts, sid)
        BY <1>5, <1>7 DEF Complete
      <3>5. QED
        BY <3>3, <3>4 DEF IInv, OneRecordPerRequest, Has
    <2>2. Entry(sid) = {[content |-> req.content, businessId |-> id, receivedAt |-> 0,
                         bookingEligible |-> FALSE]}
      BY <1>2, <1>4, <1>5, <1>7 DEF Entry
    <2>3. e = [content |-> req.content, businessId |-> id, receivedAt |-> 0,
               bookingEligible |-> FALSE]
      BY <1>6, <2>1
    <2>4. QED
      BY <2>2, <2>3
  <1>8. ASSUME req.content \notin Exchanges
        PROVE  Entry(sid) = {e}
    <2>1. Has(leads, sid)
      BY <1>5, <1>8 DEF Complete
    <2>2. PICK i \in DOMAIN leads : leads[i] = Find(leads, sid) /\ leads[i].submissionId = sid
      BY <2>1, FindRow DEF IInv, TypeOK, OneRecordPerRequest
    <2>3. PICK b \in DOMAIN submissions :
              /\ leads[i].leadId = submissions[b].businessId
              /\ leads[i].submissionId = submissions[b].submissionId
      BY DEF IInv, RepairsReproduceTheAudit, Lead, RequestOf
    <2>4. a = b
      BY <1>2, <1>3, <2>2, <2>3 DEF IInv, OneRecordPerRequest, Unique
    <2>5. leads[i].leadId = id
      BY <1>3, <2>3, <2>4
    <2>6. HasLead(id)
      BY <2>5 DEF HasLead
    <2>7. FindLead(id) = leads[i]
      BY <2>5, <2>6, FindLeadRow, LeadIdsUnique
    <2>8. Entry(sid) = {[content |-> req.content, businessId |-> id,
                         receivedAt |-> leads[i].receivedAt,
                         bookingEligible |-> TRUE /\ leads[i].bookingEligible]}
      BY <1>2, <1>4, <1>5, <1>8, <2>2 DEF Entry
    <2>9. e = [content |-> req.content, businessId |-> id,
               receivedAt |-> leads[i].receivedAt,
               bookingEligible |-> TRUE /\ leads[i].bookingEligible]
      BY <1>6, <2>6, <2>7
    <2>10. QED
      BY <2>8, <2>9
  <1>9. Entry(sid) = {e}
    BY <1>7, <1>8
  <1>10. Ledger[sid] = {e} /\ UNCHANGED Ledger
    <2>1. \A s : Entry(s)' = Entry(s)
      BY <1>1 DEF tables, Entry, Complete
    <2>2. QED
      BY <1>2, <1>9, <2>1 DEF Ledger
  <1>11. Told' = Told \cup {<<sid, e>>}
    <2>1. {q \in replies' : q.code = "OK"} = {q \in replies : q.code = "OK"} \cup {ans}
      BY <1>1, <1>6
    <2>2. <<sid, e>> = <<ans.req.submissionId,
             [content |-> ans.req.content, businessId |-> ans.businessId,
              receivedAt |-> ans.receivedAt, bookingEligible |-> ans.bookingEligible]>>
      BY <1>6
    <2> HIDE DEF ans, e
    <2>3. QED
      BY <2>1, <2>2 DEF Told
  <1>12. QED
    <2> HIDE DEF e
    <2>1. Ledger' = Ledger /\ \E f \in Ledger[sid] : Told' = Told \cup {<<sid, f>>}
      BY <1>10, <1>11
    <2>2. QED
      BY <2>1 DEF Atomic!Tell, Ledger, Told

LEMMA InitRefines == Init => Atomic!Init
  <1> SUFFICES ASSUME Init PROVE Atomic!Init
    OBVIOUS
  <1>1. \A s : Entry(s) = {}
    BY DEF Init, Entry, Has
  <1>2. QED
    BY <1>1 DEF Init, Atomic!Init

LEMMA NextRefines ==
    IInv /\ IInv' /\ [Next]_vars => [Atomic!Next]_<<Ledger, Told>>
  <1> SUFFICES ASSUME IInv, IInv', [Next]_vars
               PROVE  Atomic!Next \/ UNCHANGED <<Ledger, Told>>
    OBVIOUS
  <1> DEFINE sid == exec.msg.req.submissionId
  <1>1. CASE InsertSubmission \/ InsertLead \/ InsertContact \/ InsertDelivery
             \/ EnqueueAck \/ EnqueueNotify
    <2>1. exec.who = "intake"
      BY <1>1 DEF InsertSubmission, InsertLead, InsertContact, InsertDelivery, EnqueueAck,
                  EnqueueNotify, Holding
    <2>2. sid \in SubmissionIds
      BY <2>1, Holder
    <2>3. UNCHANGED <<Ledger, Told>> \/ Atomic!Commit(sid)
      BY <1>1, InsertRefines, EnqueueRefines
    <2>4. QED
      BY <2>2, <2>3 DEF Atomic!Next
  <1>2. CASE Answer
    <2>1. exec.who = "intake"
      BY <1>2 DEF Answer, Holding
    <2>2. sid \in SubmissionIds
      BY <2>1, Holder
    <2>3. Atomic!Tell(sid)
      BY <1>2, AnswerRefines
    <2>4. QED
      BY <2>2, <2>3 DEF Atomic!Next, Atomic!Tell
  <1>3. CASE \/ \E req \in Requests : Post(req)
             \/ Tick \/ Throw \/ Killed \/ UNCHANGED vars
             \/ \E m \in inbox : \/ LockUnavailable(m) \/ BeginNew(m)
                                 \/ RefuseConflict(m) \/ BeginReplay(m)
    BY <1>3, QuietRefines
  <1>4. QED
    BY <1>1, <1>2, <1>3 DEF Next, Process

(* The intake, with its executions, repairs and deaths, implements the     *)
(* ledger: a request is entered whole and at once, never changed, and an   *)
(* answer says what its entry says (processSubmission, replayResult).      *)
THEOREM IntakeImplementsLedger == Spec => ImplementsAtomicIntake
  <1>1. Init => Atomic!Init
    BY InitRefines
  <1>2. IInv /\ IInv' /\ [Next]_vars => [Atomic!Next]_<<Ledger, Told>>
    BY NextRefines
  <1>3. QED
    BY <1>1, <1>2, InductiveInvariant, PTL
       DEF Spec, ImplementsAtomicIntake, Atomic!Spec, Ledger, Told
=============================================================================
