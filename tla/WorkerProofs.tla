---------------------------- MODULE WorkerProofs ----------------------------
(***************************************************************************)
(* Proofs about Worker.tla, for every queue, every audit and every number  *)
(* of attempts, cycles and deaths: when a mail may be sent twice, what     *)
(* "succeeded" means, and that a finished item stays finished.             *)
(***************************************************************************)
EXTENDS Worker, TLAPS

-----------------------------------------------------------------------------
(* The inductive invariant.  First the shapes.                             *)

AuditIds == {Audit[a].submissionId : a \in DOMAIN Audit}
Marks == {"pending", "sent", "skipped", "not_configured", "failed"}
DeliveryRows == [submissionId : AuditIds, ack : Marks, notify : Marks]

IsDeliveries(tab) ==
    /\ tab \in [DOMAIN Audit -> DeliveryRows]
    /\ \A a \in DOMAIN Audit : tab[a].submissionId = Audit[a].submissionId

Items == [key : Keys, state : {"pending", "succeeded", "abandoned"},
          attempts : Nat, wait : Nat, age : Nat]

Cycles == [who : {"worker"},
           pc : {"take", "record", "state", "attempts", "due", "done"},
           config : SUBSET Purposes, todo : SUBSET Nat, item : Nat,
           result : {"ok", "permanent", "transient"},
           status : (Marks \ {"pending"}) \cup {"none"}]

TypeOK ==
    /\ submissions = Audit /\ leads = AuditLeads
    /\ IsDeliveries(deliveries)
    /\ work \in Seq(Items)
    /\ exec \in {Nobody} \cup Cycles
    /\ sent \in [Keys -> Nat] /\ lost \in [Keys -> Nat]
    /\ deaths \in Nat

OneItemPerKey == \A i, j \in DOMAIN work : work[i].key = work[j].key => i = j

(* What the handler found out about the item in hand, up to its state cell.*)
Handling(pcs) == exec.who = "worker" /\ exec.pc \in pcs

Handled(k) ==
    exec.result = "ok" =>
        /\ exec.status = IF Skipped(k) THEN "skipped" ELSE StatusFor(k, "sent")
        /\ Records(k) => Has(deliveries, k.subject)
        /\ exec.pc = "state" /\ Records(k) =>
              Find(deliveries, k.subject)[Field(k)] = exec.status

(* A cycle's claims are pending; the item in hand is claimed no more, and  *)
(* pending until its state cell is written.                                *)
CycleInv ==
    /\ exec.who = "worker" =>
          \A i \in exec.todo : i \in DOMAIN work /\ work[i].state = "pending"
    /\ Handling({"record", "state", "attempts", "due", "done"}) =>
          exec.item \in DOMAIN work /\ exec.item \notin exec.todo
    /\ Handling({"record", "state"}) =>
          Current.state = "pending" /\ Handled(Current.key)
    /\ Handling({"record"}) => Records(Current.key) /\ exec.status # "none"

(* The mail of item i is out and its row does not show it.                 *)
InFlight(i) == Handling({"record", "state"}) /\ exec.item = i /\ Unrecorded

(* Mails sent are mails lost, but for the one in flight and the one that   *)
(* made an item succeed.                                                   *)
SentInv ==
    /\ \A k \in Keys : ~ Queued(work, k) => sent[k] = 0 /\ lost[k] = 0
    /\ \A i \in DOMAIN work :
          LET k == work[i].key IN
          /\ Skipped(k) => sent[k] = 0 /\ lost[k] = 0
          /\ InFlight(i) => sent[k] = lost[k] + 1
          /\ work[i].state # "succeeded" /\ ~ InFlight(i) => sent[k] = lost[k]

(* What has succeeded, and is recorded at all, has a row it is recorded in.*)
HasItsRow ==
    \A i \in DOMAIN work :
        work[i].state = "succeeded" /\ Records(work[i].key) => Has(Audit, work[i].key.subject)

(* The attempt being made is not counted yet.                              *)
Uncounted(i) == Handling({"record", "state", "attempts"}) /\ exec.item = i

AttemptInv ==
    \A i \in DOMAIN work :
        /\ work[i].attempts <= MaxAttempts
        /\ work[i].state = "pending" \/ Uncounted(i) => work[i].attempts < MaxAttempts
        /\ Handling({"attempts"}) /\ exec.item = i /\ work[i].state = "pending"
              => work[i].attempts + 1 < MaxAttempts
        /\ Handling({"due"}) /\ exec.item = i => work[i].attempts > 0
        /\ ~ Uncounted(i) => sent[work[i].key] <= work[i].attempts + deaths
        /\ Uncounted(i) => sent[work[i].key] <= work[i].attempts + deaths + 1

IInv == /\ TypeOK
        /\ OneItemPerKey
        /\ CycleInv
        /\ SentInv
        /\ HasItsRow
        /\ AttemptInv
        /\ SucceededIsTrue

-----------------------------------------------------------------------------
(* The Deliveries tab: one row per submission, found wherever it is, and   *)
(* a patch that shows in the row and field of one work item only.          *)

LEMMA FindIs ==
    ASSUME NEW tab, IsDeliveries(tab), NEW a \in DOMAIN Audit
    PROVE  LET sid == Audit[a].submissionId IN
           Has(tab, sid) /\ FirstRow(tab, sid) = a /\ Find(tab, sid) = tab[a]
  <1> DEFINE sid == Audit[a].submissionId
             P(i) == tab[i].submissionId = sid /\ \A j \in 1 .. i - 1 : tab[j].submissionId # sid
  <1>1. /\ DOMAIN tab = DOMAIN Audit
        /\ \A b \in DOMAIN Audit : tab[b].submissionId = Audit[b].submissionId
    BY DEF IsDeliveries
  <1>2. \A b \in DOMAIN Audit : tab[b].submissionId = sid => b = a
    BY <1>1, WorkerAssumption
  <1>3. \A j \in 1 .. a - 1 : j \in DOMAIN Audit /\ j # a
    BY WorkerAssumption
  <1>4. P(a)
    BY <1>1, <1>2, <1>3
  <1>5. \A b \in DOMAIN tab : P(b) => b = a
    BY <1>1, <1>2
  <1> HIDE DEF P
  <1>6. (CHOOSE i \in DOMAIN tab : P(i)) = a
    BY <1>1, <1>4, <1>5
  <1>7. FirstRow(tab, sid) = a
    BY <1>6 DEF FirstRow, P
  <1>8. QED
    BY <1>1, <1>7 DEF Find, Has

(* Which subjects have a row does not depend on what the rows say.         *)
LEMMA HasIs ==
    ASSUME NEW tab, IsDeliveries(tab), NEW sid
    PROVE  /\ Has(tab, sid) <=> \E a \in DOMAIN Audit : Audit[a].submissionId = sid
           /\ Has(tab, sid) <=> Has(Audit, sid)
  BY DEF IsDeliveries, Has

(* Two items that record on the same row use different fields of it.       *)
LEMMA FieldsApart ==
    ASSUME NEW k \in Keys, NEW q \in Keys, Records(k), Records(q),
           k.subject = q.subject, Field(k) = Field(q)
    PROVE  k = q
  BY WorkerAssumption DEF Records, Field, Kinds, Acknowledgements, AckKind

LEMMA SetDeliveryIs ==
    ASSUME IsDeliveries(deliveries), NEW k \in Keys, NEW status \in Marks
    PROVE  /\ IsDeliveries(SetDelivery(k, status))
           /\ \A q \in Keys :
                 Records(k) /\ Records(q) /\ Has(deliveries, q.subject) =>
                    Find(SetDelivery(k, status), q.subject)[Field(q)] =
                        IF q = k THEN status ELSE Find(deliveries, q.subject)[Field(q)]
  <1> DEFINE after == SetDelivery(k, status)
  <1>1. CASE ~ Has(deliveries, k.subject)
    BY <1>1 DEF SetDelivery
  <1>2. CASE Has(deliveries, k.subject)
    <2>1. PICK a \in DOMAIN Audit : Audit[a].submissionId = k.subject
      BY <1>2, HasIs
    <2> DEFINE row == [deliveries[a] EXCEPT ![Field(k)] = status]
    <2>2. after = [deliveries EXCEPT ![a] = row]
      BY <1>2, <2>1, FindIs DEF SetDelivery
    <2>3. deliveries[a] \in DeliveryRows /\ deliveries \in [DOMAIN Audit -> DeliveryRows]
      BY DEF IsDeliveries
    <2>4. /\ row \in DeliveryRows /\ row.submissionId = deliveries[a].submissionId
          /\ row[Field(k)] = status
      BY <2>3 DEF DeliveryRows, Field
    <2>5. \A q : Field(q) # Field(k) => row[Field(q)] = deliveries[a][Field(q)]
      BY <2>3 DEF DeliveryRows, Field
    <2> HIDE DEF row, after
    <2>6. /\ after[a] = row /\ after \in [DOMAIN Audit -> DeliveryRows]
          /\ \A b \in DOMAIN Audit : b # a => after[b] = deliveries[b]
      BY <2>2, <2>3, <2>4
    <2>7. IsDeliveries(after)
      BY <2>4, <2>6 DEF IsDeliveries
    <2>8. ASSUME NEW q \in Keys, Records(k), Records(q), Has(deliveries, q.subject)
          PROVE  Find(after, q.subject)[Field(q)] =
                     IF q = k THEN status ELSE Find(deliveries, q.subject)[Field(q)]
      <3>1. PICK b \in DOMAIN Audit : Audit[b].submissionId = q.subject
        BY <2>8, HasIs
      <3>2. Find(after, q.subject) = after[b] /\ Find(deliveries, q.subject) = deliveries[b]
        BY <2>7, <3>1, FindIs
      <3>3. CASE q = k
        <4>1. b = a
          BY <2>1, <3>1, <3>3, WorkerAssumption
        <4>2. QED
          BY <2>4, <2>6, <3>2, <3>3, <4>1
      <3>4. CASE q # k /\ b = a
        <4>1. Field(q) # Field(k)
          BY <2>1, <2>8, <3>1, <3>4, FieldsApart
        <4>2. QED
          BY <2>5, <2>6, <3>2, <3>4, <4>1
      <3>5. CASE q # k /\ b # a
        BY <2>6, <3>2, <3>5
      <3>6. QED
        BY <3>3, <3>4, <3>5
    <2>9. QED
      BY <2>7, <2>8 DEF after
  <1>3. QED
    BY <1>1, <1>2

-----------------------------------------------------------------------------
(* Items and the cycle that holds the lock.                                *)

LEMMA ItemFacts ==
    ASSUME TypeOK, NEW i \in DOMAIN work
    PROVE  /\ work[i] \in Items /\ i \in Nat
           /\ work[i].key \in Keys /\ work[i].attempts \in Nat
           /\ work[i].state \in {"pending", "succeeded", "abandoned"}
           /\ sent[work[i].key] \in Nat /\ lost[work[i].key] \in Nat
  <1>1. work[i] \in Items /\ i \in Nat
    BY DEF TypeOK
  <1>2. work[i].key \in Keys /\ work[i].attempts \in Nat
        /\ work[i].state \in {"pending", "succeeded", "abandoned"}
    BY <1>1 DEF Items
  <1>3. QED
    BY <1>1, <1>2 DEF TypeOK

LEMMA CycleRuns ==
    ASSUME TypeOK, exec.who = "worker"
    PROVE  exec \in Cycles
  BY DEF TypeOK, Nobody

(* What a handler finds out depends on tabs that never change.             *)
LEMMA SameFindings ==
    ASSUME UNCHANGED records
    PROVE  \A k : /\ Skipped(k)' <=> Skipped(k)
                  /\ NotFound(k)' <=> NotFound(k)
  BY DEF records, Skipped, NotFound, Submission, HasLead

(* An item that can be sent, or skipped, has a delivery row to record it.  *)
LEMMA FoundHasRow ==
    ASSUME TypeOK, NEW k \in Keys, ~ NotFound(k), Records(k)
    PROVE  Has(deliveries, k.subject)
  <1>1. Has(Audit, k.subject)
    BY WorkerAssumption DEF TypeOK, NotFound, Records, Kinds
  <1>2. QED
    BY <1>1, HasIs DEF TypeOK

LEMMA SkippedRecords ==
    ASSUME NEW k, Skipped(k)
    PROVE  Records(k)
  BY DEF Skipped, Records

(* Nobody at work: nothing in hand, nothing in flight.                     *)
LEMMA NothingInHand ==
    ASSUME exec' = Nobody
    PROVE  CycleInv' /\ \A i : ~ InFlight(i)' /\ ~ Uncounted(i)'
  BY DEF Nobody, CycleInv, Handling, InFlight, Uncounted

-----------------------------------------------------------------------------
(* The environment.                                                        *)

LEMMA ArriveStep ==
    ASSUME IInv, NEW k \in Keys, Arrive(k)
    PROVE  IInv'
  <1>1. /\ ~ Queued(work, k) /\ work' = Append(work, WorkItem(k))
        /\ UNCHANGED <<records, deliveries, exec, sent, lost, deaths>>
    BY DEF Arrive, Enqueue
  <1>2. PICK n : n = Len(work) + 1
    OBVIOUS
  <1>3. /\ WorkItem(k) \in Items /\ WorkItem(k).key = k
        /\ WorkItem(k).state = "pending" /\ WorkItem(k).attempts = 0
    BY DEF WorkItem, Items, NotCompleted
  <1>4. /\ work' \in Seq(Items) /\ DOMAIN work' = DOMAIN work \cup {n}
        /\ n \notin DOMAIN work
        /\ \A i \in DOMAIN work : work'[i] = work[i]
        /\ work'[n] = WorkItem(k)
    BY <1>1, <1>2, <1>3 DEF IInv, TypeOK
  <1>5. TypeOK'
    BY <1>1, <1>4 DEF IInv, TypeOK, records
  <1>6. OneItemPerKey'
    BY <1>1, <1>3, <1>4 DEF IInv, OneItemPerKey, Queued
  <1>7. exec.who = "worker" => (exec.pc # "take" => exec.item \in DOMAIN work)
    BY CycleRuns DEF IInv, CycleInv, Handling, Cycles
  <1>8. /\ \A pcs : Handling(pcs)' <=> Handling(pcs)
        /\ \A q : (Skipped(q)' <=> Skipped(q)) /\ (StatusFor(q, "sent")' = StatusFor(q, "sent"))
        /\ (Unrecorded)' <=> Unrecorded
        /\ \A i : InFlight(i)' <=> InFlight(i)
        /\ \A i : Uncounted(i)' <=> Uncounted(i)
    BY <1>1, SameFindings DEF Handling, StatusFor, Unrecorded, InFlight, Uncounted
  <1>9. ~ InFlight(n) /\ ~ Uncounted(n) /\ (Handling({"attempts", "due"}) => exec.item # n)
    BY <1>4, <1>7 DEF InFlight, Uncounted, Handling
  <1>10. CycleInv'
    <2>1. \A q : Handled(q)' <=> Handled(q)
      BY <1>1, <1>8 DEF Handled, Has, Find, FirstRow
    <2>2. Handling({"record", "state", "attempts", "due", "done"}) => Current' = Current
      BY <1>1, <1>4, <1>7 DEF Handling, Current
    <2>3. QED
      BY <1>1, <1>4, <1>8, <2>1, <2>2 DEF IInv, CycleInv, Handling
  <1>11. SentInv'
    <2>1. \A q : ~ Queued(work', q) => ~ Queued(work, q)
      BY <1>4 DEF Queued
    <2>2. sent[k] = 0 /\ lost[k] = 0
      BY <1>1 DEF IInv, SentInv
    <2>3. ASSUME NEW i \in DOMAIN work'
          PROVE  LET q == work'[i].key IN
                 /\ Skipped(q) => sent[q] = 0 /\ lost[q] = 0
                 /\ InFlight(i) => sent[q] = lost[q] + 1
                 /\ work'[i].state # "succeeded" /\ ~ InFlight(i) => sent[q] = lost[q]
      <3>1. CASE i \in DOMAIN work
        BY <1>4, <3>1 DEF IInv, SentInv
      <3>2. CASE i = n
        BY <1>3, <1>4, <1>9, <2>2, <3>2
      <3>3. QED
        BY <1>4, <3>1, <3>2
    <2>4. QED
      BY <1>1, <1>8, <2>1, <2>3 DEF IInv, SentInv
  <1>12. AttemptInv'
    <2>1. sent[k] = 0 /\ deaths \in Nat /\ MaxAttempts \in Nat \ {0}
      BY <1>1, WorkerAssumption DEF IInv, SentInv, TypeOK
    <2>2. ASSUME NEW i \in DOMAIN work'
          PROVE  /\ work'[i].attempts <= MaxAttempts
                 /\ work'[i].state = "pending" \/ Uncounted(i) => work'[i].attempts < MaxAttempts
                 /\ Handling({"attempts"}) /\ exec.item = i /\ work'[i].state = "pending"
                       => work'[i].attempts + 1 < MaxAttempts
                 /\ Handling({"due"}) /\ exec.item = i => work'[i].attempts > 0
                 /\ ~ Uncounted(i) => sent[work'[i].key] <= work'[i].attempts + deaths
                 /\ Uncounted(i) => sent[work'[i].key] <= work'[i].attempts + deaths + 1
      <3>1. CASE i \in DOMAIN work
        BY <1>4, <3>1 DEF IInv, AttemptInv
      <3>2. CASE i = n
        <4>1. ~ (Handling({"attempts"}) /\ exec.item = i)
              /\ ~ (Handling({"due"}) /\ exec.item = i)
          BY <1>9, <3>2 DEF Handling
        <4>2. QED
          BY <1>3, <1>4, <1>9, <2>1, <3>2, <4>1
      <3>3. QED
        BY <1>4, <3>1, <3>2
    <2>3. QED
      BY <1>1, <1>8, <2>2 DEF AttemptInv
  <1>13. SucceededIsTrue'
    <2>1. deliveries' = deliveries /\ sent' = sent /\ lost' = lost
      BY <1>1
    <2>2. \A i \in DOMAIN work' : work'[i].state = "succeeded" => i \in DOMAIN work
      BY <1>3, <1>4
    <2>3. QED
      BY <1>4, <1>8, <2>1, <2>2 DEF IInv, SucceededIsTrue
  <1>14. HasItsRow'
    BY <1>3, <1>4 DEF IInv, HasItsRow
  <1>15. QED
    BY <1>5, <1>6, <1>10, <1>11, <1>12, <1>13, <1>14 DEF IInv

(* With no cycle at work, steps that keep every item's key, state and      *)
(* attempts keep what the history counts.                                  *)
LEMMA IdleStep ==
    ASSUME IInv, exec' = Nobody, TypeOK', UNCHANGED <<records, deliveries, sent>>,
           DOMAIN work' = DOMAIN work,
           \A i \in DOMAIN work :
              /\ work'[i].key = work[i].key /\ work'[i].state = work[i].state
              /\ work'[i].attempts = work[i].attempts,
           \A k \in Keys : ~ Queued(work, k) => lost'[k] = 0,
           \A i \in DOMAIN work :
              LET k == work[i].key IN
              /\ Skipped(k) => lost'[k] = 0
              /\ work[i].state = "succeeded" => lost'[k] = lost[k]
              /\ work[i].state # "succeeded" => sent[k] = lost'[k]
              /\ sent[k] <= work[i].attempts + deaths'
    PROVE  IInv'
  <1>1. CycleInv' /\ \A i : ~ InFlight(i)' /\ ~ Uncounted(i)' /\ ~ Handling({"attempts"})'
                             /\ ~ Handling({"due"})'
    BY NothingInHand DEF Handling, Nobody
  <1>2. OneItemPerKey'
    BY DEF IInv, OneItemPerKey
  <1>3. \A k : Queued(work', k) <=> Queued(work, k)
    BY DEF Queued
  <1>4. \A k : Skipped(k)' <=> Skipped(k)
    BY SameFindings
  <1>5. SentInv'
    BY <1>1, <1>3, <1>4 DEF IInv, SentInv
  <1>6. AttemptInv'
    BY <1>1 DEF IInv, AttemptInv
  <1>7. SucceededIsTrue'
    <2>1. \A i \in DOMAIN work : work[i].state = "succeeded" =>
             work[i].key \in Keys /\ lost'[work[i].key] = lost[work[i].key]
      BY ItemFacts DEF IInv
    <2>2. QED
      BY <1>4, <2>1 DEF IInv, SucceededIsTrue
  <1>8. HasItsRow'
    BY DEF IInv, HasItsRow
  <1>9. QED
    BY <1>1, <1>2, <1>5, <1>6, <1>7, <1>8 DEF IInv

(* What an idle state knows of each item.                                  *)
LEMMA IdleFacts ==
    ASSUME IInv, ~ Handling({"record", "state", "attempts"})
    PROVE  /\ \A k \in Keys : ~ Queued(work, k) => sent[k] = 0 /\ lost[k] = 0
           /\ \A i \in DOMAIN work :
                 LET k == work[i].key IN
                 /\ Skipped(k) => lost[k] = 0
                 /\ work[i].state # "succeeded" => sent[k] = lost[k]
                 /\ sent[k] <= work[i].attempts + deaths
  <1>1. \A i : ~ InFlight(i) /\ ~ Uncounted(i)
    BY DEF Handling, InFlight, Uncounted
  <1>2. QED
    BY <1>1 DEF IInv, SentInv, AttemptInv

LEMMA TickStep ==
    ASSUME IInv, Tick
    PROVE  IInv'
  <1>1. /\ exec = Nobody /\ exec' = Nobody
        /\ work' = [i \in DOMAIN work |-> Older(work[i])]
        /\ UNCHANGED <<records, deliveries, sent, lost, deaths>>
    BY DEF Tick
  <1>2. \A i \in DOMAIN work :
            /\ Older(work[i]) \in Items
            /\ Older(work[i]).key = work[i].key /\ Older(work[i]).state = work[i].state
            /\ Older(work[i]).attempts = work[i].attempts
    <2> SUFFICES ASSUME NEW item \in Items
                 PROVE  /\ Older(item) \in Items
                        /\ Older(item).key = item.key /\ Older(item).state = item.state
                        /\ Older(item).attempts = item.attempts
      BY ItemFacts DEF IInv
    <2> DEFINE wait == IF item.wait > 0 THEN item.wait - 1 ELSE 0
               age == IF item.age # NotCompleted /\ item.age < MaxAge
                      THEN item.age + 1 ELSE item.age
    <2>1. wait \in Nat /\ age \in Nat
      BY DEF Items
    <2>2. Older(item) = [item EXCEPT !.wait = wait, !.age = age]
      BY DEF Older
    <2> HIDE DEF wait, age
    <2>3. QED
      BY <2>1, <2>2 DEF Items
  <1>3. work' \in Seq(Items)
    <2>1. work \in Seq(Items)
      BY DEF IInv, TypeOK
    <2>2. QED
      BY <1>1, <1>2, <2>1
  <1>4. TypeOK'
    BY <1>1, <1>3 DEF IInv, TypeOK, records
  <1>5. ~ Handling({"record", "state", "attempts"})
    BY <1>1 DEF Handling, Nobody
  <1>6. QED
    BY <1>1, <1>2, <1>4, <1>5, IdleFacts, IdleStep

LEMMA FinishStep ==
    ASSUME IInv, Finish
    PROVE  IInv'
  <1>1. /\ exec' = Nobody /\ ~ Handling({"record", "state", "attempts"})
        /\ UNCHANGED <<records, deliveries, work, sent, lost, deaths>>
    BY DEF Finish, Holding, Handling
  <1>2. TypeOK'
    BY <1>1 DEF IInv, TypeOK, records
  <1>3. QED
    BY <1>1, <1>2, IdleFacts, IdleStep

(* A death hides at most the attempt that was being made, and what it      *)
(* leaves unrecorded counts as lost.                                       *)
LEMMA CycleDiesStep ==
    ASSUME IInv, CycleDies
    PROVE  IInv'
  <1>1. /\ exec.who = "worker" /\ exec' = Nobody /\ deaths' = deaths + 1 /\ Losing
        /\ UNCHANGED <<records, deliveries, work, sent>>
    BY DEF CycleDies
  <1>2. deaths \in Nat /\ lost \in [Keys -> Nat]
    BY DEF IInv, TypeOK
  <1>3. \A i \in DOMAIN work : sent[work[i].key] <= work[i].attempts + deaths'
    <2> SUFFICES ASSUME NEW i \in DOMAIN work
                 PROVE  sent[work[i].key] <= work[i].attempts + deaths'
      OBVIOUS
    <2>1. work[i].attempts \in Nat /\ sent[work[i].key] \in Nat
      BY ItemFacts DEF IInv
    <2>2. \/ sent[work[i].key] <= work[i].attempts + deaths
          \/ sent[work[i].key] <= work[i].attempts + deaths + 1
      BY DEF IInv, AttemptInv
    <2>3. QED
      BY <1>1, <1>2, <2>1, <2>2
  <1>4. CASE ~ Unrecorded
    <2>1. lost' = lost /\ \A i : ~ InFlight(i)
      BY <1>1, <1>4 DEF Losing, InFlight
    <2>2. TypeOK'
      BY <1>1, <1>2, <2>1 DEF IInv, TypeOK, records
    <2>3. QED
      BY <1>1, <1>3, <2>1, <2>2, IdleStep DEF IInv, SentInv
  <1>5. CASE Unrecorded
    <2> DEFINE i == exec.item
               k == work[i].key
    <2>1. /\ i \in DOMAIN work /\ work[i].state = "pending" /\ InFlight(i)
          /\ exec.pc \in {"record", "state"}
      BY <1>1, <1>5 DEF IInv, CycleInv, Handling, InFlight, Unrecorded, Current
    <2>2. k \in Keys /\ lost[k] \in Nat /\ sent[k] = lost[k] + 1
      BY <2>1, ItemFacts DEF IInv, SentInv
    <2>3. lost' = [lost EXCEPT ![k] = @ + 1]
      BY <1>1, <1>5 DEF Losing, Current
    <2>4. /\ lost' \in [Keys -> Nat] /\ lost'[k] = sent[k]
          /\ \A q \in Keys : q # k => lost'[q] = lost[q]
      BY <1>2, <2>2, <2>3
    <2>5. TypeOK'
      BY <1>1, <1>2, <2>4 DEF IInv, TypeOK, records
    <2>6. Queued(work, k)
      BY <2>1 DEF Queued
    <2>7. \A j \in DOMAIN work : j # i =>
             work[j].key \in Keys /\ work[j].key # k /\ ~ InFlight(j)
      BY <2>1, ItemFacts DEF IInv, OneItemPerKey, InFlight
    <2>8. ~ Skipped(k)
      BY <2>1, <2>2, ItemFacts DEF IInv, SentInv
    <2>9. \A q \in Keys : ~ Queued(work, q) => lost'[q] = 0
      BY <2>4, <2>6 DEF IInv, SentInv
    <2>10. \A j \in DOMAIN work :
              LET q == work[j].key IN
              /\ Skipped(q) => lost'[q] = 0
              /\ work[j].state = "succeeded" => lost'[q] = lost[q]
              /\ work[j].state # "succeeded" => sent[q] = lost'[q]
      <3> SUFFICES ASSUME NEW j \in DOMAIN work
                   PROVE  LET q == work[j].key IN
                          /\ Skipped(q) => lost'[q] = 0
                          /\ work[j].state = "succeeded" => lost'[q] = lost[q]
                          /\ work[j].state # "succeeded" => sent[q] = lost'[q]
        OBVIOUS
      <3>1. CASE j = i
        BY <2>1, <2>4, <2>8, <3>1
      <3>2. CASE j # i
        BY <2>4, <2>7, <3>2 DEF IInv, SentInv
      <3>3. QED
        BY <3>1, <3>2
    <2>11. QED
      BY <1>1, <1>3, <2>5, <2>9, <2>10, IdleStep
  <1>6. QED
    BY <1>4, <1>5

-----------------------------------------------------------------------------
(* Claiming.                                                               *)

LEMMA ClaimedShape ==
    ASSUME NEW config \in SUBSET Purposes, NEW todo \in SUBSET Nat
    PROVE  /\ Claimed(config, todo) \in Cycles
           /\ Claimed(config, todo).who = "worker" /\ Claimed(config, todo).pc = "take"
           /\ Claimed(config, todo).todo = todo
  BY DEF Claimed, Cycles

(* Between two items of a cycle, with pending items claimed.               *)
LEMMA TakeStep ==
    ASSUME IInv, NEW config \in SUBSET Purposes, NEW todo \in SUBSET DOMAIN work,
           exec' = Claimed(config, todo), ~ Handling({"record", "state", "attempts"}),
           \A i \in todo : work'[i].state = "pending",
           UNCHANGED <<records, deliveries, sent, lost, deaths>>,
           work' \in Seq(Items), DOMAIN work' = DOMAIN work,
           \A i \in DOMAIN work :
              /\ work'[i].key = work[i].key /\ work'[i].state = work[i].state
              /\ work'[i].attempts = work[i].attempts
    PROVE  IInv'
  <1>1. /\ exec' \in Cycles /\ exec'.who = "worker" /\ exec'.pc = "take"
        /\ exec'.todo = todo
    <2>1. todo \in SUBSET Nat
      BY ItemFacts DEF IInv
    <2>2. QED
      BY <2>1, ClaimedShape
  <1>2. TypeOK'
    BY <1>1 DEF IInv, TypeOK, records
  <1>3. CycleInv'
    BY <1>1 DEF CycleInv, Handling
  <1>4. \A i : /\ ~ InFlight(i)' /\ ~ Uncounted(i)' /\ ~ Handling({"attempts"})'
               /\ ~ Handling({"due"})'
    BY <1>1 DEF InFlight, Uncounted, Handling
  <1>5. \A k : (Queued(work', k) <=> Queued(work, k)) /\ (Skipped(k)' <=> Skipped(k))
    BY SameFindings DEF Queued
  <1>6. OneItemPerKey'
    BY DEF IInv, OneItemPerKey
  <1>7. \A i : ~ InFlight(i)
    BY DEF Handling, InFlight
  <1>8. SentInv'
    BY <1>4, <1>5, <1>7 DEF IInv, SentInv
  <1>9. AttemptInv'
    BY <1>4, IdleFacts DEF IInv, AttemptInv
  <1>10. SucceededIsTrue'
    BY <1>5 DEF IInv, SucceededIsTrue
  <1>11. HasItsRow'
    BY DEF IInv, HasItsRow
  <1>12. QED
    BY <1>2, <1>3, <1>6, <1>8, <1>9, <1>10, <1>11 DEF IInv

LEMMA StartCycleStep ==
    ASSUME IInv, StartCycle
    PROVE  IInv'
  <1>1. /\ exec = Nobody
        /\ UNCHANGED <<records, deliveries, work, sent, lost, deaths>>
    BY DEF StartCycle
  <1>2. PICK config \in SUBSET {Purpose(work[i].key) : i \in ClaimDue} :
            exec' = Claimed(config, ClaimDue)
    BY DEF StartCycle
  <1>3. \A i \in ClaimDue : i \in DOMAIN work /\ work[i].state = "pending"
    BY DEF ClaimDue, Due
  <1>4. config \in SUBSET Purposes
    BY DEF Purpose, Purposes
  <1>5. ~ Handling({"record", "state", "attempts"}) /\ work \in Seq(Items)
    BY <1>1 DEF Handling, Nobody, IInv, TypeOK
  <1>6. QED
    BY <1>1, <1>2, <1>3, <1>4, <1>5, TakeStep

-----------------------------------------------------------------------------
(* The handlers.  Whatever one decides, it says ok only of what it sent or *)
(* had nobody to send to, and then there is a row to record it in.         *)
LEMMA DecideStep ==
    ASSUME IInv, NEW i \in DOMAIN work, Taking(i),
           NEW result \in {"ok", "permanent", "transient"},
           NEW status \in (Marks \ {"pending"}) \cup {"none"},
           Decide(i, result, status),
           status # "none" => Records(work[i].key),
           result = "ok" =>
              /\ ~ NotFound(work[i].key)
              /\ status = IF Skipped(work[i].key) THEN "skipped"
                         ELSE StatusFor(work[i].key, "sent"),
           sent' = IF result = "ok" /\ ~ Skipped(work[i].key)
                   THEN [sent EXCEPT ![work[i].key] = @ + 1] ELSE sent
    PROVE  IInv'
  <1> DEFINE k == work[i].key
  <1>1. PICK pc \in {"record", "state"} :
            /\ pc = "record" <=> status # "none"
            /\ exec' = [exec EXCEPT !.pc = pc, !.todo = @ \ {i}, !.item = i,
                                    !.result = result, !.status = status]
    BY DEF Decide
  <1>2. UNCHANGED <<records, deliveries, work, lost, deaths>>
    BY DEF Decide
  <1>3. exec \in Cycles /\ exec.pc = "take" /\ i \in exec.todo /\ exec.who = "worker"
    BY CycleRuns DEF IInv, Taking, Holding
  <1>4. i \in Nat /\ k \in Keys /\ work[i].state = "pending"
        /\ \A j \in exec.todo : j \in DOMAIN work /\ work[j].state = "pending"
    BY <1>3, ItemFacts DEF IInv, CycleInv
  <1>5. /\ exec' \in Cycles /\ exec'.who = "worker" /\ exec'.pc = pc
        /\ exec'.todo = exec.todo \ {i} /\ exec'.item = i
        /\ exec'.result = result /\ exec'.status = status
    BY <1>1, <1>3, <1>4 DEF Cycles
  <1>6. sent' \in [Keys -> Nat] /\ \A q \in Keys : q # k => sent'[q] = sent[q]
    BY <1>4 DEF IInv, TypeOK
  <1>7. TypeOK'
    BY <1>2, <1>5, <1>6 DEF IInv, TypeOK, records
  <1>8. \A q : /\ Skipped(q)' <=> Skipped(q)
               /\ StatusFor(q, "sent")' = StatusFor(q, "sent")
               /\ Queued(work', q) <=> Queued(work, q)
    BY <1>2, SameFindings DEF StatusFor
  <1>9. Skipped(k) => Records(k)
    BY SkippedRecords
  <1>10. CycleInv'
    <2>1. Handled(k)'
      <3> SUFFICES ASSUME result = "ok"
                   PROVE  Handled(k)'
        BY <1>5 DEF Handled
      <3>1. Records(k) => Has(deliveries, k.subject)
        BY <1>4, FoundHasRow DEF IInv
      <3>2. pc = "state" => ~ Records(k)
        BY <1>1, <1>9 DEF StatusFor
      <3>3. QED
        BY <1>2, <1>5, <1>8, <3>1, <3>2 DEF Handled
    <2>2. Current' = work[i]
      BY <1>2, <1>5 DEF Current
    <2>3. QED
      BY <1>1, <1>2, <1>4, <1>5, <2>1, <2>2 DEF CycleInv, Handling
  <1>11. \A j : ~ InFlight(j) /\ ~ Uncounted(j)
    BY <1>3 DEF InFlight, Uncounted, Handling
  <1>12. /\ \A j : InFlight(j)' <=> j = i /\ result = "ok" /\ ~ Skipped(k)
         /\ \A j : Uncounted(j)' <=> j = i
         /\ ~ Handling({"attempts"})' /\ ~ Handling({"due"})'
    BY <1>5, <1>9 DEF InFlight, Uncounted, Handling, Unrecorded, StatusFor
  <1>13. Queued(work, k)
    BY DEF Queued
  <1>14. \A j \in DOMAIN work : work[j].key \in Keys /\ (j # i => work[j].key # k)
    BY ItemFacts DEF IInv, OneItemPerKey
  <1>15. sent[k] = lost[k] /\ sent[k] \in Nat /\ lost[k] \in Nat
         /\ (Skipped(k) => sent[k] = 0 /\ lost[k] = 0)
         /\ sent'[k] = IF result = "ok" /\ ~ Skipped(k) THEN sent[k] + 1 ELSE sent[k]
    BY <1>4, <1>11, ItemFacts DEF IInv, SentInv, TypeOK
  <1>16. SentInv'
    <2>1. \A q \in Keys : ~ Queued(work, q) => sent'[q] = 0 /\ lost[q] = 0
      BY <1>6, <1>13 DEF IInv, SentInv
    <2>2. ASSUME NEW j \in DOMAIN work
          PROVE  LET q == work[j].key IN
                 /\ Skipped(q) => sent'[q] = 0 /\ lost[q] = 0
                 /\ j = i /\ result = "ok" /\ ~ Skipped(k) => sent'[q] = lost[q] + 1
                 /\ work[j].state # "succeeded"
                       /\ ~ (j = i /\ result = "ok" /\ ~ Skipped(k)) => sent'[q] = lost[q]
      <3>1. CASE j = i
        BY <1>15, <3>1
      <3>2. CASE j # i
        BY <1>6, <1>11, <1>14, <3>2 DEF IInv, SentInv
      <3>3. QED
        BY <3>1, <3>2
    <2>3. QED
      BY <1>2, <1>8, <1>12, <2>1, <2>2 DEF SentInv
  <1>17. AttemptInv'
    <2>1. ASSUME NEW j \in DOMAIN work
          PROVE  /\ work[j].attempts <= MaxAttempts
                 /\ work[j].state = "pending" \/ j = i => work[j].attempts < MaxAttempts
                 /\ j # i => sent'[work[j].key] <= work[j].attempts + deaths
                 /\ j = i => sent'[work[j].key] <= work[j].attempts + deaths + 1
      <3>1. /\ work[j].attempts <= MaxAttempts
            /\ work[j].state = "pending" => work[j].attempts < MaxAttempts
            /\ sent[work[j].key] <= work[j].attempts + deaths
            /\ work[j].attempts \in Nat /\ sent[work[j].key] \in Nat /\ deaths \in Nat
        BY <1>11, ItemFacts DEF IInv, AttemptInv, TypeOK
      <3>2. CASE j = i
        BY <1>4, <1>15, <3>1, <3>2
      <3>3. CASE j # i
        BY <1>6, <1>14, <3>1, <3>3
      <3>4. QED
        BY <3>2, <3>3
    <2>2. QED
      BY <1>2, <1>12, <2>1 DEF AttemptInv
  <1>18. SucceededIsTrue'
    <2>1. \A j \in DOMAIN work : work[j].state = "succeeded" =>
              sent'[work[j].key] = sent[work[j].key]
      BY <1>4, <1>6, <1>14
    <2>2. QED
      BY <1>2, <1>8, <2>1 DEF IInv, SucceededIsTrue
  <1>19. OneItemPerKey' /\ HasItsRow'
    BY <1>2 DEF IInv, OneItemPerKey, HasItsRow
  <1>20. QED
    BY <1>7, <1>10, <1>16, <1>17, <1>18, <1>19 DEF IInv

LEMMA HandleStep ==
    ASSUME IInv, Handle
    PROVE  IInv'
  <1>1. PICK i \in DOMAIN work :
            \/ HandlerThrows(i) \/ Refuse(i) \/ Skip(i)
            \/ NotConfigured(i) \/ CannotRender(i) \/ MailFails(i) \/ Send(i)
    BY DEF Handle
  <1> DEFINE k == work[i].key
  <1>2. CASE HandlerThrows(i)
    BY <1>2, DecideStep DEF HandlerThrows
  <1>3. CASE Refuse(i)
    BY <1>3, DecideStep DEF Refuse
  <1>4. CASE Skip(i)
    <2>1. Records(k)
      BY <1>4, SkippedRecords DEF Skip
    <2>2. QED
      BY <1>4, <2>1, DecideStep DEF Skip, Marks
  <1>5. \A status \in Marks \ {"pending"} :
            /\ StatusFor(k, status) \in (Marks \ {"pending"}) \cup {"none"}
            /\ StatusFor(k, status) # "none" => Records(k)
    BY DEF StatusFor
  <1>6. CASE NotConfigured(i)
    BY <1>5, <1>6, DecideStep DEF NotConfigured, Marks
  <1>7. CASE CannotRender(i)
    BY <1>5, <1>7, DecideStep DEF CannotRender, Marks
  <1>8. CASE MailFails(i)
    BY <1>5, <1>8, DecideStep DEF MailFails, Marks
  <1>9. CASE Send(i)
    BY <1>5, <1>9, DecideStep DEF Send, Sendable, Marks
  <1>10. QED
    BY <1>1, <1>2, <1>3, <1>4, <1>6, <1>7, <1>8, <1>9

-----------------------------------------------------------------------------
(* Recording the outcome in the delivery row.                              *)

(* Writing the item's own field disturbs no item that is finished.         *)
LEMMA RecordKeepsOthers ==
    ASSUME IInv, Holding("record"),
           deliveries' \in {deliveries, SetDelivery(Current.key, exec.status)}
    PROVE  /\ IsDeliveries(deliveries')
           /\ \A j \in DOMAIN work :
                 LET q == work[j].key IN
                 work[j].state \in Terminal /\ Records(q) /\ Has(deliveries, q.subject) =>
                    Find(deliveries', q.subject)[Field(q)]
                        = Find(deliveries, q.subject)[Field(q)]
           /\ \A j \in DOMAIN work :
                 LET q == work[j].key IN
                 work[j].state = "succeeded" /\ Records(q) =>
                    Find(deliveries', q.subject)[Field(q)]
                        = Find(deliveries, q.subject)[Field(q)]
  <1>1. /\ exec \in Cycles /\ exec.who = "worker" /\ exec.pc = "record"
        /\ exec.item \in DOMAIN work
        /\ Current.state = "pending" /\ Records(Current.key) /\ exec.status # "none"
    BY CycleRuns DEF IInv, CycleInv, Holding, Handling
  <1>2. Current.key \in Keys /\ exec.status \in Marks
    BY <1>1, ItemFacts DEF IInv, Current, Cycles
  <1>3. IsDeliveries(deliveries)
    BY DEF IInv, TypeOK
  <1>4. ASSUME NEW j \in DOMAIN work, work[j].state \in Terminal
        PROVE  work[j].key \in Keys /\ work[j].key # Current.key
    <2>1. j # exec.item /\ work[j].key \in Keys
      BY <1>1, <1>4, ItemFacts DEF IInv, Current, Terminal
    <2>2. QED
      BY <1>1, <2>1 DEF IInv, OneItemPerKey, Current
  <1>5. \A j \in DOMAIN work : work[j].state = "succeeded" /\ Records(work[j].key) =>
            work[j].state \in Terminal /\ Has(deliveries, work[j].key.subject)
    BY <1>3, HasIs DEF IInv, HasItsRow, Terminal
  <1>6. QED
    BY <1>1, <1>2, <1>3, <1>4, <1>5, SetDeliveryIs

LEMMA RecordStep ==
    ASSUME IInv, Record
    PROVE  IInv'
  <1>1. /\ Holding("record") /\ exec' = [exec EXCEPT !.pc = "state"]
        /\ deliveries' = SetDelivery(Current.key, exec.status)
        /\ UNCHANGED <<records, work, sent, lost, deaths>>
    BY DEF Record, Goto
  <1>2. /\ exec \in Cycles /\ exec.who = "worker" /\ exec.pc = "record"
        /\ exec.item \in DOMAIN work /\ exec.item \notin exec.todo
        /\ Current.state = "pending" /\ Records(Current.key) /\ exec.status # "none"
        /\ Handled(Current.key)
        /\ \A i \in exec.todo : i \in DOMAIN work /\ work[i].state = "pending"
    BY <1>1, CycleRuns DEF IInv, CycleInv, Holding, Handling
  <1>3. /\ exec' \in Cycles /\ exec'.who = "worker" /\ exec'.pc = "state"
        /\ exec'.todo = exec.todo /\ exec'.item = exec.item
        /\ exec'.result = exec.result /\ exec'.status = exec.status
    BY <1>1, <1>2 DEF Cycles
  <1>4. /\ IsDeliveries(deliveries')
        /\ \A j \in DOMAIN work :
              LET q == work[j].key IN
              work[j].state = "succeeded" /\ Records(q) =>
                 Find(deliveries', q.subject)[Field(q)]
                     = Find(deliveries, q.subject)[Field(q)]
    BY <1>1, RecordKeepsOthers
  <1>5. TypeOK'
    BY <1>1, <1>3, <1>4 DEF IInv, TypeOK, records
  <1>6. \A q : /\ Skipped(q)' <=> Skipped(q)
               /\ StatusFor(q, "sent")' = StatusFor(q, "sent")
    BY <1>1, SameFindings DEF StatusFor
  <1>7. Current' = Current
    BY <1>1, <1>3 DEF Current
  <1>8. Handled(Current.key)'
    <2> DEFINE k == Current.key
    <2> SUFFICES ASSUME exec.result = "ok"
                 PROVE  Handled(k)'
      BY <1>3 DEF Handled
    <2>1. k \in Keys /\ exec.status \in Marks /\ IsDeliveries(deliveries)
      BY <1>2, ItemFacts DEF IInv, TypeOK, Current, Cycles
    <2>2. /\ exec.status = IF Skipped(k) THEN "skipped" ELSE StatusFor(k, "sent")
          /\ Has(deliveries, k.subject)
      BY <1>2 DEF Handled
    <2>3. Has(deliveries', k.subject)
      BY <1>4, <2>1, <2>2, HasIs
    <2>4. Find(deliveries', k.subject)[Field(k)] = exec.status
      BY <1>1, <1>2, <2>1, <2>2, SetDeliveryIs
    <2>5. QED
      BY <1>3, <1>6, <1>7, <2>2, <2>3, <2>4 DEF Handled
  <1>9. CycleInv'
    BY <1>1, <1>2, <1>3, <1>7, <1>8 DEF CycleInv, Handling
  <1>10. \A i : /\ InFlight(i)' <=> InFlight(i)
                /\ Uncounted(i)' <=> Uncounted(i)
    BY <1>2, <1>3 DEF InFlight, Uncounted, Handling, Unrecorded
  <1>11. ~ Handling({"attempts"})' /\ ~ Handling({"due"})'
    BY <1>3 DEF Handling
  <1>12. SentInv'
    BY <1>1, <1>6, <1>10 DEF IInv, SentInv
  <1>13. AttemptInv'
    BY <1>1, <1>10, <1>11 DEF IInv, AttemptInv
  <1>14. SucceededIsTrue'
    BY <1>1, <1>4, <1>6 DEF IInv, SucceededIsTrue
  <1>15. OneItemPerKey' /\ HasItsRow'
    BY <1>1 DEF IInv, OneItemPerKey, HasItsRow
  <1>16. QED
    BY <1>5, <1>9, <1>12, <1>13, <1>14, <1>15 DEF IInv

(* What a death, or a failure to record, does to the count of lost mails.  *)
LEMMA LosingIs ==
    ASSUME IInv, exec.who = "worker", Losing
    PROVE  /\ lost' \in [Keys -> Nat]
           /\ \A q \in Keys : ~ Queued(work, q) => lost'[q] = lost[q]
           /\ \A i \in DOMAIN work :
                 /\ InFlight(i) => lost'[work[i].key] = lost[work[i].key] + 1
                 /\ ~ InFlight(i) => lost'[work[i].key] = lost[work[i].key]
  <1>1. lost \in [Keys -> Nat]
    BY DEF IInv, TypeOK
  <1>2. CASE ~ Unrecorded
    BY <1>1, <1>2 DEF Losing, InFlight
  <1>3. CASE Unrecorded
    <2> DEFINE n == exec.item
               k == work[n].key
    <2>1. n \in DOMAIN work /\ \A i : InFlight(i) <=> i = n
      BY <1>3 DEF IInv, CycleInv, Handling, InFlight, Unrecorded
    <2>2. k \in Keys /\ lost[k] \in Nat /\ Queued(work, k)
      BY <2>1, ItemFacts DEF IInv, Queued
    <2>3. lost' = [lost EXCEPT ![k] = @ + 1]
      BY <1>3 DEF Losing, Current
    <2>4. /\ lost' \in [Keys -> Nat] /\ lost'[k] = lost[k] + 1
          /\ \A q \in Keys : q # k => lost'[q] = lost[q]
      BY <1>1, <2>2, <2>3
    <2>5. \A i \in DOMAIN work : i # n => work[i].key \in Keys /\ work[i].key # k
      BY <2>1, ItemFacts DEF IInv, OneItemPerKey
    <2>6. QED
      BY <2>1, <2>2, <2>4, <2>5
  <1>4. QED
    BY <1>2, <1>3

LEMMA RecordThrowsStep ==
    ASSUME IInv, RecordThrows
    PROVE  IInv'
  <1>1. /\ Holding("record") /\ Losing
        /\ exec' = [exec EXCEPT !.pc = "state", !.result = "transient"]
        /\ deliveries' \in {deliveries, SetDelivery(Current.key, exec.status)}
        /\ UNCHANGED <<records, work, sent, deaths>>
    BY DEF RecordThrows
  <1>2. /\ exec \in Cycles /\ exec.who = "worker" /\ exec.pc = "record"
        /\ exec.item \in DOMAIN work /\ exec.item \notin exec.todo
        /\ Current.state = "pending"
        /\ \A i \in exec.todo : i \in DOMAIN work /\ work[i].state = "pending"
    BY <1>1, CycleRuns DEF IInv, CycleInv, Holding, Handling
  <1>3. /\ exec' \in Cycles /\ exec'.who = "worker" /\ exec'.pc = "state"
        /\ exec'.todo = exec.todo /\ exec'.item = exec.item
        /\ exec'.result = "transient"
    BY <1>1, <1>2 DEF Cycles
  <1>4. /\ IsDeliveries(deliveries')
        /\ \A j \in DOMAIN work :
              LET q == work[j].key IN
              work[j].state = "succeeded" /\ Records(q) =>
                 Find(deliveries', q.subject)[Field(q)]
                     = Find(deliveries, q.subject)[Field(q)]
    BY <1>1, RecordKeepsOthers
  <1>5. /\ lost' \in [Keys -> Nat]
        /\ \A q \in Keys : ~ Queued(work, q) => lost'[q] = lost[q]
        /\ \A i \in DOMAIN work :
              /\ InFlight(i) => lost'[work[i].key] = lost[work[i].key] + 1
              /\ ~ InFlight(i) => lost'[work[i].key] = lost[work[i].key]
    BY <1>1, <1>2, LosingIs
  <1>6. TypeOK'
    BY <1>1, <1>3, <1>4, <1>5 DEF IInv, TypeOK, records
  <1>7. \A q : Skipped(q)' <=> Skipped(q)
    BY <1>1, SameFindings
  <1>8. CycleInv'
    <2>1. Current' = Current
      BY <1>1, <1>3 DEF Current
    <2>2. Handled(Current.key)'
      BY <1>3 DEF Handled
    <2>3. QED
      BY <1>1, <1>2, <1>3, <2>1, <2>2 DEF CycleInv, Handling
  <1>9. /\ \A i : ~ InFlight(i)' /\ (Uncounted(i)' <=> Uncounted(i))
        /\ ~ Handling({"attempts"})' /\ ~ Handling({"due"})'
    BY <1>2, <1>3 DEF InFlight, Uncounted, Handling, Unrecorded
  <1>10. \A i \in DOMAIN work :
            /\ InFlight(i) => /\ sent[work[i].key] = lost[work[i].key] + 1
                              /\ ~ Skipped(work[i].key) /\ work[i].state = "pending"
    <2> SUFFICES ASSUME NEW i \in DOMAIN work, InFlight(i)
                 PROVE  /\ sent[work[i].key] = lost[work[i].key] + 1
                        /\ ~ Skipped(work[i].key) /\ work[i].state = "pending"
      OBVIOUS
    <2>1. sent[work[i].key] = lost[work[i].key] + 1 /\ lost[work[i].key] \in Nat
      BY ItemFacts DEF IInv, SentInv
    <2>2. ~ Skipped(work[i].key)
      BY <2>1 DEF IInv, SentInv
    <2>3. QED
      BY <1>2, <2>1, <2>2 DEF InFlight, Current
  <1>11. SentInv'
    <2>1. ASSUME NEW i \in DOMAIN work
          PROVE  LET q == work[i].key IN
                 /\ Skipped(q) => sent[q] = 0 /\ lost'[q] = 0
                 /\ work[i].state # "succeeded" => sent[q] = lost'[q]
      BY <1>5, <1>10 DEF IInv, SentInv
    <2>2. QED
      BY <1>1, <1>5, <1>7, <1>9, <2>1 DEF IInv, SentInv
  <1>12. AttemptInv'
    BY <1>1, <1>9 DEF IInv, AttemptInv
  <1>13. SucceededIsTrue'
    <2>1. \A i \in DOMAIN work : work[i].state = "succeeded" =>
             lost'[work[i].key] = lost[work[i].key]
      BY <1>5, <1>10
    <2>2. QED
      BY <1>1, <1>4, <1>7, <2>1 DEF IInv, SucceededIsTrue
  <1>14. OneItemPerKey' /\ HasItsRow'
    BY <1>1 DEF IInv, OneItemPerKey, HasItsRow
  <1>15. QED
    BY <1>6, <1>8, <1>11, <1>12, <1>13, <1>14 DEF IInv

-----------------------------------------------------------------------------
(* Marking the item, cell by cell.                                         *)

LEMMA MarkShape ==
    ASSUME IInv, NEW pc \in {"state", "attempts", "due", "done"}, NEW item \in Items,
           Mark(pc, item), item.key = Current.key
    PROVE  /\ exec \in Cycles /\ exec.who = "worker" /\ exec.pc = pc
           /\ exec.item \in DOMAIN work /\ exec.item \notin exec.todo
           /\ UNCHANGED <<records, deliveries, sent, lost, deaths>>
           /\ \A i \in exec.todo : i \in DOMAIN work /\ work[i].state = "pending"
           /\ work' \in Seq(Items) /\ DOMAIN work' = DOMAIN work
           /\ work'[exec.item] = item
           /\ \A i \in DOMAIN work : /\ i # exec.item => work'[i] = work[i]
                                    /\ work'[i].key = work[i].key
  <1>1. /\ Holding(pc) /\ work' = [work EXCEPT ![exec.item] = item]
        /\ UNCHANGED <<records, deliveries, sent, lost, deaths>>
    BY DEF Mark
  <1>2. /\ exec \in Cycles /\ exec.who = "worker" /\ exec.pc = pc
        /\ exec.item \in DOMAIN work /\ exec.item \notin exec.todo
        /\ \A i \in exec.todo : i \in DOMAIN work /\ work[i].state = "pending"
    BY <1>1, CycleRuns DEF IInv, CycleInv, Holding, Handling
  <1>3. work \in Seq(Items)
    BY DEF IInv, TypeOK
  <1>4. QED
    BY <1>1, <1>2, <1>3 DEF Current

(* The pass to the next cell of the same item.                             *)
LEMMA GotoIs ==
    ASSUME exec \in Cycles, NEW pc \in {"attempts", "due", "done"}, Goto(pc)
    PROVE  /\ exec' \in Cycles /\ exec'.who = "worker" /\ exec'.pc = pc
           /\ exec'.todo = exec.todo /\ exec'.item = exec.item
  BY DEF Goto, Cycles

LEMMA MarkStateStep ==
    ASSUME IInv, MarkState
    PROVE  IInv'
  <1> DEFINE n == exec.item
             k == Current.key
             next == NextWorkState(Current, exec.result)
             item == [Current EXCEPT !.state = next]
  <1>1. Mark("state", item) /\ Goto("attempts")
    BY DEF MarkState
  <1>2. /\ exec \in Cycles /\ exec.who = "worker" /\ exec.pc = "state" /\ n \in DOMAIN work
        /\ Current.state = "pending" /\ Handled(k)
    BY <1>1, CycleRuns DEF IInv, CycleInv, Handling, Mark, Holding
  <1>3. Current \in Items /\ k \in Keys /\ Current.attempts \in Nat /\ MaxAttempts \in Nat
    BY <1>2, ItemFacts, WorkerAssumption DEF IInv, Current
  <1>4. /\ exec.result = "ok" <=> next = "succeeded"
        /\ next = "pending" => Current.attempts + 1 < MaxAttempts
        /\ next \in {"pending", "succeeded", "abandoned"}
    BY <1>2, <1>3 DEF NextWorkState, Cycles
  <1> HIDE DEF next
  <1>5. /\ item \in Items /\ item.key = k /\ item.attempts = Current.attempts
        /\ item.state = next
    BY <1>3, <1>4 DEF Items
  <1> HIDE DEF item
  <1>6. /\ exec.item \notin exec.todo
        /\ UNCHANGED <<records, deliveries, sent, lost, deaths>>
        /\ \A i \in exec.todo : i \in DOMAIN work /\ work[i].state = "pending"
        /\ work' \in Seq(Items) /\ DOMAIN work' = DOMAIN work
        /\ work'[n] = item
        /\ \A i \in DOMAIN work : (i # n => work'[i] = work[i]) /\ work'[i].key = work[i].key
    BY <1>1, <1>5, MarkShape
  <1>7. /\ exec' \in Cycles /\ exec'.who = "worker" /\ exec'.pc = "attempts"
        /\ exec'.todo = exec.todo /\ exec'.item = n
    BY <1>1, <1>2, GotoIs
  <1>8. TypeOK'
    BY <1>6, <1>7 DEF IInv, TypeOK, records
  <1>9. OneItemPerKey'
    BY <1>6 DEF IInv, OneItemPerKey
  <1>10. CycleInv'
    BY <1>2, <1>6, <1>7 DEF CycleInv, Handling
  <1>11. \A q : (Skipped(q)' <=> Skipped(q)) /\ (Queued(work', q) <=> Queued(work, q))
    BY <1>6, SameFindings DEF Queued
  <1>12. /\ \A i : ~ InFlight(i)' /\ (Uncounted(i)' <=> Uncounted(i))
         /\ Handling({"attempts"})' /\ ~ Handling({"due"})'
    BY <1>2, <1>7 DEF InFlight, Uncounted, Handling, Unrecorded
  <1>13. \A i : InFlight(i) <=> i = n /\ exec.result = "ok" /\ exec.status # "skipped"
    BY <1>2 DEF InFlight, Handling, Unrecorded
  <1>14. exec.result = "ok" => (InFlight(n) <=> ~ Skipped(k))
    BY <1>2, <1>13 DEF Handled, StatusFor
  <1>15. work[n] = Current
    BY DEF Current
  <1>16. SentInv'
    <2>1. ASSUME NEW i \in DOMAIN work
          PROVE  LET q == work[i].key IN
                 /\ Skipped(q) => sent[q] = 0 /\ lost[q] = 0
                 /\ work'[i].state # "succeeded" => sent[q] = lost[q]
      <3>1. CASE i = n
        BY <1>2, <1>4, <1>5, <1>6, <1>13, <1>15, <3>1 DEF IInv, SentInv
      <3>2. CASE i # n
        BY <1>6, <1>13, <3>2 DEF IInv, SentInv
      <3>3. QED
        BY <3>1, <3>2
    <2>2. QED
      BY <1>6, <1>11, <1>12, <2>1 DEF IInv, SentInv
  <1>17. HasItsRow'
    <2>1. exec.result = "ok" /\ Records(k) => Has(Audit, k.subject)
      BY <1>2, HasIs DEF Handled, IInv, TypeOK
    <2>2. QED
      BY <1>4, <1>5, <1>6, <2>1 DEF IInv, HasItsRow
  <1>18. AttemptInv'
    <2>1. ASSUME NEW i \in DOMAIN work
          PROVE  /\ work'[i].attempts <= MaxAttempts
                 /\ work'[i].state = "pending" \/ Uncounted(i) => work'[i].attempts < MaxAttempts
                 /\ i = n /\ work'[i].state = "pending" => work'[i].attempts + 1 < MaxAttempts
                 /\ ~ Uncounted(i) => sent[work[i].key] <= work'[i].attempts + deaths
                 /\ Uncounted(i) => sent[work[i].key] <= work'[i].attempts + deaths + 1
      <3>1. Uncounted(i) <=> i = n
        BY <1>2 DEF Uncounted, Handling
      <3>2. CASE i = n
        BY <1>4, <1>5, <1>6, <1>15, <3>1, <3>2 DEF IInv, AttemptInv
      <3>3. CASE i # n
        BY <1>6, <3>1, <3>3 DEF IInv, AttemptInv
      <3>4. QED
        BY <3>2, <3>3
    <2>2. QED
      BY <1>6, <1>7, <1>12, <2>1 DEF AttemptInv
  <1>19. SucceededIsTrue'
    <2>1. ASSUME NEW i \in DOMAIN work, work'[i].state = "succeeded"
          PROVE  LET q == work[i].key IN
                 /\ sent[q] = IF Skipped(q) THEN 0 ELSE lost[q] + 1
                 /\ Records(q) => Find(deliveries, q.subject)[Field(q)] =
                                      IF Skipped(q) THEN "skipped" ELSE "sent"
      <3>1. CASE i = n
        <4>1. exec.result = "ok"
          BY <1>4, <1>5, <1>6, <2>1, <3>1
        <4>2. sent[k] = IF Skipped(k) THEN 0 ELSE lost[k] + 1
          BY <1>2, <1>14, <1>15, <4>1 DEF IInv, SentInv
        <4>3. Records(k) => Find(deliveries, k.subject)[Field(k)] =
                                IF Skipped(k) THEN "skipped" ELSE "sent"
          BY <1>2, <4>1 DEF Handled, StatusFor
        <4>4. QED
          BY <1>15, <3>1, <4>2, <4>3
      <3>2. CASE i # n
        BY <1>6, <2>1, <3>2 DEF IInv, SucceededIsTrue
      <3>3. QED
        BY <3>1, <3>2
    <2>2. deliveries' = deliveries /\ sent' = sent /\ lost' = lost
      BY <1>6
    <2>3. QED
      BY <1>6, <1>11, <2>1, <2>2 DEF SucceededIsTrue
  <1>20. QED
    BY <1>8, <1>9, <1>10, <1>16, <1>17, <1>18, <1>19 DEF IInv

(* Steps that change only the counters of the item in hand.                *)
LEMMA MarkAttemptsStep ==
    ASSUME IInv, MarkAttempts
    PROVE  IInv'
  <1> DEFINE n == exec.item
             item == [Current EXCEPT !.attempts = @ + 1]
  <1>1. Mark("attempts", item) /\ Goto("due")
    BY DEF MarkAttempts
  <1>2. exec \in Cycles /\ exec.who = "worker" /\ exec.pc = "attempts" /\ n \in DOMAIN work
    BY <1>1, CycleRuns DEF IInv, CycleInv, Handling, Mark, Holding
  <1>3. Current \in Items /\ Current.attempts \in Nat
    BY <1>2, ItemFacts DEF IInv, Current
  <1>4. /\ item \in Items /\ item.key = Current.key /\ item.state = Current.state
        /\ item.attempts = Current.attempts + 1
    BY <1>3 DEF Items
  <1> HIDE DEF item
  <1>5. /\ exec.item \notin exec.todo
        /\ UNCHANGED <<records, deliveries, sent, lost, deaths>>
        /\ \A i \in exec.todo : i \in DOMAIN work /\ work[i].state = "pending"
        /\ work' \in Seq(Items) /\ DOMAIN work' = DOMAIN work
        /\ work'[n] = item
        /\ \A i \in DOMAIN work : (i # n => work'[i] = work[i]) /\ work'[i].key = work[i].key
    BY <1>1, <1>4, MarkShape
  <1>6. /\ exec' \in Cycles /\ exec'.who = "worker" /\ exec'.pc = "due"
        /\ exec'.todo = exec.todo /\ exec'.item = n
    BY <1>1, <1>2, GotoIs
  <1>7. work[n] = Current /\ \A i \in DOMAIN work : work'[i].state = work[i].state
    BY <1>4, <1>5 DEF Current
  <1>8. TypeOK' /\ CycleInv'
    <2>1. TypeOK'
      BY <1>5, <1>6 DEF IInv, TypeOK, records
    <2>2. \A i \in exec'.todo : i \in DOMAIN work' /\ work'[i].state = "pending"
      BY <1>5, <1>6, <1>7
    <2>3. ~ Handling({"record", "state"})' /\ ~ Handling({"record"})'
      BY <1>6 DEF Handling
    <2>4. exec'.item \in DOMAIN work' /\ exec'.item \notin exec'.todo
      BY <1>2, <1>5, <1>6
    <2>5. CycleInv'
      BY <2>2, <2>3, <2>4 DEF CycleInv
    <2>6. QED
      BY <2>1, <2>5
  <1>9. OneItemPerKey' /\ HasItsRow'
    BY <1>5, <1>7 DEF IInv, OneItemPerKey, HasItsRow
  <1>10. \A q : (Skipped(q)' <=> Skipped(q)) /\ (Queued(work', q) <=> Queued(work, q))
    BY <1>5, SameFindings DEF Queued
  <1>11. /\ \A i : ~ InFlight(i)' /\ ~ InFlight(i) /\ ~ Uncounted(i)'
         /\ \A i : Uncounted(i) <=> i = n
         /\ ~ Handling({"attempts"})' /\ Handling({"attempts"})
    BY <1>2, <1>6 DEF InFlight, Uncounted, Handling
  <1>12. SentInv'
    BY <1>5, <1>7, <1>10, <1>11 DEF IInv, SentInv
  <1>13. AttemptInv'
    <2>1. ASSUME NEW i \in DOMAIN work
          PROVE  /\ work'[i].attempts <= MaxAttempts
                 /\ work'[i].state = "pending" => work'[i].attempts < MaxAttempts
                 /\ i = n => work'[i].attempts > 0
                 /\ sent[work[i].key] <= work'[i].attempts + deaths
      <3>1. CASE i = n
        <4>1. /\ Current.attempts < MaxAttempts
              /\ Current.state = "pending" => Current.attempts + 1 < MaxAttempts
              /\ sent[work[n].key] <= Current.attempts + deaths + 1
          BY <1>2, <1>7, <1>11 DEF IInv, AttemptInv
        <4>2. /\ sent[work[n].key] \in Nat /\ deaths \in Nat /\ MaxAttempts \in Nat
          BY <1>2, ItemFacts, WorkerAssumption DEF IInv, TypeOK
        <4>3. QED
          BY <1>3, <1>4, <1>5, <3>1, <4>1, <4>2
      <3>2. CASE i # n
        BY <1>5, <1>11, <3>2 DEF IInv, AttemptInv
      <3>3. QED
        BY <3>1, <3>2
    <2>2. QED
      BY <1>5, <1>6, <1>11, <2>1 DEF AttemptInv
  <1>14. SucceededIsTrue'
    BY <1>5, <1>7, <1>10 DEF IInv, SucceededIsTrue
  <1>15. QED
    BY <1>8, <1>9, <1>12, <1>13, <1>14 DEF IInv

LEMMA MarkDueStep ==
    ASSUME IInv, MarkDue
    PROVE  IInv'
  <1> DEFINE n == exec.item
             wait == IF Current.state = "pending" THEN Backoff[Current.attempts] ELSE 0
             item == [Current EXCEPT !.wait = wait]
  <1>1. Mark("due", item) /\ Goto("done")
    BY DEF MarkDue
  <1>2. exec \in Cycles /\ exec.who = "worker" /\ exec.pc = "due" /\ n \in DOMAIN work
    BY <1>1, CycleRuns DEF IInv, CycleInv, Handling, Mark, Holding
  <1>3. Current \in Items /\ Current.attempts \in Nat
    BY <1>2, ItemFacts DEF IInv, Current
  <1>4. wait \in Nat
    <2>1. Current.attempts > 0 /\ Current.attempts <= MaxAttempts
      BY <1>2 DEF IInv, AttemptInv, Handling, Current
    <2>2. QED
      BY <1>3, <2>1, WorkerAssumption
  <1> HIDE DEF wait
  <1>5. /\ item \in Items /\ item.key = Current.key /\ item.state = Current.state
        /\ item.attempts = Current.attempts
    BY <1>3, <1>4 DEF Items
  <1> HIDE DEF item
  <1>6. /\ exec.item \notin exec.todo
        /\ UNCHANGED <<records, deliveries, sent, lost, deaths>>
        /\ \A i \in exec.todo : i \in DOMAIN work /\ work[i].state = "pending"
        /\ work' \in Seq(Items) /\ DOMAIN work' = DOMAIN work
        /\ work'[n] = item
        /\ \A i \in DOMAIN work : (i # n => work'[i] = work[i]) /\ work'[i].key = work[i].key
    BY <1>1, <1>5, MarkShape
  <1>7. /\ exec' \in Cycles /\ exec'.who = "worker" /\ exec'.pc = "done"
        /\ exec'.todo = exec.todo /\ exec'.item = n
    BY <1>1, <1>2, GotoIs
  <1>8. \A i \in DOMAIN work : work'[i].state = work[i].state /\ work'[i].attempts = work[i].attempts
    BY <1>5, <1>6 DEF Current
  <1>9. TypeOK' /\ CycleInv'
    <2>1. TypeOK'
      BY <1>6, <1>7 DEF IInv, TypeOK, records
    <2>2. \A i \in exec'.todo : i \in DOMAIN work' /\ work'[i].state = "pending"
      BY <1>6, <1>7, <1>8
    <2>3. ~ Handling({"record", "state"})' /\ ~ Handling({"record"})'
      BY <1>7 DEF Handling
    <2>4. exec'.item \in DOMAIN work' /\ exec'.item \notin exec'.todo
      BY <1>2, <1>6, <1>7
    <2>5. CycleInv'
      BY <2>2, <2>3, <2>4 DEF CycleInv
    <2>6. QED
      BY <2>1, <2>5
  <1>10. OneItemPerKey' /\ HasItsRow'
    BY <1>6, <1>8 DEF IInv, OneItemPerKey, HasItsRow
  <1>11. \A q : (Skipped(q)' <=> Skipped(q)) /\ (Queued(work', q) <=> Queued(work, q))
    BY <1>6, SameFindings DEF Queued
  <1>12. /\ \A i : /\ ~ InFlight(i)' /\ ~ InFlight(i)
                   /\ ~ Uncounted(i)' /\ ~ Uncounted(i)
         /\ ~ Handling({"attempts"})' /\ ~ Handling({"due"})'
    BY <1>2, <1>7 DEF InFlight, Uncounted, Handling
  <1>13. SentInv'
    BY <1>6, <1>8, <1>11, <1>12 DEF IInv, SentInv
  <1>14. AttemptInv'
    BY <1>6, <1>8, <1>12 DEF IInv, AttemptInv
  <1>15. SucceededIsTrue'
    BY <1>6, <1>8, <1>11 DEF IInv, SucceededIsTrue
  <1>16. QED
    BY <1>9, <1>10, <1>13, <1>14, <1>15 DEF IInv

LEMMA MarkDoneStep ==
    ASSUME IInv, MarkDone
    PROVE  IInv'
  <1> DEFINE n == exec.item
             age == IF Current.state = "pending" THEN NotCompleted ELSE 1
             item == [Current EXCEPT !.age = age]
  <1>1. Mark("done", item) /\ exec' = Claimed(exec.config, exec.todo)
    BY DEF MarkDone
  <1>2. exec \in Cycles /\ exec.who = "worker" /\ exec.pc = "done" /\ n \in DOMAIN work
    BY <1>1, CycleRuns DEF IInv, CycleInv, Handling, Mark, Holding
  <1>3. Current \in Items
    BY <1>2, ItemFacts DEF IInv, Current
  <1>4. age \in Nat
    BY DEF NotCompleted
  <1> HIDE DEF age
  <1>5. /\ item \in Items /\ item.key = Current.key /\ item.state = Current.state
        /\ item.attempts = Current.attempts
    BY <1>3, <1>4 DEF Items
  <1> HIDE DEF item
  <1>6. /\ UNCHANGED <<records, deliveries, sent, lost, deaths>>
        /\ \A i \in exec.todo : i \in DOMAIN work /\ work[i].state = "pending"
        /\ work' \in Seq(Items) /\ DOMAIN work' = DOMAIN work
        /\ work'[n] = item
        /\ \A i \in DOMAIN work : (i # n => work'[i] = work[i]) /\ work'[i].key = work[i].key
    BY <1>1, <1>5, MarkShape
  <1>7. \A i \in DOMAIN work : work'[i].state = work[i].state /\ work'[i].attempts = work[i].attempts
    BY <1>5, <1>6 DEF Current
  <1>8. exec.config \in SUBSET Purposes /\ ~ Handling({"record", "state", "attempts"})
    BY <1>2 DEF Cycles, Handling
  <1>9. QED
    BY <1>1, <1>6, <1>7, <1>8, TakeStep

-----------------------------------------------------------------------------
(* The theorems.                                                           *)

LEMMA InitIInv == Init => IInv
  <1> SUFFICES ASSUME Init PROVE IInv
    OBVIOUS
  <1>1. work = <<>> /\ exec = Nobody /\ DOMAIN work = {}
    BY DEF Init
  <1>2. TypeOK
    <2>1. IsDeliveries(deliveries)
      BY DEF Init, IsDeliveries, DeliveryRows, AuditIds, Marks
    <2>2. QED
      BY <2>1 DEF Init, TypeOK
  <1>3. OneItemPerKey /\ HasItsRow
    BY <1>1 DEF OneItemPerKey, HasItsRow
  <1>4. CycleInv
    BY <1>1 DEF CycleInv, Handling, Nobody
  <1>5. SentInv
    BY <1>1 DEF Init, SentInv
  <1>6. AttemptInv /\ SucceededIsTrue
    BY <1>1 DEF AttemptInv, SucceededIsTrue
  <1>7. QED
    BY <1>2, <1>3, <1>4, <1>5, <1>6 DEF IInv

LEMMA StutterStep ==
    ASSUME IInv, UNCHANGED vars
    PROVE  IInv'
  <1>1. UNCHANGED <<submissions, leads, deliveries, work, exec, sent, lost, deaths>>
    BY DEF vars
  <1>2. UNCHANGED records
    BY <1>1 DEF records
  <1>3. /\ \A pcs : Handling(pcs)' <=> Handling(pcs)
        /\ \A q : (Skipped(q)' <=> Skipped(q)) /\ (StatusFor(q, "sent")' = StatusFor(q, "sent"))
        /\ (Unrecorded)' <=> Unrecorded
        /\ \A i : InFlight(i)' <=> InFlight(i)
        /\ \A i : Uncounted(i)' <=> Uncounted(i)
        /\ Current' = Current
    BY <1>1, <1>2, SameFindings
       DEF Handling, StatusFor, Unrecorded, InFlight, Uncounted, Current
  <1>4. TypeOK' /\ OneItemPerKey' /\ HasItsRow'
    BY <1>1 DEF IInv, TypeOK, OneItemPerKey, HasItsRow
  <1>5. CycleInv'
    BY <1>1, <1>3 DEF IInv, CycleInv, Handled
  <1>6. SentInv' /\ AttemptInv' /\ SucceededIsTrue'
    BY <1>1, <1>3 DEF IInv, SentInv, AttemptInv, SucceededIsTrue
  <1>7. QED
    BY <1>4, <1>5, <1>6 DEF IInv

LEMMA NextIInv == IInv /\ [Next]_vars => IInv'
  <1> SUFFICES ASSUME IInv, [Next]_vars PROVE IInv'
    OBVIOUS
  <1>1. ASSUME NEW k \in Keys, Arrive(k) PROVE IInv'
    BY <1>1, ArriveStep
  <1>2. CASE Tick
    BY <1>2, TickStep
  <1>3. CASE StartCycle
    BY <1>3, StartCycleStep
  <1>4. CASE Handle
    BY <1>4, HandleStep
  <1>5. CASE Record
    BY <1>5, RecordStep
  <1>6. CASE RecordThrows
    BY <1>6, RecordThrowsStep
  <1>7. CASE MarkState
    BY <1>7, MarkStateStep
  <1>8. CASE MarkAttempts
    BY <1>8, MarkAttemptsStep
  <1>9. CASE MarkDue
    BY <1>9, MarkDueStep
  <1>10. CASE MarkDone
    BY <1>10, MarkDoneStep
  <1>11. CASE Finish
    BY <1>11, FinishStep
  <1>12. CASE CycleDies
    BY <1>12, CycleDiesStep
  <1>13. CASE UNCHANGED vars
    BY <1>13, StutterStep
  <1>14. QED
    BY <1>1, <1>2, <1>3, <1>4, <1>5, <1>6, <1>7, <1>8, <1>9, <1>10, <1>11, <1>12, <1>13
       DEF Next, Cycle

(* The inductive invariant holds in every reachable state of the worker.   *)
THEOREM InductiveInvariant == Spec => []IInv
  BY InitIInv, NextIInv, PTL DEF Spec

(* A mail goes out twice only when the outcome of an earlier one was lost, *)
(* and attempts and deaths bound how often (runWorkerCycle, processItem).  *)
THEOREM WorkerDuplicatesOnlyFromLoss == Spec => []DuplicatesOnlyFromLoss
  <1>1. ASSUME IInv PROVE DuplicatesOnlyFromLoss
    <2>1. ASSUME NEW k \in Keys
          PROVE  sent[k] <= 1 + lost[k] /\ sent[k] <= MaxAttempts + deaths
      <3>1. sent[k] \in Nat /\ lost[k] \in Nat /\ deaths \in Nat /\ MaxAttempts \in Nat
        BY <1>1, WorkerAssumption DEF IInv, TypeOK
      <3>2. CASE ~ Queued(work, k)
        BY <1>1, <3>1, <3>2 DEF IInv, SentInv
      <3>3. CASE Queued(work, k)
        <4>1. PICK i \in DOMAIN work : work[i].key = k
          BY <3>3 DEF Queued
        <4>2. sent[k] = lost[k] \/ sent[k] = lost[k] + 1
          <5>1. CASE work[i].state = "succeeded"
            <6>1. sent[k] = IF Skipped(k) THEN 0 ELSE lost[k] + 1
              BY <1>1, <4>1, <5>1 DEF IInv, SucceededIsTrue
            <6>2. Skipped(k) => sent[k] = 0 /\ lost[k] = 0
              BY <1>1, <4>1 DEF IInv, SentInv
            <6>3. QED
              BY <6>1, <6>2
          <5>2. CASE work[i].state # "succeeded"
            BY <1>1, <4>1, <5>2 DEF IInv, SentInv
          <5>3. QED
            BY <5>1, <5>2
        <4>3. /\ work[i].attempts \in Nat /\ work[i].attempts <= MaxAttempts
              /\ Uncounted(i) => work[i].attempts < MaxAttempts
              /\ ~ Uncounted(i) => sent[k] <= work[i].attempts + deaths
              /\ Uncounted(i) => sent[k] <= work[i].attempts + deaths + 1
          BY <1>1, <4>1, ItemFacts DEF IInv, AttemptInv
        <4>4. sent[k] <= MaxAttempts + deaths
          BY <3>1, <4>3
        <4>5. QED
          BY <3>1, <4>2, <4>4
      <3>4. QED
        BY <3>2, <3>3
    <2>2. ASSUME NEW i \in DOMAIN work, work[i].state = "abandoned"
          PROVE  sent[work[i].key] = lost[work[i].key]
      <3>1. ~ InFlight(i)
        BY <1>1, <2>2 DEF IInv, CycleInv, InFlight, Current
      <3>2. QED
        BY <1>1, <2>2, <3>1 DEF IInv, SentInv
    <2>3. QED
      BY <2>1, <2>2 DEF DuplicatesOnlyFromLoss
  <1>2. QED
    BY <1>1, InductiveInvariant, PTL

(* An item that says succeeded was sent, or had nobody to be sent to, and  *)
(* its delivery row says which (the handlers and markSucceeded).           *)
THEOREM WorkerSucceededIsTrue == Spec => []SucceededIsTrue
  <1>1. IInv => SucceededIsTrue
    BY DEF IInv
  <1>2. QED
    BY <1>1, InductiveInvariant, PTL

-----------------------------------------------------------------------------
(* A finished item stays as it is.                                         *)

Untouched(i) ==
    LET k == work[i].key IN
    /\ work'[i].state = work[i].state
    /\ sent'[k] = sent[k]
    /\ Records(k) /\ Has(deliveries, k.subject) =>
          Find(deliveries', k.subject)[Field(k)] = Find(deliveries, k.subject)[Field(k)]

(* The outcome of the handler is another item's, one that was pending.     *)
LEMMA HandleLeavesFinished ==
    ASSUME IInv, Handle, NEW i \in DOMAIN work, work[i].state \in Terminal
    PROVE  Untouched(i)
  <1>1. PICK j \in DOMAIN work :
            \/ HandlerThrows(j) \/ Refuse(j) \/ Skip(j)
            \/ NotConfigured(j) \/ CannotRender(j) \/ MailFails(j) \/ Send(j)
    BY DEF Handle
  <1>2. /\ Taking(j) /\ UNCHANGED <<deliveries, work>>
        /\ sent' = sent \/ sent' = [sent EXCEPT ![work[j].key] = @ + 1]
    BY <1>1 DEF HandlerThrows, Refuse, Skip, NotConfigured, CannotRender, MailFails, Send,
                Decide
  <1>3. work[j].state = "pending"
    BY <1>2 DEF IInv, CycleInv, Taking, Holding
  <1>4. j # i
    BY <1>3 DEF Terminal
  <1>5. work[j].key # work[i].key /\ work[j].key \in Keys /\ work[i].key \in Keys
    BY <1>4, ItemFacts DEF IInv, OneItemPerKey
  <1>6. sent'[work[i].key] = sent[work[i].key]
    BY <1>2, <1>5 DEF IInv, TypeOK
  <1>7. QED
    BY <1>2, <1>6 DEF Untouched

LEMMA RecordLeavesFinished ==
    ASSUME IInv, Record \/ RecordThrows, NEW i \in DOMAIN work, work[i].state \in Terminal
    PROVE  Untouched(i)
  <1>1. /\ Holding("record") /\ UNCHANGED <<work, sent>>
        /\ deliveries' \in {deliveries, SetDelivery(Current.key, exec.status)}
    BY DEF Record, RecordThrows
  <1>2. QED
    BY <1>1, RecordKeepsOthers DEF Untouched

(* The only mark that changes a state is made on a pending item.           *)
LEMMA MarkLeavesFinished ==
    ASSUME IInv, MarkState \/ MarkAttempts \/ MarkDue \/ MarkDone,
           NEW i \in DOMAIN work, work[i].state \in Terminal
    PROVE  Untouched(i)
  <1>1. \E pc \in {"state", "attempts", "due", "done"} : \E item :
            /\ Mark(pc, item)
            /\ item.state = Current.state \/ pc = "state"
    <2>1. exec.who = "worker" => Current \in Items
      <3>1. exec.who = "worker" /\ exec.pc \in {"state", "attempts", "due", "done"}
        BY DEF MarkState, MarkAttempts, MarkDue, MarkDone, Mark, Holding
      <3>2. exec.item \in DOMAIN work
        BY <3>1 DEF IInv, CycleInv, Handling
      <3>3. QED
        BY <3>2, ItemFacts DEF IInv, Current
    <2>2. exec.who = "worker"
      BY DEF MarkState, MarkAttempts, MarkDue, MarkDone, Mark, Holding
    <2>3. CASE MarkState
      BY <2>3 DEF MarkState
    <2>4. CASE MarkAttempts
      BY <2>1, <2>2, <2>4 DEF MarkAttempts, Items
    <2>5. CASE MarkDue
      BY <2>1, <2>2, <2>5 DEF MarkDue, Items
    <2>6. CASE MarkDone
      BY <2>1, <2>2, <2>6 DEF MarkDone, Items
    <2>7. QED
      BY <2>3, <2>4, <2>5, <2>6
  <1>2. PICK pc \in {"state", "attempts", "due", "done"} :
            \E item : Mark(pc, item) /\ (item.state = Current.state \/ pc = "state")
    BY <1>1
  <1>3. PICK item : Mark(pc, item) /\ (item.state = Current.state \/ pc = "state")
    BY <1>2
  <1>4. /\ Holding(pc) /\ work' = [work EXCEPT ![exec.item] = item]
        /\ UNCHANGED <<deliveries, sent>>
    BY <1>3 DEF Mark
  <1>5. pc = "state" => i # exec.item
    BY <1>4 DEF IInv, CycleInv, Holding, Handling, Current, Terminal
  <1>6. work'[i].state = work[i].state
    BY <1>3, <1>4, <1>5 DEF Current, IInv, TypeOK
  <1>7. QED
    BY <1>4, <1>6 DEF Untouched

(* Nothing reopens a finished item, sends for it again or changes what its *)
(* delivery row says: not a cycle, a death, a retry or a late enqueue.     *)
THEOREM WorkerTerminalIsFinal == Spec => TerminalIsFinal
  <1>1. ASSUME IInv, [Next]_vars
        PROVE  [\A i \in DOMAIN work : work[i].state \in Terminal => Untouched(i)]_vars
    <2> SUFFICES ASSUME NEW i \in DOMAIN work, work[i].state \in Terminal, Next
                 PROVE  Untouched(i)
      BY <1>1
    <2>1. ASSUME NEW k \in Keys, Arrive(k) PROVE Untouched(i)
      <3>1. work' = Append(work, WorkItem(k)) /\ UNCHANGED <<deliveries, sent>>
        BY <2>1 DEF Arrive, Enqueue
      <3>2. work'[i] = work[i]
        BY <1>1, <3>1 DEF IInv, TypeOK
      <3>3. QED
        BY <3>1, <3>2 DEF Untouched
    <2>2. CASE Tick
      <3>1. Older(work[i]).state = work[i].state
        BY <1>1, ItemFacts DEF IInv, Older, Items
      <3>2. QED
        BY <2>2, <3>1 DEF Tick, Untouched
    <2>3. CASE StartCycle \/ Finish \/ CycleDies
      BY <2>3 DEF StartCycle, Finish, CycleDies, Untouched
    <2>4. CASE Handle
      BY <1>1, <2>4, HandleLeavesFinished
    <2>5. CASE Record \/ RecordThrows
      BY <1>1, <2>5, RecordLeavesFinished
    <2>6. CASE MarkState \/ MarkAttempts \/ MarkDue \/ MarkDone
      BY <1>1, <2>6, MarkLeavesFinished
    <2>7. QED
      BY <2>1, <2>2, <2>3, <2>4, <2>5, <2>6 DEF Next, Cycle
  <1>2. [\A i \in DOMAIN work : work[i].state \in Terminal => Untouched(i)]_vars
        => [\A i \in DOMAIN work :
               LET k == work[i].key IN
               work[i].state \in Terminal =>
                   /\ work'[i].state = work[i].state
                   /\ sent'[k] = sent[k]
                   /\ Records(k) /\ Has(deliveries, k.subject) =>
                         Find(deliveries', k.subject)[Field(k)]
                             = Find(deliveries, k.subject)[Field(k)]]_vars
    BY DEF Untouched
  <1>3. QED
    BY <1>1, <1>2, InductiveInvariant, PTL DEF Spec, TerminalIsFinal
=============================================================================
