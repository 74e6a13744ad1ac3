------------------------------- MODULE Store -------------------------------
(***************************************************************************)
(* The Google Sheet every execution of the backend shares                  *)
(* (platform/SheetRepository.js).  A tab is the sequence of its data rows, *)
(* in sheet order; a row is a record.  Only what the repositories do to a  *)
(* tab is here: append a row, find the first row with a key, and patch     *)
(* fields of one row.  Two rows with the same key are representable,       *)
(* because nothing in a sheet forbids them.                                *)
(***************************************************************************)
EXTENDS Naturals, Sequences

(* Is there a row of the tab about this submission?                        *)
Has(tab, sid) == \E i \in DOMAIN tab : tab[i].submissionId = sid

(* findBySubmissionId and findBySourceSubmissionId scan from the top and   *)
(* return the first match; their callers test Has first.                   *)
FirstRow(tab, sid) ==
    CHOOSE i \in DOMAIN tab :
        /\ tab[i].submissionId = sid
        /\ \A j \in 1 .. i - 1 : tab[j].submissionId # sid

Find(tab, sid) == tab[FirstRow(tab, sid)]

(* A work item is identified by its idempotency key: the kind and the      *)
(* subject, the discriminator being fixed by the kind.                     *)
Key(kind, subject) == [kind |-> kind, subject |-> subject]

Queued(work, key) == \E i \in DOMAIN work : work[i].key = key

(* buildWorkItem: a fresh item is due at once and has never been tried.    *)
(* `wait` is nextAttemptAt as seen from the current time (0 when due), and *)
(* `age` is completedAt as seen from it: NotCompleted while that cell is   *)
(* blank, then one more than the time since.                               *)
NotCompleted == 0

WorkItem(key) ==
    [key |-> key, state |-> "pending", attempts |-> 0, wait |-> 0,
     age |-> NotCompleted]

(* enqueue: an item whose key is already in the tab, in whatever state, is *)
(* not appended again.                                                     *)
Enqueue(work, key) ==
    IF Queued(work, key) THEN work ELSE Append(work, WorkItem(key))

(* The kinds of work a submission produces, by its kind: an acknowledgement*)
(* always, an immediate notification for an inquiry only.                  *)
AckKind(kind) ==
    IF kind = "contact_exchange" THEN "send_qr_acknowledgement"
                                 ELSE "send_acknowledgement"
=============================================================================
