--------------------------- MODULE AtomicIntake ----------------------------
(***************************************************************************)
(* What the intake promises a visitor, with no executions, tabs or repairs *)
(* in sight: a ledger in which a request is entered at once, whole, and    *)
(* never altered afterwards, and answers that only ever report an entry of *)
(* the ledger.  Intake.tla implements it through deaths and retries.       *)
(***************************************************************************)
CONSTANTS SubmissionIds, Entries

VARIABLES
    ledger,     \* by submission id, the set of its entries: none or one
    answers     \* the pairs <<submission id, entry>> visitors have been told

Init ==
    /\ ledger = [s \in SubmissionIds |-> {}]
    /\ answers = {}

(* The first entry under an id is also its last.                           *)
Commit(s) ==
    /\ ledger[s] = {}
    /\ \E e \in ledger'[s] :
          /\ e \in Entries
          /\ ledger' = [ledger EXCEPT ![s] = {e}]
    /\ UNCHANGED answers

Tell(s) ==
    /\ \E e \in ledger[s] : answers' = answers \cup {<<s, e>>}
    /\ UNCHANGED ledger

Next == \E s \in SubmissionIds : Commit(s) \/ Tell(s)

Spec == Init /\ [][Next]_<<ledger, answers>>
=============================================================================
