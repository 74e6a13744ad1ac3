------------------------------- MODULE Digest -------------------------------
(***************************************************************************)
(* The daily digest of QR contacts: runDailyQrDigest and deliverPlan       *)
(* (scheduled/Digest.js) over the digestStatus of the Deliveries tab.      *)
(*                                                                         *)
(* A run holds the script lock from its reading to its last mark.  Every   *)
(* mail and every mark is a step; a mail may fail, and the run may die     *)
(* between any two steps.  Contacts arrive between runs.                   *)
(***************************************************************************)
EXTENDS Naturals, Sequences, FiniteSets

CONSTANTS
    Contacts,           \* submission ids of the contact exchanges
    Partners,           \* PARTNERS, in order
    SourceOf,           \* [Contacts -> a partner, or Shared]: acquisitionSource
    Shared,             \* the firm's own card or an unresolved one
    Flagged,            \* the contacts screening suspects of spam
    MaxFailures,        \* bound: digests that fail to be delivered
    MaxDeaths           \* bound: runs that die

PartnerSet == {Partners[n] : n \in DOMAIN Partners}

ASSUME DigestAssumption ==
    /\ Partners \in Seq(PartnerSet)
    /\ \A m, n \in DOMAIN Partners : Partners[m] = Partners[n] => m = n
    /\ SourceOf \in [Contacts -> PartnerSet \cup {Shared}]
    /\ Shared \notin PartnerSet
    /\ Flagged \subseteq Contacts
    /\ MaxFailures \in Nat /\ MaxDeaths \in Nat

VARIABLES
    digest,             \* digestStatus of each delivery row, or "absent"
    run,                \* the run that holds the lock, or Idle
    received,           \* history: how often each partner was mailed each contact
    missed,             \* history: runs that took a contact and did not mark it
    failures, deaths    \* history: their numbers

vars == <<digest, run, received, missed, failures, deaths>>

Idle == [pc |-> "idle"]

-----------------------------------------------------------------------------
(* Mutant: what was delivered already is taken again.                      *)
EligibleAgain ==
    {c \in Contacts : digest[c] \in {"pending_digest", "delivered"} /\ c \notin Flagged}

(* selectEligibleSubmissions, joined with the pending delivery rows.       *)
Eligible == {c \in Contacts : digest[c] = "pending_digest" /\ c \notin Flagged}

(* Mutant: everybody reads about everybody.                                *)
PlanOfAll(p, eligible) == eligible

(* planDigests: a partner's own contacts, and the shared ones.             *)
Plan(p, eligible) == {c \in eligible : SourceOf[c] \in {p, Shared}}

(* Who is to read about a contact.                                         *)
Readers(c) == {p \in PartnerSet : SourceOf[c] \in {p, Shared}}

(* Mutant: a flagged contact is queued for the digest like any other.      *)
StatusOfAny(c) == "pending_digest"

(* digestStatusFor.                                                        *)
DigestStatusFor(c) == IF c \in Flagged THEN "excluded_spam" ELSE "pending_digest"

(* Intake appends the delivery row, under the lock.                        *)
Arrive(c) ==
    /\ run = Idle
    /\ digest[c] = "absent"
    /\ digest' = [digest EXCEPT ![c] = DigestStatusFor(c)]
    /\ UNCHANGED <<run, received, missed, failures, deaths>>

-----------------------------------------------------------------------------
(* From plan n on: the contacts of that plan are still to be sent, and     *)
(* `advancing` are the contacts whose outcome is true so far.              *)
PlanFrom(n, eligible, advancing) ==
    IF n \in DOMAIN Partners
    THEN [pc |-> "send", n |-> n, eligible |-> eligible, advancing |-> advancing,
          left |-> Plan(Partners[n], eligible)]
    ELSE [pc |-> "mark", n |-> n, eligible |-> eligible, advancing |-> advancing,
          left |-> {}]

(* The trigger fires with something to send and a configuration that       *)
(* allows it; otherwise the run ends at once and nothing changes.          *)
StartRun ==
    /\ run = Idle
    /\ Eligible # {}
    /\ run' = PlanFrom(1, Eligible, Eligible)
    /\ UNCHANGED <<digest, received, missed, failures, deaths>>

Sending == run.pc = "send"

(* One part of the current partner's digest goes out: where packing drew   *)
(* the line is left open.                                                  *)
SendPart(part) ==
    /\ Sending
    /\ part # {} /\ part \subseteq run.left
    /\ received' = [received EXCEPT ![Partners[run.n]] =
                       [c \in Contacts |-> IF c \in part THEN @[c] + 1 ELSE @[c]]]
    /\ run' = [run EXCEPT !.left = @ \ part]
    /\ UNCHANGED <<digest, missed, failures, deaths>>

(* Every part is out (or this partner has nothing to read this morning).   *)
PlanDelivered ==
    /\ Sending
    /\ run.left = {}
    /\ run' = PlanFrom(run.n + 1, run.eligible, run.advancing)
    /\ UNCHANGED <<digest, received, missed, failures, deaths>>

(* Mutant: only the contacts of the partner's own card stay open.          *)
PlanFailsForOwn ==
    /\ Sending
    /\ run.left # {}
    /\ failures < MaxFailures
    /\ failures' = failures + 1
    /\ run' = PlanFrom(run.n + 1, run.eligible,
                       {c \in run.advancing : SourceOf[c] # Partners[run.n]})
    /\ UNCHANGED <<digest, received, missed, deaths>>

(* No address for this partner, nothing could be rendered to fit, or the   *)
(* mail of a part failed: none of the partner's contacts advances.         *)
PlanFails ==
    /\ Sending
    /\ run.left # {}
    /\ failures < MaxFailures
    /\ failures' = failures + 1
    /\ run' = PlanFrom(run.n + 1, run.eligible,
                       run.advancing \ Plan(Partners[run.n], run.eligible))
    /\ UNCHANGED <<digest, received, missed, deaths>>

(* updateDelivery for one contact after another.                           *)
Mark(c) ==
    /\ run.pc = "mark"
    /\ c \in run.advancing
    /\ digest' = [digest EXCEPT ![c] = "delivered"]
    /\ run' = [run EXCEPT !.advancing = @ \ {c}]
    /\ UNCHANGED <<received, missed, failures, deaths>>

(* The run ends, well or not: what it took and did not mark is missed.     *)
Over ==
    /\ run' = Idle
    /\ missed' = [c \in Contacts |->
                     IF c \in run.eligible /\ digest[c] # "delivered"
                     THEN missed[c] + 1 ELSE missed[c]]

Finish ==
    /\ run.pc = "mark"
    /\ run.advancing = {}
    /\ Over
    /\ UNCHANGED <<digest, received, failures, deaths>>

(* Killed at the time limit, or a mark threw out of withLock.              *)
RunDies ==
    /\ run # Idle
    /\ deaths < MaxDeaths
    /\ deaths' = deaths + 1
    /\ Over
    /\ UNCHANGED <<digest, received, failures>>

-----------------------------------------------------------------------------
Init ==
    /\ digest = [c \in Contacts |-> "absent"]
    /\ run = Idle
    /\ received = [p \in PartnerSet |-> [c \in Contacts |-> 0]]
    /\ missed = [c \in Contacts |-> 0]
    /\ failures = 0 /\ deaths = 0

Step ==
    \/ \E part \in SUBSET Contacts : SendPart(part)
    \/ PlanDelivered \/ PlanFails
    \/ \E c \in Contacts : Mark(c)
    \/ Finish

Next ==
    \/ \E c \in Contacts : Arrive(c)
    \/ StartRun
    \/ Step
    \/ RunDies

(* The trigger fires every morning and a run runs on until it ends.  That  *)
(* mails do not fail for ever is the bound on failures, not fairness.      *)
Fairness == WF_vars(StartRun) /\ WF_vars(Step)

Spec == Init /\ [][Next]_vars /\ Fairness

-----------------------------------------------------------------------------
(* Properties.                                                             *)

(* Contract 9A: "A Contact advances to delivered only after the entire     *)
(* applicable digest delivered".  A contact marked delivered was mailed to *)
(* every partner it concerns, whatever failed for one of them and whenever *)
(* a run died.                                                             *)
DeliveredWasRead ==
    \A c \in Contacts :
        digest[c] = "delivered" => \A p \in Readers(c) : received[p][c] >= 1

(* A partner reads about a contact again only because an earlier run took  *)
(* it and could not mark it: a run died, or a digest failed.               *)
RepeatsOnlyAfterMisses ==
    \A p \in PartnerSet, c \in Contacts : received[p][c] <= 1 + missed[c]

(* "Routing is by ACQUISITION ATTRIBUTION alone": nobody is mailed another *)
(* partner's contact, and nobody a flagged one, in any run or retry.       *)
RoutedByAttribution ==
    \A p \in PartnerSet, c \in Contacts :
        received[p][c] > 0 => p \in Readers(c) /\ c \notin Flagged

(* Whichever digests fail and whichever runs die, once that stops, every   *)
(* contact awaiting the digest is delivered.                               *)
EveryContactIsRead ==
    \A c \in Contacts : digest[c] = "pending_digest" ~> digest[c] = "delivered"
=============================================================================
