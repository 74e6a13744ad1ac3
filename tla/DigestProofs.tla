---------------------------- MODULE DigestProofs ----------------------------
(***************************************************************************)
(* Proofs about Digest.tla, for every set of contacts, every list of       *)
(* partners and every number of failed digests and dead runs: whom the     *)
(* digest reaches, how often, and what "delivered" means.                  *)
(***************************************************************************)
EXTENDS Digest, TLAPS

-----------------------------------------------------------------------------
(* The inductive invariant: the shape of the state, what a run knows at    *)
(* its program counter, and what each contact has been mailed by then.     *)

Runs == [pc : {"send", "mark"}, n : Nat, eligible : SUBSET Contacts,
         advancing : SUBSET Contacts, left : SUBSET Contacts]

TypeOK ==
    /\ digest \in [Contacts -> {"absent", "pending_digest", "excluded_spam", "delivered"}]
    /\ run \in {Idle} \cup Runs
    /\ received \in [PartnerSet -> [Contacts -> Nat]]
    /\ missed \in [Contacts -> Nat]
    /\ failures \in Nat /\ deaths \in Nat

Running == run # Idle

(* The partners are served in order; what is left is of the current plan;  *)
(* nothing flagged was taken; and what still advances is still pending.    *)
RunInv == Running =>
    /\ run.pc = "send" => run.n \in DOMAIN Partners
    /\ run.pc = "mark" => /\ \A m \in DOMAIN Partners : m < run.n
                          /\ run.left = {}
    /\ \A c \in run.left : run.n \in DOMAIN Partners /\ c \in Plan(Partners[run.n], run.eligible)
    /\ run.advancing \subseteq run.eligible
    /\ run.eligible \cap Flagged = {}
    /\ \A c \in run.advancing : digest[c] = "pending_digest"
    /\ \A c \in run.eligible :
          digest[c] = "pending_digest" \/ (run.pc = "mark" /\ digest[c] = "delivered")

(* The run is past plan m as far as contact c goes.                        *)
Past(m, c) == m < run.n \/ (m = run.n /\ c \notin run.left)

(* What still advances has been read by everyone served so far.            *)
ReadSoFar == Running =>
    \A c \in run.advancing, m \in DOMAIN Partners :
        Partners[m] \in Readers(c) /\ Past(m, c) => received[Partners[m]][c] >= 1

(* What is open, and not past the current run, has been read no more often *)
(* than it was missed.                                                     *)
NotYetAgain ==
    \A c \in Contacts, m \in DOMAIN Partners :
        /\ digest[c] \in {"absent", "pending_digest"}
        /\ Running /\ c \in run.eligible => ~ Past(m, c)
        => received[Partners[m]][c] <= missed[c]

IInv == /\ TypeOK
        /\ RunInv
        /\ ReadSoFar
        /\ NotYetAgain
        /\ DeliveredWasRead
        /\ RepeatsOnlyAfterMisses
        /\ RoutedByAttribution

-----------------------------------------------------------------------------
(* Partners are numbered by an initial segment of the naturals, and the    *)
(* numbers name exactly the members of PartnerSet.                         *)
LEMMA PartnerNumbers ==
    /\ DOMAIN Partners \subseteq Nat \ {0}
    /\ \A m \in DOMAIN Partners : Partners[m] \in PartnerSet
    /\ \A p \in PartnerSet : \E m \in DOMAIN Partners : Partners[m] = p
    /\ \A n \in Nat \ {0} : n \notin DOMAIN Partners => \A m \in DOMAIN Partners : m < n
  BY DigestAssumption DEF PartnerSet

(* A run that goes on to plan n is at that plan with all of it to send, or *)
(* behind the last plan.                                                   *)
LEMMA PlanFromShape ==
    ASSUME NEW n \in Nat, NEW eligible \in SUBSET Contacts,
           NEW advancing \in SUBSET Contacts
    PROVE  LET r == PlanFrom(n, eligible, advancing) IN
           /\ r \in Runs
           /\ r.n = n /\ r.eligible = eligible /\ r.advancing = advancing
           /\ n \in DOMAIN Partners =>
                 r.pc = "send" /\ r.left = Plan(Partners[n], eligible)
           /\ n \notin DOMAIN Partners => r.pc = "mark" /\ r.left = {}
  BY DEF PlanFrom, Runs, Plan

LEMMA RunsAreNotIdle == \A r \in Runs : r # Idle
  BY DEF Runs, Idle

(* Only a run has a program counter other than idle.                       *)
LEMMA RunningRuns ==
    ASSUME TypeOK
    PROVE  /\ Running => run \in Runs
           /\ run.pc \in {"send", "mark"} => Running
  BY DEF TypeOK, Running, Idle, Runs

-----------------------------------------------------------------------------
(* Steps between runs.                                                     *)

LEMMA ArriveStep ==
    ASSUME IInv, NEW c \in Contacts, Arrive(c)
    PROVE  IInv'
  <1>1. /\ run = Idle /\ run' = Idle /\ digest[c] = "absent"
        /\ digest' = [digest EXCEPT ![c] = DigestStatusFor(c)]
        /\ UNCHANGED <<received, missed, failures, deaths>>
    BY DEF Arrive
  <1>2. DigestStatusFor(c) \in {"excluded_spam", "pending_digest"}
    BY DEF DigestStatusFor
  <1>3. TypeOK'
    BY <1>1, <1>2 DEF IInv, TypeOK
  <1>4. RunInv' /\ ReadSoFar'
    BY <1>1 DEF RunInv, ReadSoFar, Running
  <1>5. NotYetAgain'
    BY <1>1 DEF IInv, TypeOK, NotYetAgain, Running
  <1>6. DeliveredWasRead' /\ RepeatsOnlyAfterMisses' /\ RoutedByAttribution'
    BY <1>1, <1>2 DEF IInv, TypeOK, DeliveredWasRead, RepeatsOnlyAfterMisses,
                      RoutedByAttribution
  <1>7. QED
    BY <1>3, <1>4, <1>5, <1>6 DEF IInv

(* A run turns to plan n, with `advancing` still advancing: at its start,  *)
(* or when it has come through plan n - 1 one way or the other.            *)
LEMMA TurnToPlan ==
    ASSUME IInv, NEW n \in Nat \ {0}, NEW eligible \in SUBSET Contacts,
           NEW advancing \in SUBSET eligible,
           run' = PlanFrom(n, eligible, advancing),
           failures' \in Nat,
           UNCHANGED <<digest, received, missed, deaths>>,
           eligible \cap Flagged = {},
           \A c \in eligible : digest[c] = "pending_digest",
           \A c \in advancing, m \in DOMAIN Partners :
              Partners[m] \in Readers(c) /\ m < n => received[Partners[m]][c] >= 1,
           \A c \in Contacts, m \in DOMAIN Partners :
              /\ digest[c] \in {"absent", "pending_digest"}
              /\ c \in eligible => m >= n
              => received[Partners[m]][c] <= missed[c]
    PROVE  IInv'
  <1>1. /\ run' \in Runs
        /\ run'.n = n /\ run'.eligible = eligible /\ run'.advancing = advancing
        /\ n \in DOMAIN Partners =>
              run'.pc = "send" /\ run'.left = Plan(Partners[n], eligible)
        /\ n \notin DOMAIN Partners => run'.pc = "mark" /\ run'.left = {}
    BY PlanFromShape
  <1>2. TypeOK'
    BY <1>1 DEF IInv, TypeOK
  <1>3. RunInv'
    BY <1>1, PartnerNumbers DEF RunInv
  <1>4. ReadSoFar'
    <2> SUFFICES ASSUME NEW c \in advancing, NEW m \in DOMAIN Partners,
                        Partners[m] \in Readers(c), Past(m, c)'
                 PROVE  received[Partners[m]][c] >= 1
      BY <1>1 DEF ReadSoFar
    <2>1. CASE m = n
      <3>1. c \in Plan(Partners[n], eligible)
        BY <2>1 DEF Plan, Readers
      <3>2. QED
        BY <1>1, <2>1, <3>1 DEF Past
    <2>2. CASE m # n
      BY <1>1, <2>2 DEF Past
    <2>3. QED
      BY <2>1, <2>2
  <1>5. NotYetAgain'
    <2> SUFFICES ASSUME NEW c \in Contacts, NEW m \in DOMAIN Partners,
                        digest[c] \in {"absent", "pending_digest"},
                        c \in eligible => ~ Past(m, c)'
                 PROVE  received[Partners[m]][c] <= missed[c]
      BY <1>1, RunsAreNotIdle DEF NotYetAgain, Running
    <2>1. c \in eligible => m >= n
      BY <1>1, PartnerNumbers DEF Past
    <2>2. QED
      BY <2>1
  <1>6. DeliveredWasRead' /\ RepeatsOnlyAfterMisses' /\ RoutedByAttribution'
    BY DEF IInv, DeliveredWasRead, RepeatsOnlyAfterMisses, RoutedByAttribution
  <1>7. QED
    BY <1>2, <1>3, <1>4, <1>5, <1>6 DEF IInv

LEMMA StartRunStep ==
    ASSUME IInv, StartRun
    PROVE  IInv'
  <1>1. /\ run = Idle /\ run' = PlanFrom(1, Eligible, Eligible)
        /\ UNCHANGED <<digest, received, missed, failures, deaths>>
    BY DEF StartRun
  <1>2. /\ Eligible \in SUBSET Contacts /\ Eligible \cap Flagged = {}
        /\ \A c \in Eligible : digest[c] = "pending_digest"
    BY DEF Eligible
  <1>3. \A m \in DOMAIN Partners : ~ m < 1
    BY PartnerNumbers
  <1>4. \A c \in Contacts, m \in DOMAIN Partners :
            digest[c] \in {"absent", "pending_digest"}
            => received[Partners[m]][c] <= missed[c]
    BY <1>1 DEF IInv, NotYetAgain, Running
  <1>5. failures' \in Nat
    BY <1>1 DEF IInv, TypeOK
  <1>6. QED
    BY <1>1, <1>2, <1>3, <1>4, <1>5, TurnToPlan

-----------------------------------------------------------------------------
(* Steps of a run.                                                         *)

LEMMA SendPartStep ==
    ASSUME IInv, NEW part \in SUBSET Contacts, SendPart(part)
    PROVE  IInv'
  <1> DEFINE n == run.n
             p == Partners[n]
  <1>1. /\ run.pc = "send" /\ part \subseteq run.left
        /\ received' = [received EXCEPT ![p] =
                           [c \in Contacts |-> IF c \in part THEN @[c] + 1 ELSE @[c]]]
        /\ run' = [run EXCEPT !.left = @ \ part]
        /\ UNCHANGED <<digest, missed, failures, deaths>>
    BY DEF SendPart, Sending
  <1>2. Running /\ run \in Runs
    BY <1>1, RunningRuns DEF IInv
  <1>3. /\ n \in DOMAIN Partners /\ p \in PartnerSet
        /\ part \subseteq Plan(p, run.eligible)
        /\ run.eligible \cap Flagged = {}
        /\ \A c \in run.eligible : digest[c] = "pending_digest"
    BY <1>1, <1>2, PartnerNumbers DEF IInv, RunInv
  <1>4. /\ run' \in Runs /\ run'.n = n /\ run'.pc = "send"
        /\ run'.eligible = run.eligible /\ run'.advancing = run.advancing
        /\ run'.left = run.left \ part
    BY <1>1, <1>2 DEF Runs
  <1>5. \A q \in PartnerSet, c \in Contacts :
            /\ received[q][c] \in Nat
            /\ received'[q][c] = IF q = p /\ c \in part THEN received[q][c] + 1
                                                         ELSE received[q][c]
    BY <1>1, <1>3 DEF IInv, TypeOK
  <1>6. TypeOK'
    <2>1. received' \in [PartnerSet -> [Contacts -> Nat]]
      BY <1>1, <1>3 DEF IInv, TypeOK
    <2>2. QED
      BY <1>1, <1>4, <2>1 DEF IInv, TypeOK
  <1>7. RunInv'
    BY <1>1, <1>2, <1>4 DEF IInv, RunInv
  <1>8. ReadSoFar'
    <2> SUFFICES ASSUME NEW c \in run.advancing, NEW m \in DOMAIN Partners,
                        Partners[m] \in Readers(c), Past(m, c)'
                 PROVE  received'[Partners[m]][c] >= 1
      BY <1>4 DEF ReadSoFar
    <2>1. c \in Contacts /\ Partners[m] \in PartnerSet
      BY <1>2, PartnerNumbers DEF Runs
    <2>2. CASE m = n /\ c \in part
      BY <1>5, <2>1, <2>2
    <2>3. CASE ~ (m = n /\ c \in part)
      <3>1. Past(m, c)
        BY <1>4, <2>3 DEF Past
      <3>2. received[Partners[m]][c] >= 1
        BY <1>2, <3>1 DEF IInv, ReadSoFar
      <3>3. QED
        BY <1>5, <2>1, <3>2
    <2>4. QED
      BY <2>2, <2>3
  <1>9. NotYetAgain'
    <2> SUFFICES ASSUME NEW c \in Contacts, NEW m \in DOMAIN Partners,
                        digest[c] \in {"absent", "pending_digest"},
                        c \in run.eligible => ~ Past(m, c)'
                 PROVE  received'[Partners[m]][c] <= missed[c]
      BY <1>1, <1>4, RunsAreNotIdle DEF NotYetAgain, Running
    <2>1. c \in run.eligible => ~ Past(m, c)
      BY <1>4 DEF Past
    <2>2. received[Partners[m]][c] <= missed[c]
      BY <1>2, <2>1 DEF IInv, NotYetAgain
    <2>3. ~ (Partners[m] = p /\ c \in part)
      <3>1. Partners[m] = p => m = n
        BY <1>3, DigestAssumption
      <3>2. c \in part => c \in run.eligible
        BY <1>3 DEF Plan
      <3>3. QED
        BY <1>4, <3>1, <3>2 DEF Past
    <2>4. Partners[m] \in PartnerSet
      BY PartnerNumbers
    <2>5. QED
      BY <1>5, <2>2, <2>3, <2>4
  <1>10. DeliveredWasRead'
    <2>1. \A c : \A q \in Readers(c) : q \in PartnerSet
      BY DEF Readers
    <2>2. QED
      BY <1>1, <1>5, <2>1 DEF IInv, DeliveredWasRead
  <1>11. RepeatsOnlyAfterMisses'
    <2> SUFFICES ASSUME NEW q \in PartnerSet, NEW c \in Contacts
                 PROVE  received'[q][c] <= 1 + missed[c]
      BY <1>1 DEF RepeatsOnlyAfterMisses
    <2>1. received[q][c] <= 1 + missed[c] /\ missed[c] \in Nat
      BY DEF IInv, RepeatsOnlyAfterMisses, TypeOK
    <2>2. CASE q = p /\ c \in part
      <3>1. c \in run.eligible /\ digest[c] = "pending_digest" /\ ~ Past(n, c)
        BY <1>1, <1>2, <1>3, <2>2 DEF Plan, Past, Runs
      <3>2. received[p][c] <= missed[c]
        BY <1>2, <1>3, <3>1 DEF IInv, NotYetAgain
      <3>3. QED
        BY <1>5, <2>1, <2>2, <3>2
    <2>3. QED
      BY <1>5, <2>1, <2>2
  <1>12. RoutedByAttribution'
    <2> SUFFICES ASSUME NEW q \in PartnerSet, NEW c \in Contacts, received'[q][c] > 0
                 PROVE  q \in Readers(c) /\ c \notin Flagged
      BY DEF RoutedByAttribution
    <2>1. CASE q = p /\ c \in part
      BY <1>3, <2>1 DEF Plan, Readers
    <2>2. CASE ~ (q = p /\ c \in part)
      BY <1>5, <2>2 DEF IInv, RoutedByAttribution
    <2>3. QED
      BY <2>1, <2>2
  <1>13. QED
    BY <1>6, <1>7, <1>8, <1>9, <1>10, <1>11, <1>12 DEF IInv

(* The end of a plan, delivered or not: who still advances has been served *)
(* by that plan's partner, if it is one of the contact's readers.          *)
LEMMA PlanEndStep ==
    ASSUME IInv, run.pc = "send", NEW advancing \in SUBSET run.advancing,
           run' = PlanFrom(run.n + 1, run.eligible, advancing),
           failures' \in Nat,
           UNCHANGED <<digest, received, missed, deaths>>,
           \A c \in advancing \cap Plan(Partners[run.n], run.eligible) : run.left = {}
    PROVE  IInv'
  <1>1. Running /\ run \in Runs
    BY RunningRuns DEF IInv
  <1>2. /\ run.n \in DOMAIN Partners
        /\ run.eligible \cap Flagged = {}
        /\ run.advancing \subseteq run.eligible
        /\ \A c \in run.eligible : digest[c] = "pending_digest"
    BY <1>1 DEF IInv, RunInv
  <1>3. /\ run.n + 1 \in Nat \ {0} /\ run.eligible \in SUBSET Contacts
        /\ advancing \in SUBSET run.eligible
    BY <1>1, <1>2 DEF Runs
  <1>4. ASSUME NEW c \in advancing, NEW m \in DOMAIN Partners,
               Partners[m] \in Readers(c), m < run.n + 1
        PROVE  received[Partners[m]][c] >= 1
    <2>1. CASE m = run.n
      <3>1. c \in Plan(Partners[run.n], run.eligible)
        BY <1>3, <1>4, <2>1 DEF Plan, Readers
      <3>2. Past(m, c)
        BY <2>1, <3>1 DEF Past
      <3>3. QED
        BY <1>1, <1>4, <3>2 DEF IInv, ReadSoFar
    <2>2. CASE m # run.n
      <3>1. Past(m, c)
        BY <1>1, <1>4, <2>2, PartnerNumbers DEF Past, Runs
      <3>2. QED
        BY <1>1, <1>4, <3>1 DEF IInv, ReadSoFar
    <2>3. QED
      BY <2>1, <2>2
  <1>5. ASSUME NEW c \in Contacts, NEW m \in DOMAIN Partners,
               digest[c] \in {"absent", "pending_digest"},
               c \in run.eligible => m >= run.n + 1
        PROVE  received[Partners[m]][c] <= missed[c]
    <2>1. c \in run.eligible => ~ Past(m, c)
      BY <1>1, <1>5, PartnerNumbers DEF Past, Runs
    <2>2. QED
      BY <1>5, <2>1 DEF IInv, NotYetAgain
  <1>6. QED
    BY <1>2, <1>3, <1>4, <1>5, TurnToPlan

LEMMA PlanDeliveredStep ==
    ASSUME IInv, PlanDelivered
    PROVE  IInv'
  <1>1. failures' \in Nat
    BY DEF PlanDelivered, IInv, TypeOK
  <1>2. QED
    BY <1>1, PlanEndStep DEF PlanDelivered, Sending

LEMMA PlanFailsStep ==
    ASSUME IInv, PlanFails
    PROVE  IInv'
  <1>1. failures' \in Nat
    BY DEF PlanFails, IInv, TypeOK
  <1>2. QED
    BY <1>1, PlanEndStep DEF PlanFails, Sending

(* A contact is marked once every plan is behind the run, so all its       *)
(* readers have been served.                                               *)
LEMMA MarkStep ==
    ASSUME IInv, NEW c \in Contacts, Mark(c)
    PROVE  IInv'
  <1>1. /\ run.pc = "mark" /\ c \in run.advancing
        /\ digest' = [digest EXCEPT ![c] = "delivered"]
        /\ run' = [run EXCEPT !.advancing = @ \ {c}]
        /\ UNCHANGED <<received, missed, failures, deaths>>
    BY DEF Mark
  <1>2. Running /\ run \in Runs
    BY <1>1, RunningRuns DEF IInv
  <1>3. /\ run' \in Runs /\ run'.n = run.n /\ run'.pc = "mark"
        /\ run'.eligible = run.eligible /\ run'.advancing = run.advancing \ {c}
        /\ run'.left = run.left
    BY <1>1, <1>2 DEF Runs
  <1>4. /\ digest'[c] = "delivered"
        /\ \A d \in Contacts : d # c => digest'[d] = digest[d]
    BY <1>1 DEF IInv, TypeOK
  <1>5. \A m \in DOMAIN Partners : m < run.n
    BY <1>1, <1>2 DEF IInv, RunInv
  <1>6. TypeOK'
    BY <1>1, <1>3 DEF IInv, TypeOK
  <1>7. RunInv'
    <2>1. \A d \in run.eligible : d \in Contacts
      BY <1>2 DEF Runs
    <2>2. QED
      BY <1>1, <1>2, <1>3, <1>4, <2>1 DEF IInv, RunInv
  <1>8. ReadSoFar'
    BY <1>1, <1>2, <1>3 DEF IInv, ReadSoFar, Past
  <1>9. NotYetAgain'
    <2>1. Running'
      BY <1>3, RunsAreNotIdle DEF Running
    <2>2. QED
      BY <1>1, <1>2, <1>3, <1>4, <2>1 DEF IInv, NotYetAgain, Past
  <1>10. DeliveredWasRead'
    <2>1. ASSUME NEW p \in Readers(c)
          PROVE  received[p][c] >= 1
      <3>1. PICK m \in DOMAIN Partners : Partners[m] = p
        BY PartnerNumbers DEF Readers
      <3>2. Past(m, c)
        BY <1>5 DEF Past
      <3>3. QED
        BY <1>1, <1>2, <3>1, <3>2 DEF IInv, ReadSoFar
    <2>2. QED
      BY <1>1, <1>4, <2>1 DEF IInv, DeliveredWasRead
  <1>11. RepeatsOnlyAfterMisses' /\ RoutedByAttribution'
    BY <1>1 DEF IInv, RepeatsOnlyAfterMisses, RoutedByAttribution
  <1>12. QED
    BY <1>6, <1>7, <1>8, <1>9, <1>10, <1>11 DEF IInv

(* However a run ends, what it took and did not mark counts as missed, so  *)
(* the mails it may have sent about it do not count as repeats.            *)
LEMMA OverStep ==
    ASSUME IInv, Running, Over, deaths' \in Nat,
           UNCHANGED <<digest, received, failures>>
    PROVE  IInv'
  <1>1. run' = Idle /\ run \in Runs /\ ~ Running'
    BY RunningRuns DEF Over, IInv, Running
  <1>2. \A c \in Contacts :
            /\ missed[c] \in Nat
            /\ missed'[c] = IF c \in run.eligible /\ digest[c] # "delivered"
                            THEN missed[c] + 1 ELSE missed[c]
    BY DEF Over, IInv, TypeOK
  <1>3. \A p \in PartnerSet, c \in Contacts : received[p][c] \in Nat
    BY DEF IInv, TypeOK
  <1>4. TypeOK'
    <2>1. missed' \in [Contacts -> Nat]
      BY <1>2 DEF Over
    <2>2. QED
      BY <1>1, <2>1 DEF IInv, TypeOK
  <1>5. RunInv' /\ ReadSoFar'
    BY <1>1 DEF RunInv, ReadSoFar
  <1>6. NotYetAgain'
    <2> SUFFICES ASSUME NEW c \in Contacts, NEW m \in DOMAIN Partners,
                        digest[c] \in {"absent", "pending_digest"}
                 PROVE  received[Partners[m]][c] <= missed'[c]
      BY DEF NotYetAgain
    <2>1. Partners[m] \in PartnerSet
      BY PartnerNumbers
    <2>2. CASE c \in run.eligible
      BY <1>2, <1>3, <2>1, <2>2 DEF IInv, RepeatsOnlyAfterMisses
    <2>3. CASE c \notin run.eligible
      BY <1>2, <2>3 DEF IInv, NotYetAgain
    <2>4. QED
      BY <2>2, <2>3
  <1>7. DeliveredWasRead' /\ RoutedByAttribution'
    BY DEF IInv, DeliveredWasRead, RoutedByAttribution
  <1>8. RepeatsOnlyAfterMisses'
    BY <1>2, <1>3 DEF IInv, RepeatsOnlyAfterMisses
  <1>9. QED
    BY <1>4, <1>5, <1>6, <1>7, <1>8 DEF IInv

LEMMA FinishStep ==
    ASSUME IInv, Finish
    PROVE  IInv'
  <1>1. Running /\ deaths' \in Nat
    BY RunningRuns DEF Finish, IInv, TypeOK
  <1>2. QED
    BY <1>1, OverStep DEF Finish

LEMMA RunDiesStep ==
    ASSUME IInv, RunDies
    PROVE  IInv'
  <1>1. Running /\ deaths' \in Nat
    BY DEF RunDies, Running, IInv, TypeOK
  <1>2. QED
    BY <1>1, OverStep DEF RunDies

-----------------------------------------------------------------------------
(* The theorems.                                                           *)

LEMMA InitIInv == Init => IInv
  <1> SUFFICES ASSUME Init PROVE IInv
    OBVIOUS
  <1>1. TypeOK
    BY DEF Init, TypeOK
  <1>2. RunInv /\ ReadSoFar
    BY DEF Init, RunInv, ReadSoFar, Running
  <1>3. NotYetAgain
    BY PartnerNumbers DEF Init, NotYetAgain
  <1>4. DeliveredWasRead /\ RepeatsOnlyAfterMisses /\ RoutedByAttribution
    BY DEF Init, DeliveredWasRead, RepeatsOnlyAfterMisses, RoutedByAttribution
  <1>5. QED
    BY <1>1, <1>2, <1>3, <1>4 DEF IInv

LEMMA StutterStep ==
    ASSUME IInv, UNCHANGED vars
    PROVE  IInv'
  BY DEF vars, IInv, TypeOK, RunInv, ReadSoFar, NotYetAgain, Past, Running,
         DeliveredWasRead, RepeatsOnlyAfterMisses, RoutedByAttribution

LEMMA NextIInv == IInv /\ [Next]_vars => IInv'
  <1> SUFFICES ASSUME IInv, [Next]_vars PROVE IInv'
    OBVIOUS
  <1>1. ASSUME NEW c \in Contacts, Arrive(c) PROVE IInv'
    BY <1>1, ArriveStep
  <1>2. CASE StartRun
    BY <1>2, StartRunStep
  <1>3. ASSUME NEW part \in SUBSET Contacts, SendPart(part) PROVE IInv'
    BY <1>3, SendPartStep
  <1>4. CASE PlanDelivered
    BY <1>4, PlanDeliveredStep
  <1>5. CASE PlanFails
    BY <1>5, PlanFailsStep
  <1>6. ASSUME NEW c \in Contacts, Mark(c) PROVE IInv'
    BY <1>6, MarkStep
  <1>7. CASE Finish
    BY <1>7, FinishStep
  <1>8. CASE RunDies
    BY <1>8, RunDiesStep
  <1>9. CASE UNCHANGED vars
    BY <1>9, StutterStep
  <1>10. QED
    BY <1>1, <1>2, <1>3, <1>4, <1>5, <1>6, <1>7, <1>8, <1>9 DEF Next, Step

(* The inductive invariant holds in every reachable state of the digest.   *)
THEOREM InductiveInvariant == Spec => []IInv
  BY InitIInv, NextIInv, PTL DEF Spec

(* A contact is marked delivered only after every partner it concerns was  *)
(* mailed it, whatever failed and whichever runs died (deliverPlan, then   *)
(* the marks of runDailyQrDigest).                                         *)
THEOREM DigestDeliveredWasRead == Spec => []DeliveredWasRead
  <1>1. IInv => DeliveredWasRead
    BY DEF IInv
  <1>2. QED
    BY <1>1, InductiveInvariant, PTL

(* No partner reads about a contact more than once more than runs took it  *)
(* and failed to mark it.                                                  *)
THEOREM DigestRepeatsOnlyAfterMisses == Spec => []RepeatsOnlyAfterMisses
  <1>1. IInv => RepeatsOnlyAfterMisses
    BY DEF IInv
  <1>2. QED
    BY <1>1, InductiveInvariant, PTL

(* No run or retry mails a partner another partner's contact, or anyone a  *)
(* flagged one (planDigests, selectEligibleSubmissions).                   *)
THEOREM DigestRoutedByAttribution == Spec => []RoutedByAttribution
  <1>1. IInv => RoutedByAttribution
    BY DEF IInv
  <1>2. QED
    BY <1>1, InductiveInvariant, PTL
=============================================================================
