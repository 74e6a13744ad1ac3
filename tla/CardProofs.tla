----------------------------- MODULE CardProofs -----------------------------
(***************************************************************************)
(* Proofs about Card.tla, for any number of partners, presses, screens and *)
(* any delays: the Save controls say what is true of their last press, a   *)
(* file's URL is released, and late, and what the exchange lets through    *)
(* the backend accepts.  None of them uses the order in which timers fire, *)
(* so no order the browser could choose would break them.                  *)
(***************************************************************************)
EXTENDS Card, TLAPS

-----------------------------------------------------------------------------
(* The inductive invariant of the Save controls.                           *)

Handoffs == {"handoffMobile", "handoffWide"}
SaveStates == {"default", "preparing", "failed"} \cup Handoffs
Timers ==
    [kind : {"prepare", "cap", "revoke"}, partner : Partners, mount : Nat, press : Nat,
     set : Nat, due : Nat]
Files == [partner : Partners, press : Nat, at : Nat, alive : BOOLEAN]

SaveTypes ==
    /\ now \in Nat /\ mount \in Nat /\ presses \in Nat
    /\ saves \in [Partners -> [state : SaveStates, press : Nat]]
    /\ timers \in SUBSET Timers /\ files \in SUBSET Files

(* Presses are numbered, and everything a press left behind bears its      *)
(* number; screens likewise.                                               *)
Numbered ==
    /\ \A p \in Partners : saves[p].press <= presses
    /\ \A t \in timers : t.press \in 1 .. presses /\ t.mount <= mount
    /\ \A f \in files : f.press \in 1 .. presses

(* A timer that bears the number of a control's last press is that         *)
(* control's; of the controls on the screen, only the last press of each   *)
(* still prepares; and it does so once.                                    *)
TimersOwned ==
    /\ \A t \in timers, p \in Partners :
          saves[p].press = t.press => t.partner = p /\ t.mount = mount
    /\ \A t \in timers :
          t.kind \in {"prepare", "cap"} /\ t.mount = mount => saves[t.partner].press = t.press
    /\ \A s, t \in timers :
          s.kind = "prepare" /\ t.kind = "prepare" /\ s.press = t.press => s = t

(* A press hands over one file, after its preparation, and sets its        *)
(* release.                                                                *)
FilesOwned ==
    /\ \A f, g \in files : f.press = g.press => f = g
    /\ \A t \in timers, f \in files : t.kind = "prepare" => f.press # t.press
    /\ \A t \in timers : t.kind = "revoke" => \E f \in files : f.press = t.press
    /\ \A t \in timers, f \in files :
          t.kind = "revoke" /\ f.press = t.press => t.due = f.at + RevokeDelay

SInv == /\ SaveTypes
        /\ Numbered
        /\ TimersOwned
        /\ FilesOwned
        /\ SaveStatesAreHonest
        /\ UrlsAreReleasedLate

-----------------------------------------------------------------------------
(* What a control says of its last press, for one control.                 *)
Honest(p, save, fs, ts) ==
    LET delivered == \E f \in fs : f.partner = p /\ f.press = save.press
    IN /\ save.state = "preparing" =>
             ~ delivered /\ \E t \in ts : t.kind = "prepare" /\ t.press = save.press
       /\ save.state \in Handoffs => delivered
       /\ save.state \notin Handoffs => ~ delivered

AllHonest == \A p \in Partners : Honest(p, saves[p], files, timers)

LEMMA HonestControls == SaveTypes => (SaveStatesAreHonest <=> AllHonest)
  <1> SUFFICES ASSUME SaveTypes
               PROVE  SaveStatesAreHonest <=> AllHonest
    OBVIOUS
  <1>1. \A p \in Partners : saves[p].state \in SaveStates
    BY DEF SaveTypes
  <1>2. QED
    BY <1>1 DEF SaveStatesAreHonest, AllHonest, Honest, SaveStates, Handoffs

LEMMA DelaysType == RevokeDelay \in Nat /\ PrepareDelay \in Nat /\ PrepareTimeout \in Nat
  BY CardAssumption

LEMMA TimerFacts ==
    ASSUME SInv, NEW t \in timers
    PROVE  /\ t \in Timers /\ t.partner \in Partners /\ t.press \in Nat /\ t.due \in Nat
           /\ t.press \in 1 .. presses /\ t.mount \in Nat /\ t.mount <= mount
  <1>1. t \in Timers
    BY DEF SInv, SaveTypes
  <1>2. QED
    BY <1>1 DEF Timers, SInv, Numbered

LEMMA SaveFacts ==
    ASSUME SInv, NEW p \in Partners
    PROVE  /\ saves[p] \in [state : SaveStates, press : Nat]
           /\ saves[p].press \in Nat /\ saves[p].press <= presses
           /\ Honest(p, saves[p], files, timers)
  BY HonestControls DEF SInv, SaveTypes, Numbered, AllHonest

LEMMA FileFacts ==
    ASSUME SInv, NEW f \in files
    PROVE  f \in Files /\ f.press \in Nat /\ f.press \in 1 .. presses /\ f.at \in Nat
  <1>1. f \in Files
    BY DEF SInv, SaveTypes
  <1>2. QED
    BY <1>1 DEF Files, SInv, Numbered

-----------------------------------------------------------------------------
(* A press.                                                                *)
LEMMA SaveStep ==
    ASSUME SInv, NEW p \in Partners, Save(p)
    PROVE  SInv'
  <1> DEFINE cap == Timer("cap", p, PrepareTimeout)
             prep == Timer("prepare", p, PrepareDelay)
             n == presses + 1
  <1>1. /\ presses' = n /\ UNCHANGED <<now, mount, files>>
        /\ saves' = [saves EXCEPT ![p] = [state |-> "preparing", press |-> n]]
        /\ timers' = ClearTimers(p) \cup {cap, prep}
    BY DEF Save
  <1>2. presses \in Nat /\ n \in Nat /\ mount \in Nat /\ now \in Nat
    BY DEF SInv, SaveTypes
  <1>3. /\ cap \in Timers /\ prep \in Timers
        /\ cap.kind = "cap" /\ prep.kind = "prepare"
        /\ \A t \in {cap, prep} : t.partner = p /\ t.press = n /\ t.mount = mount
    BY <1>2, DelaysType DEF Timer, Timers
  <1>4. \A t \in timers' : \/ t \in {cap, prep}
                           \/ t \in timers /\ t.press < n
                              /\ ~ (t.partner = p /\ t.mount = mount
                                    /\ t.kind \in {"prepare", "cap"})
    BY <1>1, <1>2, TimerFacts DEF ClearTimers, Own
  <1> HIDE DEF cap, prep, n
  <1>5. /\ saves'[p] = [state |-> "preparing", press |-> n]
        /\ \A q \in Partners : q # p => saves'[q] = saves[q]
    BY <1>1 DEF SInv, SaveTypes
  <1>6. SaveTypes'
    <2>1. [state |-> "preparing", press |-> n] \in [state : SaveStates, press : Nat]
      BY <1>2 DEF SaveStates
    <2>2. timers' \in SUBSET Timers
      BY <1>3, <1>4, TimerFacts
    <2>3. QED
      BY <1>1, <1>2, <2>1, <2>2 DEF SInv, SaveTypes
  <1>7. \A q \in Partners : q # p => saves[q].press < n
    BY <1>2, SaveFacts DEF n
  <1>8. Numbered'
    <2>1. \A q \in Partners : saves'[q].press <= presses'
      BY <1>1, <1>2, <1>5, <1>7, SaveFacts
    <2>2. \A t \in timers' : t.press \in 1 .. presses' /\ t.mount <= mount'
      BY <1>1, <1>2, <1>3, <1>4, TimerFacts DEF n
    <2>3. \A f \in files' : f.press \in 1 .. presses'
      BY <1>1, <1>2, FileFacts DEF n
    <2>4. QED
      BY <2>1, <2>2, <2>3 DEF Numbered
  <1>9. TimersOwned'
    <2>1. ASSUME NEW t \in timers', NEW q \in Partners, saves'[q].press = t.press
          PROVE  t.partner = q /\ t.mount = mount'
      BY <1>1, <1>2, <1>3, <1>4, <1>5, <1>7, <2>1, SaveFacts DEF SInv, TimersOwned
    <2>2. ASSUME NEW t \in timers', t.kind \in {"prepare", "cap"}, t.mount = mount'
          PROVE  saves'[t.partner].press = t.press
      BY <1>1, <1>3, <1>4, <1>5, <2>2, TimerFacts DEF SInv, TimersOwned
    <2>3. ASSUME NEW s \in timers', NEW t \in timers',
                 s.kind = "prepare", t.kind = "prepare", s.press = t.press
          PROVE  s = t
      BY <1>2, <1>3, <1>4, <2>3, TimerFacts DEF SInv, TimersOwned
    <2>4. QED
      BY <2>1, <2>2, <2>3 DEF TimersOwned
  <1>10. \A f \in files : f.press < n
    BY <1>2, FileFacts DEF n
  <1>11. FilesOwned'
    <2>1. ASSUME NEW t \in timers', NEW f \in files', t.kind = "prepare"
          PROVE  f.press # t.press
      BY <1>1, <1>2, <1>3, <1>4, <1>10, <2>1, FileFacts DEF SInv, FilesOwned
    <2>2. \A t \in timers' : t.kind = "revoke" => t \in timers
      BY <1>3, <1>4
    <2>3. QED
      BY <1>1, <2>1, <2>2 DEF SInv, FilesOwned
  <1>12. SaveStatesAreHonest'
    <2>1. ASSUME NEW q \in Partners
          PROVE  Honest(q, saves'[q], files', timers')
      <3>1. CASE q = p
        BY <1>1, <1>2, <1>3, <1>5, <1>10, <3>1, FileFacts DEF Honest, Handoffs
      <3>2. CASE q # p
        <4>1. Honest(q, saves[q], files, timers)
          BY SaveFacts
        <4>2. ASSUME NEW t \in timers, t.kind = "prepare", t.press = saves[q].press
              PROVE  t \in timers'
          BY <1>1, <3>2, <4>2 DEF SInv, TimersOwned, ClearTimers, Own
        <4>3. QED
          BY <1>1, <1>5, <3>2, <4>1, <4>2 DEF Honest
      <3>3. QED
        BY <3>1, <3>2
    <2>2. AllHonest'
      BY <2>1 DEF AllHonest
    <2>3. QED
      BY <1>6, <2>2, HonestControls, PTL
  <1>13. UrlsAreReleasedLate'
    <2>1. \A t \in timers : t.kind = "revoke" => t \in timers'
      BY <1>1 DEF ClearTimers, Own
    <2>2. QED
      BY <1>1, <2>1 DEF SInv, UrlsAreReleasedLate
  <1>14. QED
    BY <1>6, <1>8, <1>9, <1>11, <1>12, <1>13 DEF SInv

-----------------------------------------------------------------------------
(* Timers.                                                                 *)

(* A timer that fires takes timers away, and a control takes a state only  *)
(* from a timer of its own last press.                                     *)
Fewer(t) ==
    /\ timers' \in SUBSET timers /\ t \notin timers'
    /\ \A s \in timers : s \in timers' \/ s = t \/ s.kind = "cap"

LEMMA BecomesFacts ==
    ASSUME SInv, NEW t \in timers, t.kind \in {"prepare", "cap"}, NEW state \in SaveStates,
           Becomes(t, state)
    PROVE  /\ saves' \in [Partners -> [state : SaveStates, press : Nat]]
           /\ \A q \in Partners : saves'[q].press = saves[q].press
           /\ \A q \in Partners : saves[q].press # t.press => saves'[q] = saves[q]
           /\ \A q \in Partners : saves[q].press = t.press =>
                 q = t.partner /\ saves'[q].state = state
  <1>1. saves \in [Partners -> [state : SaveStates, press : Nat]]
    BY DEF SInv, SaveTypes
  <1>2. t.partner \in Partners
    BY TimerFacts
  <1>3. CASE t.mount = mount
    <2>1. saves' = [saves EXCEPT ![t.partner].state = state]
      BY <1>3 DEF Becomes
    <2>2. saves[t.partner].press = t.press
      BY <1>3 DEF SInv, TimersOwned
    <2>3. \A q \in Partners : saves[q].press = t.press => q = t.partner
      BY DEF SInv, TimersOwned
    <2>4. QED
      BY <1>1, <1>2, <2>1, <2>2, <2>3
  <1>4. CASE t.mount # mount
    <2>1. saves' = saves
      BY <1>4 DEF Becomes
    <2>2. \A q \in Partners : saves[q].press # t.press
      BY <1>4 DEF SInv, TimersOwned
    <2>3. QED
      BY <1>1, <2>1, <2>2
  <1>5. QED
    BY <1>3, <1>4

(* With fewer timers, and no file and no press more, all that is owned is. *)
LEMMA FewerOwned ==
    ASSUME SInv, NEW t \in timers, Fewer(t),
           saves' \in [Partners -> [state : SaveStates, press : Nat]],
           \A q \in Partners : saves'[q].press = saves[q].press,
           UNCHANGED <<now, mount, presses, files>>
    PROVE  SaveTypes' /\ Numbered' /\ TimersOwned' /\ FilesOwned'
  <1>1. \A s \in timers' : s \in timers /\ s.partner \in Partners
    BY TimerFacts DEF Fewer
  <1>2. SaveTypes'
    BY <1>1 DEF SInv, SaveTypes
  <1>3. Numbered'
    BY <1>1 DEF SInv, Numbered
  <1>4. TimersOwned'
    BY <1>1 DEF SInv, TimersOwned
  <1>5. FilesOwned'
    BY <1>1 DEF SInv, FilesOwned
  <1>6. QED
    BY <1>2, <1>3, <1>4, <1>5

(* A preparation that fails, or that is given up.                          *)
LEMMA FailStep ==
    ASSUME SInv, NEW t \in timers, PrepareFails(t) \/ GiveUp(t)
    PROVE  SInv'
  <1>1. /\ Fewer(t) /\ t.kind \in {"prepare", "cap"}
        /\ UNCHANGED <<now, mount, presses, files>>
        /\ Becomes(t, "failed") \/ (saves' = saves /\ t.kind = "cap")
    BY DEF PrepareFails, GiveUp, Fewer, Cap
  <1>2. /\ saves' \in [Partners -> [state : SaveStates, press : Nat]]
        /\ \A q \in Partners : saves'[q].press = saves[q].press
        /\ \A q \in Partners : saves'[q] = saves[q] \/ saves'[q].state = "failed"
        /\ \A q \in Partners : saves[q].press = t.press =>
              saves'[q].state = "failed" \/ t.kind = "cap"
    BY <1>1, BecomesFacts DEF SInv, SaveTypes, SaveStates
  <1>3. SaveTypes' /\ Numbered' /\ TimersOwned' /\ FilesOwned'
    BY <1>1, <1>2, FewerOwned
  <1>4. ASSUME NEW q \in Partners
        PROVE  Honest(q, saves'[q], files', timers')
    <2>1. Honest(q, saves[q], files, timers)
      BY SaveFacts
    <2>2. CASE saves'[q] = saves[q] /\ saves'[q].state = "preparing"
      <3>1. PICK s \in timers : s.kind = "prepare" /\ s.press = saves[q].press
        BY <2>1, <2>2 DEF Honest
      <3>2. s # t
        BY <1>2, <2>2, <3>1
      <3>3. s \in timers'
        BY <1>1, <3>1, <3>2 DEF Fewer
      <3>4. QED
        BY <1>1, <2>1, <2>2, <3>1, <3>3 DEF Honest
    <2>3. CASE saves'[q] = saves[q] /\ saves'[q].state # "preparing"
      BY <1>1, <2>1, <2>3 DEF Honest
    <2>4. CASE saves'[q] # saves[q]
      <3>1. saves'[q].state = "failed" /\ saves'[q].press = saves[q].press
        BY <1>2, <2>4
      <3>2. saves[q].press = t.press /\ Becomes(t, "failed")
        BY <1>1, <2>4, BecomesFacts DEF SaveStates
      <3>3. ~ \E f \in files : f.partner = q /\ f.press = saves[q].press
        <4>1. CASE t.kind = "prepare"
          BY <3>2, <4>1 DEF SInv, FilesOwned
        <4>2. CASE t.kind = "cap"
          <5>1. GiveUp(t) /\ saves[t.partner].state = "preparing" /\ t.partner = q
            <6>1. GiveUp(t)
              BY <4>2 DEF PrepareFails
            <6>2. t.partner = q
              BY <3>2 DEF SInv, TimersOwned
            <6>3. saves[q].state = "preparing"
              BY <2>4, <6>1, <6>2 DEF GiveUp
            <6>4. QED
              BY <6>1, <6>2, <6>3
          <5>2. QED
            BY <2>1, <5>1 DEF Honest
        <4>3. QED
          BY <1>1, <4>1, <4>2
      <3>4. QED
        BY <1>1, <3>1, <3>3 DEF Honest, Handoffs
    <2>5. QED
      BY <2>2, <2>3, <2>4
  <1>5. SaveStatesAreHonest'
    <2>1. AllHonest'
      BY <1>4 DEF AllHonest
    <2>2. QED
      BY <1>3, <2>1, HonestControls, PTL
  <1>6. UrlsAreReleasedLate'
    <2>1. \A s \in timers : s.kind = "revoke" => s \in timers'
      BY <1>1 DEF Fewer
    <2>2. QED
      BY <1>1, <2>1 DEF SInv, UrlsAreReleasedLate
  <1>7. QED
    BY <1>3, <1>5, <1>6 DEF SInv

(* The file is handed over, and its release is set.                        *)
LEMMA DeliverStep ==
    ASSUME SInv, NEW t \in timers, Deliver(t)
    PROVE  SInv'
  <1> DEFINE file == [partner |-> t.partner, press |-> t.press, at |-> now, alive |-> TRUE]
             release == [t EXCEPT !.kind = "revoke", !.set = now, !.due = now + RevokeDelay]
  <1>1. /\ t.kind = "prepare" /\ UNCHANGED <<now, mount, presses>>
        /\ files' = files \cup {file}
        /\ timers' = (timers \ (Cap(t) \cup {t})) \cup {release}
    BY DEF Deliver
  <1>2. PICK handoff \in Handoffs : Becomes(t, handoff)
    BY DEF Deliver, Handoffs
  <1>3. /\ saves' \in [Partners -> [state : SaveStates, press : Nat]]
        /\ \A q \in Partners : saves'[q].press = saves[q].press
        /\ \A q \in Partners : saves[q].press # t.press => saves'[q] = saves[q]
        /\ \A q \in Partners : saves[q].press = t.press =>
              q = t.partner /\ saves'[q].state = handoff
    BY <1>1, <1>2, BecomesFacts DEF SaveStates
  <1>4. now \in Nat
    BY DEF SInv, SaveTypes
  <1>5. /\ release \in Timers /\ release.kind = "revoke" /\ release.press = t.press
        /\ release.partner = t.partner /\ release.mount = t.mount
        /\ release.due = now + RevokeDelay
    <2>1. t \in Timers /\ now + RevokeDelay \in Nat
      BY <1>4, TimerFacts, DelaysType
    <2>2. QED
      BY <1>4, <2>1 DEF Timers
  <1>6. /\ file \in Files /\ file.press = t.press /\ file.partner = t.partner
        /\ file.at = now /\ file.alive = TRUE
    BY <1>4, TimerFacts DEF Files
  <1> HIDE DEF file, release
  <1>7. \A s \in timers' : s = release \/ (s \in timers /\ s # t)
    BY <1>1
  <1>8. \A f \in files : f.press # t.press
    BY <1>1 DEF SInv, FilesOwned
  <1>9. \A s \in timers : s.kind = "revoke" => s.press # t.press
    BY <1>8 DEF SInv, FilesOwned
  <1>10. SaveTypes'
    <2>1. timers' \in SUBSET Timers /\ files' \in SUBSET Files
      BY <1>1, <1>5, <1>6, <1>7 DEF SInv, SaveTypes
    <2>2. QED
      BY <1>1, <1>3, <2>1 DEF SInv, SaveTypes
  <1>11. Numbered'
    <2>1. \A s \in timers' : s.press \in 1 .. presses /\ s.mount <= mount
      BY <1>5, <1>7, TimerFacts
    <2>2. \A f \in files' : f.press \in 1 .. presses
      BY <1>1, <1>6, TimerFacts, FileFacts
    <2>3. QED
      BY <1>1, <1>3, <2>1, <2>2 DEF SInv, Numbered
  <1>12. TimersOwned'
    <2>1. ASSUME NEW s \in timers', NEW q \in Partners, saves'[q].press = s.press
          PROVE  s.partner = q /\ s.mount = mount'
      BY <1>1, <1>3, <1>5, <1>7, <2>1 DEF SInv, TimersOwned
    <2>2. ASSUME NEW s \in timers', s.kind \in {"prepare", "cap"}, s.mount = mount'
          PROVE  saves'[s.partner].press = s.press
      BY <1>1, <1>3, <1>5, <1>7, <2>2, TimerFacts DEF SInv, TimersOwned
    <2>3. ASSUME NEW s \in timers', NEW r \in timers',
                 s.kind = "prepare", r.kind = "prepare", s.press = r.press
          PROVE  s = r
      BY <1>5, <1>7, <2>3 DEF SInv, TimersOwned
    <2>4. QED
      BY <2>1, <2>2, <2>3 DEF TimersOwned
  <1>13. FilesOwned'
    <2>1. ASSUME NEW f \in files', NEW g \in files', f.press = g.press
          PROVE  f = g
      BY <1>1, <1>6, <1>8, <2>1 DEF SInv, FilesOwned
    <2>2. ASSUME NEW s \in timers', NEW f \in files', s.kind = "prepare"
          PROVE  f.press # s.press
      <3>1. s \in timers /\ s # t
        BY <1>5, <1>7, <2>2
      <3>2. s.press # t.press
        BY <1>1, <2>2, <3>1 DEF SInv, TimersOwned
      <3>3. QED
        BY <1>1, <1>6, <2>2, <3>1, <3>2 DEF SInv, FilesOwned
    <2>3. ASSUME NEW s \in timers', s.kind = "revoke"
          PROVE  \E f \in files' : f.press = s.press
      BY <1>1, <1>5, <1>6, <1>7, <2>3 DEF SInv, FilesOwned
    <2>4. ASSUME NEW s \in timers', NEW f \in files', s.kind = "revoke", f.press = s.press
          PROVE  s.due = f.at + RevokeDelay
      BY <1>1, <1>5, <1>6, <1>7, <1>8, <1>9, <2>4 DEF SInv, FilesOwned
    <2>5. QED
      BY <2>1, <2>2, <2>3, <2>4 DEF FilesOwned
  <1>14. ASSUME NEW q \in Partners
         PROVE  Honest(q, saves'[q], files', timers')
    <2>1. Honest(q, saves[q], files, timers)
      BY SaveFacts
    <2>2. CASE saves[q].press = t.press
      <3>1. saves'[q].state = handoff /\ saves'[q].press = t.press /\ q = t.partner
        BY <1>3, <2>2
      <3>2. file \in files' /\ file.partner = q /\ file.press = saves'[q].press
        BY <1>1, <1>6, <3>1
      <3>3. QED
        BY <3>1, <3>2 DEF Honest, Handoffs
    <2>3. CASE saves[q].press # t.press
      <3>1. saves'[q] = saves[q]
        BY <1>3, <2>3
      <3>2. (\E f \in files' : f.partner = q /\ f.press = saves[q].press)
            <=> \E f \in files : f.partner = q /\ f.press = saves[q].press
        BY <1>1, <1>6, <2>3
      <3>3. ASSUME NEW s \in timers, s.kind = "prepare", s.press = saves[q].press
            PROVE  s \in timers'
        BY <1>1, <2>3, <3>3 DEF Cap
      <3>4. QED
        BY <2>1, <3>1, <3>2, <3>3 DEF Honest
    <2>4. QED
      BY <2>2, <2>3
  <1>15. SaveStatesAreHonest'
    <2>1. AllHonest'
      BY <1>14 DEF AllHonest
    <2>2. QED
      BY <1>10, <2>1, HonestControls, PTL
  <1>16. UrlsAreReleasedLate'
    <2>1. \A s \in timers : s.kind = "revoke" => s \in timers'
      BY <1>1 DEF Cap
    <2>2. \A f \in files : IF f.alive
              THEN \E s \in timers' : s.kind = "revoke" /\ s.press = f.press
                                       /\ s.due = f.at + RevokeDelay
              ELSE now >= f.at + RevokeDelay
      BY <2>1 DEF SInv, UrlsAreReleasedLate
    <2>3. release \in timers'
      BY <1>1
    <2>4. QED
      BY <1>1, <1>5, <1>6, <2>2, <2>3 DEF UrlsAreReleasedLate
  <1>17. QED
    BY <1>10, <1>11, <1>12, <1>13, <1>15, <1>16 DEF SInv

(* A URL is released: its file's time has come.                            *)
LEMMA RevokeStep ==
    ASSUME SInv, NEW t \in timers, Revoke(t)
    PROVE  SInv'
  <1> DEFINE Released(f) == IF f.press = t.press THEN [f EXCEPT !.alive = FALSE] ELSE f
  <1>1. /\ t.kind = "revoke" /\ t.due <= now
        /\ timers' = timers \ {t}
        /\ files' = {Released(f) : f \in files}
        /\ UNCHANGED <<now, mount, presses, saves>>
    BY DEF Revoke, Fires
  <1>2. \A f \in files :
            /\ Released(f) \in Files /\ Released(f).press = f.press
            /\ Released(f).partner = f.partner /\ Released(f).at = f.at
            /\ Released(f).alive <=> (f.alive /\ f.press # t.press)
    BY FileFacts DEF Files
  <1>3. \A f \in files : Released(f) \in files'
    BY <1>1
  <1>4. \A g \in files' : \E f \in files : g = Released(f)
    BY <1>1
  <1> HIDE DEF Released
  <1>5. SaveTypes'
    <2>1. timers' \in SUBSET Timers /\ files' \in SUBSET Files
      BY <1>1, <1>2, <1>4 DEF SInv, SaveTypes
    <2>2. QED
      BY <1>1, <2>1 DEF SInv, SaveTypes
  <1>6. Numbered'
    BY <1>1, <1>2, <1>4 DEF SInv, Numbered
  <1>7. TimersOwned'
    BY <1>1 DEF SInv, TimersOwned
  <1>8. FilesOwned'
    <2>1. ASSUME NEW f \in files', NEW g \in files', f.press = g.press
          PROVE  f = g
      BY <1>2, <1>4, <2>1 DEF SInv, FilesOwned
    <2>2. ASSUME NEW s \in timers', NEW f \in files', s.kind = "prepare"
          PROVE  f.press # s.press
      BY <1>1, <1>2, <1>4, <2>2 DEF SInv, FilesOwned
    <2>3. ASSUME NEW s \in timers', s.kind = "revoke"
          PROVE  \E f \in files' : f.press = s.press
      BY <1>1, <1>2, <1>3, <2>3 DEF SInv, FilesOwned
    <2>4. ASSUME NEW s \in timers', NEW f \in files', s.kind = "revoke", f.press = s.press
          PROVE  s.due = f.at + RevokeDelay
      BY <1>1, <1>2, <1>4, <2>4 DEF SInv, FilesOwned
    <2>5. QED
      BY <2>1, <2>2, <2>3, <2>4 DEF FilesOwned
  <1>9. ASSUME NEW q \in Partners
        PROVE  Honest(q, saves'[q], files', timers')
    <2>1. Honest(q, saves[q], files, timers)
      BY SaveFacts
    <2>2. (\E f \in files' : f.partner = q /\ f.press = saves[q].press)
          <=> \E f \in files : f.partner = q /\ f.press = saves[q].press
      BY <1>2, <1>3, <1>4
    <2>3. \A s \in timers : s.kind = "prepare" => s \in timers'
      BY <1>1
    <2>4. QED
      BY <1>1, <2>1, <2>2, <2>3 DEF Honest
  <1>10. SaveStatesAreHonest'
    <2>1. AllHonest'
      BY <1>9 DEF AllHonest
    <2>2. QED
      BY <1>5, <2>1, HonestControls, PTL
  <1>11. UrlsAreReleasedLate'
    <2> SUFFICES ASSUME NEW g \in files'
                 PROVE  IF g.alive
                        THEN \E s \in timers' : s.kind = "revoke" /\ s.press = g.press
                                                 /\ s.due = g.at + RevokeDelay
                        ELSE now' >= g.at + RevokeDelay
      BY DEF UrlsAreReleasedLate
    <2>1. PICK f \in files : g = Released(f)
      BY <1>4
    <2>2. IF f.alive
          THEN \E s \in timers : s.kind = "revoke" /\ s.press = f.press
                                  /\ s.due = f.at + RevokeDelay
          ELSE now >= f.at + RevokeDelay
      BY DEF SInv, UrlsAreReleasedLate
    <2>3. CASE f.press = t.press
      <3>1. t.due = f.at + RevokeDelay
        BY <1>1, <2>3 DEF SInv, FilesOwned
      <3>2. now >= f.at + RevokeDelay
        BY <1>1, <3>1, FileFacts, DelaysType DEF SInv, SaveTypes
      <3>3. QED
        BY <1>1, <1>2, <2>1, <2>3, <3>2
    <2>4. CASE f.press # t.press
      BY <1>1, <1>2, <2>1, <2>2, <2>4
    <2>5. QED
      BY <2>3, <2>4
  <1>12. QED
    BY <1>5, <1>6, <1>7, <1>8, <1>10, <1>11 DEF SInv

(* Time passes.                                                            *)
LEMMA TickStep ==
    ASSUME SInv, Tick
    PROVE  SInv'
  <1>1. now' = now + 1 /\ UNCHANGED saveVars
    BY DEF Tick
  <1>2. now \in Nat
    BY DEF SInv, SaveTypes
  <1>3. SaveTypes' /\ Numbered' /\ TimersOwned' /\ FilesOwned'
    BY <1>1, <1>2 DEF SInv, SaveTypes, Numbered, TimersOwned, FilesOwned, saveVars
  <1>4. AllHonest'
    BY <1>1, SaveFacts DEF AllHonest, saveVars
  <1>5. SaveStatesAreHonest'
    BY <1>3, <1>4, HonestControls, PTL
  <1>6. \A f \in files : now >= f.at + RevokeDelay => now + 1 >= f.at + RevokeDelay
    BY <1>2, FileFacts, DelaysType
  <1>7. UrlsAreReleasedLate'
    BY <1>1, <1>6 DEF SInv, UrlsAreReleasedLate, saveVars
  <1>8. QED
    BY <1>3, <1>5, <1>7 DEF SInv

(* A screen with new controls: the timers of the old ones own none.        *)
LEMMA RemountStep ==
    ASSUME SInv, NEW to, Remount(to), UNCHANGED <<now, timers, files, presses>>
    PROVE  SInv'
  <1>1. mount' = mount + 1 /\ saves' = Untouched /\ mount \in Nat /\ presses \in Nat
    BY DEF Remount, SInv, SaveTypes
  <1>2. \A q \in Partners : saves'[q].state = "default" /\ saves'[q].press = 0
    BY <1>1 DEF Untouched
  <1>3. \A t \in timers : t.press # 0 /\ t.mount <= mount' /\ t.mount # mount'
    BY <1>1, TimerFacts
  <1>4. \A f \in files : f.press # 0
    BY FileFacts
  <1>5. SaveTypes'
    BY <1>1 DEF SInv, SaveTypes, Untouched, SaveStates
  <1>6. Numbered'
    BY <1>1, <1>2, <1>3 DEF SInv, Numbered
  <1>7. TimersOwned' /\ FilesOwned'
    BY <1>2, <1>3 DEF SInv, TimersOwned, FilesOwned
  <1>8. AllHonest'
    BY <1>2, <1>4 DEF AllHonest, Honest, Handoffs
  <1>9. SaveStatesAreHonest'
    BY <1>5, <1>8, HonestControls, PTL
  <1>10. UrlsAreReleasedLate'
    BY DEF SInv, UrlsAreReleasedLate
  <1>11. QED
    BY <1>5, <1>6, <1>7, <1>9, <1>10 DEF SInv

LEMMA SaveUnchanged ==
    ASSUME SInv, UNCHANGED <<now, saveVars>>
    PROVE  SInv'
  <1>1. SaveTypes' /\ Numbered' /\ TimersOwned' /\ FilesOwned' /\ UrlsAreReleasedLate'
    BY DEF SInv, SaveTypes, Numbered, TimersOwned, FilesOwned, UrlsAreReleasedLate, saveVars
  <1>2. AllHonest'
    BY SaveFacts DEF AllHonest, saveVars
  <1>3. SaveStatesAreHonest'
    BY <1>1, <1>2, HonestControls, PTL
  <1>4. QED
    BY <1>1, <1>3 DEF SInv

-----------------------------------------------------------------------------
(* The inductive invariant of the exchange: the live body is that of some  *)
(* draft that the form let through.                                        *)

DraftFields == {"fullName", "email", "phone", "category", "company", "roleOrTitle"}
Drafts ==
    {d \in [DraftFields -> TextKinds \cup ContactCategories] :
        \A field \in DraftFields : d[field] \in Takes(field)}

Envelope(d) == [id |-> "new", req |-> Body(d)]
Envelopes == {A!NoEnvelope} \cup {Envelope(d) : d \in {e \in Drafts : ~ Invalid(e)}}

Statuses == {"idle", "sending", "failed", "succeeded"}
FormStates == {"idle", "sending", "failed", "unavailable", "blocked"}
Results ==
    [outcome : {"ok", "retryable", "permanent", "not_configured"}, exhausted : BOOLEAN]

Clients ==
    [envelope : Envelopes, status : Statuses, retryable : BOOLEAN, exhausted : BOOLEAN,
     inFlight : BOOLEAN]
Forms == [draft : Drafts, state : FormStates, awaits : BOOLEAN]

ExchangeInv == form \in Forms /\ client \in Clients

-----------------------------------------------------------------------------
(* What the backend makes of a body: rule by rule.                         *)

LEMMA DraftFacts ==
    ASSUME NEW d \in Drafts
    PROVE  /\ \A field \in DraftFields \ {"category"} : d[field] \in TextKinds \ {Absent}
           /\ d.category \in ContactCategories \cup {"blank"}
  BY DEF Drafts, DraftFields, Takes

(* A text that is there and not blank is refused only for its length.      *)
LEMMA OptionalIsAccepted ==
    ASSUME NEW t \in TextKinds
    PROVE  OptionalString(Optional(t)) \in {Ok, "FIELD_TOO_LONG"}
  BY DEF OptionalString, Optional, Require, TextKinds, Absent, Ok

LEMMA RequiredIsAccepted ==
    ASSUME NEW t \in TextKinds \ {Absent}, t # "blank"
    PROVE  RequireString(t) \in {Ok, "FIELD_TOO_LONG"}
  BY DEF RequireString, Require, &&, Blank, TextKinds, Absent, Ok

LEMMA EmailIsAccepted ==
    ASSUME NEW t \in {"blank", "email", "long"}
    PROVE  OptionalEmail(Optional(t)) \in {Ok, "FIELD_TOO_LONG"}
  BY DEF OptionalEmail, OptionalString, Optional, IsEmail, Require, &&, Blank, Absent, Ok

LEMMA PhoneIsAccepted ==
    ASSUME NEW t \in {"blank", "phone", "tabbed", "long"}
    PROVE  OptionalPhone(Optional(t)) \in
              {Ok, "FIELD_TOO_LONG"} \cup (IF t = "tabbed" THEN {"INVALID_PHONE"} ELSE {})
  BY DEF OptionalPhone, OptionalString, ValidatePhone, Optional, Require, &&, Blank, Absent, Ok

LEMMA CategoryIsAccepted ==
    ASSUME NEW t \in ContactCategories
    PROVE  RequireToken(t, ContactCategories) = Ok
  BY DEF RequireToken, Require, &&, ContactCategories, DisplayStrings, Ok

(* The first of several verdicts that refuses is one of them.              *)
LEMMA FirstRefusal ==
    ASSUME NEW S, NEW a \in S, NEW b \in S
    PROVE  (a && b) \in S
  BY DEF &&

(* What every exchange carries beside its payload is accepted.             *)
LEMMA FrameIsAccepted ==
    ASSUME NEW d
    PROVE  ValidateSubmission(Body(d)) = ValidateContactExchange(Payload(d))
  <1> DEFINE b == Body(d)
  <1>1. /\ b.serverOwned = {} /\ b.submissionId = TRUE
        /\ b.locale = [page |-> "en", preferredFollowUp |-> Absent]
        /\ b.attribution = [sourceCategory |-> "qr", sourceDetail |-> "plain",
                            landingPage |-> "plain", intentToken |-> Absent,
                            refToken |-> Absent, utm |-> Absent]
        /\ b.payload = Payload(d) /\ b.submissionKind = "contact_exchange"
    BY DEF Body
  <1> HIDE DEF b
  <1>2. NoServerOwned(b, {}) = Ok /\ Require(b.submissionId, "INVALID_UUID") = Ok
    BY <1>1 DEF NoServerOwned, Require
  <1>3. ValidateLocale(b.locale) = Ok
    BY <1>1 DEF ValidateLocale, RequireToken, OptionalToken, Require, &&, Locales,
                DisplayStrings, Ok
  <1>4. ValidateAttribution(b.attribution) = Ok
    BY <1>1 DEF ValidateAttribution, RequireToken, OptionalToken, RequireString,
                OptionalString, Require, &&, SourceCategories, DisplayStrings, Blank,
                Absent, Ok
  <1>5. ValidateSubmission(b) = ValidateContactExchange(b.payload)
    BY <1>1, <1>2, <1>3, <1>4 DEF ValidateSubmission, &&
  <1>6. QED
    BY <1>1, <1>5 DEF b

(* Of the drafts the form lets through, the backend refuses only a text    *)
(* that is too long, and a phone number with white space of another kind.  *)
LEMMA ValidDraftIsAccepted ==
    ASSUME NEW d \in Drafts, ~ Invalid(d)
    PROVE  ValidateSubmission(Body(d)) \in
              {Ok, "FIELD_TOO_LONG"} \cup (IF d.phone = "tabbed" THEN {"INVALID_PHONE"} ELSE {})
  <1> DEFINE p == Payload(d)
             S == {Ok, "FIELD_TOO_LONG"}
                  \cup (IF d.phone = "tabbed" THEN {"INVALID_PHONE"} ELSE {})
  <1>1. /\ d.fullName \in TextKinds \ {Absent} /\ d.company \in TextKinds
        /\ d.roleOrTitle \in TextKinds
        /\ d.category \in ContactCategories \cup {"blank"}
    BY DraftFacts DEF DraftFields
  <1>2. /\ d.fullName # "blank" /\ d.category # "blank"
        /\ d.email # "blank" \/ d.phone # "blank"
        /\ d.email \in {"blank", "email", "long"}
        /\ d.phone \in {"blank", "phone", "tabbed", "long"}
    BY DEF Invalid, EmailErrors, PhoneErrors
  <1>3. /\ p.fullName = d.fullName /\ p.email = Optional(d.email)
        /\ p.phone = Optional(d.phone) /\ p.contactCategory = d.category
        /\ p.company = Optional(d.company) /\ p.roleOrTitle = Optional(d.roleOrTitle)
    BY DEF Payload
  <1> HIDE DEF p
  <1>4. RequireString(p.fullName) \in S
    BY <1>1, <1>2, <1>3, RequiredIsAccepted
  <1>5. OptionalEmail(p.email) \in S
    BY <1>2, <1>3, EmailIsAccepted
  <1>6. OptionalPhone(p.phone) \in S
    BY <1>2, <1>3, PhoneIsAccepted
  <1>7. Require(p.email \notin Blank \/ p.phone \notin Blank, "EMAIL_OR_PHONE_REQUIRED") \in S
    BY <1>2, <1>3 DEF Require, Blank, Optional, Absent
  <1>8. RequireToken(p.contactCategory, ContactCategories) \in S
    BY <1>1, <1>2, <1>3, CategoryIsAccepted
  <1>9. OptionalString(p.company) \in S /\ OptionalString(p.roleOrTitle) \in S
    BY <1>1, <1>3, OptionalIsAccepted
  <1> HIDE DEF S
  <1>10. ValidateContactExchange(p) \in S
    BY <1>4, <1>5, <1>6, <1>7, <1>8, <1>9, FirstRefusal DEF ValidateContactExchange
  <1>11. QED
    BY <1>10, FrameIsAccepted DEF p, S

LEMMA LiveBodyIsAccepted == ExchangeInv => ExchangeIsAccepted
  <1> SUFFICES ASSUME ExchangeInv, A!Live(client)
               PROVE  /\ ValidateSubmission(client.envelope.req) \in
                            {Ok, "FIELD_TOO_LONG", "INVALID_PHONE"}
                      /\ ValidateSubmission(client.envelope.req) = "INVALID_PHONE" =>
                            client.envelope.req.payload.phone = "tabbed"
    BY DEF ExchangeIsAccepted
  <1>1. PICK d \in Drafts : ~ Invalid(d) /\ client.envelope = Envelope(d)
    BY DEF ExchangeInv, Clients, Envelopes, A!Live
  <1>2. client.envelope.req = Body(d)
    BY <1>1 DEF Envelope
  <1>3. Body(d).payload.phone = Optional(d.phone)
    BY DEF Body, Payload
  <1>4. QED
    BY <1>1, <1>2, <1>3, ValidDraftIsAccepted DEF Optional, Absent, Ok

-----------------------------------------------------------------------------
(* Steps of the exchange.                                                  *)

LEMMA NewFormType == NewForm \in Forms
  <1>1. EmptyDraft \in [DraftFields -> TextKinds \cup ContactCategories]
    BY DEF EmptyDraft, DraftFields, TextKinds
  <1>2. \A field \in DraftFields : EmptyDraft[field] \in Takes(field)
    BY DEF EmptyDraft, DraftFields, TextKinds, Takes, Absent
  <1>3. EmptyDraft \in Drafts
    BY <1>1, <1>2 DEF Drafts
  <1>4. QED
    BY <1>3 DEF NewForm, Forms, FormStates

LEMMA MergeType ==
    ASSUME NEW d \in Drafts, NEW entry \in Entries
    PROVE  Merge(d, entry) \in Drafts
  <1>1. DOMAIN d = DraftFields /\ \A field \in DraftFields : d[field] \in Takes(field)
    BY DEF Drafts
  <1>2. \A field \in DraftFields : Merge(d, entry)[field] \in Takes(field)
    BY <1>1, CardAssumption DEF Merge
  <1>3. \A field \in DraftFields : Takes(field) \subseteq TextKinds \cup ContactCategories
    BY DEF Takes, TextKinds
  <1>4. Merge(d, entry) \in [DraftFields -> TextKinds \cup ContactCategories]
    BY <1>1, <1>2, <1>3 DEF Merge
  <1>5. QED
    BY <1>2, <1>4 DEF Drafts

LEMMA ClientFacts ==
    ASSUME NEW c \in Clients
    PROVE  /\ c.envelope \in Envelopes
           /\ A!Sending(c) \in Clients
           /\ \A result \in Results :
                 A!Applied(c, result) \in Clients
  <1>1. c.envelope \in Envelopes
    BY DEF Clients
  <1>2. A!Sending(c) \in Clients
    BY DEF Clients, A!Sending, Statuses
  <1>3. A!NoEnvelope \in Envelopes
    BY DEF Envelopes
  <1> HIDE DEF Envelopes
  <1>4. ASSUME NEW result \in Results
        PROVE  A!Applied(c, result) \in Clients
    BY <1>3 DEF Clients, A!Applied, A!Idle, Statuses, Results
  <1>5. QED
    BY <1>1, <1>2, <1>4

LEMMA BegunType ==
    ASSUME NEW e \in Envelopes
    PROVE  A!Begun(e) \in Clients
  BY DEF A!Begun, A!Idle, Clients, Statuses

LEMMA ResultTypes ==
    /\ A!NetworkFailure \in Results
    /\ \A code : A!ClassifyBackend(code) \in Results
  <1>1. /\ A!NetworkFailure \in Results
        /\ \A b \in BOOLEAN : /\ A!Result("permanent", b) \in Results
                             /\ A!Result("ok", b) \in Results
                             /\ A!Result("retryable", b) \in Results
                             /\ A!Result("not_configured", b) \in Results
    BY DEF A!Result, A!NetworkFailure, Results
  <1> HIDE DEF Results
  <1>2. ASSUME NEW code
        PROVE  A!ClassifyBackend(code) \in Results
    BY <1>1 DEF A!ClassifyBackend, A!NotConfigured
  <1>3. QED
    BY <1>1, <1>2

LEMMA FormStateType ==
    ASSUME NEW result \in Results
    PROVE  A!FormState(result) \in FormStates
  BY DEF A!FormState, FormStates

LEMMA EnterStep ==
    ASSUME ExchangeInv, NEW entry \in Entries, Enter(entry)
    PROVE  ExchangeInv'
  <1>1. form \in Forms /\ form.draft \in Drafts
    BY DEF ExchangeInv, Forms
  <1>2. /\ form' = [form EXCEPT !.draft = Merge(form.draft, entry)]
        /\ UNCHANGED client
    BY DEF Enter
  <1>3. Merge(form.draft, entry) \in Drafts
    BY <1>1, MergeType
  <1>4. form' \in Forms
    BY <1>1, <1>2, <1>3 DEF Forms
  <1>5. QED
    BY <1>2, <1>4 DEF ExchangeInv

LEMMA SubmitStep ==
    ASSUME ExchangeInv, Submit
    PROVE  ExchangeInv'
  <1>1. form \in Forms /\ form.draft \in Drafts /\ form.awaits \in BOOLEAN
    BY DEF ExchangeInv, Forms
  <1>2. Envelope(form.draft) \in Envelopes
    BY <1>1 DEF Submit, Envelopes
  <1>3. /\ client \in Clients /\ A!Sending(client) \in Clients
        /\ A!Sending(A!Begun(Envelope(form.draft))) \in Clients
    BY <1>2, BegunType, ClientFacts DEF ExchangeInv
  <1>4. client' \in Clients
    BY <1>3 DEF Submit, Envelope
  <1>5. PICK b \in BOOLEAN : form' = [form EXCEPT !.state = "sending", !.awaits = b]
    BY <1>1 DEF Submit
  <1>6. form' \in Forms
    BY <1>1, <1>5 DEF Forms, FormStates
  <1>7. QED
    BY <1>4, <1>6 DEF ExchangeInv

LEMMA RetryStep ==
    ASSUME ExchangeInv, Retry
    PROVE  ExchangeInv'
  <1>1. form' \in Forms
    BY DEF ExchangeInv, Retry, Forms, FormStates
  <1>2. client' \in Clients
    BY ClientFacts DEF ExchangeInv, Retry
  <1>3. QED
    BY <1>1, <1>2 DEF ExchangeInv

LEMMA ApplyStep ==
    ASSUME ExchangeInv, SInv, NEW result \in Results, Apply(result)
    PROVE  ExchangeInv' /\ SInv'
  <1>1. client' \in Clients
    BY ClientFacts DEF ExchangeInv, Apply
  <1>2. A!FormState(result) \in FormStates
    BY FormStateType
  <1>3. form' \in Forms
    BY <1>2 DEF ExchangeInv, Apply, Forms
  <1>4. SInv'
    <2>1. UNCHANGED <<now, timers, files, presses>>
      BY DEF Apply
    <2>2. CASE form.awaits /\ result.outcome = "ok"
      BY <2>1, <2>2, RemountStep DEF Apply
    <2>3. CASE ~ (form.awaits /\ result.outcome = "ok")
      BY <2>1, <2>3, SaveUnchanged DEF Apply, saveVars
    <2>4. QED
      BY <2>2, <2>3
  <1>5. QED
    BY <1>1, <1>3, <1>4 DEF ExchangeInv

-----------------------------------------------------------------------------
(* The card.                                                               *)

CardInv == SInv /\ ExchangeInv

LEMMA InitHolds == CardInit => CardInv
  <1> SUFFICES ASSUME CardInit
               PROVE  CardInv
    OBVIOUS
  <1>1. SaveTypes /\ Numbered /\ TimersOwned /\ FilesOwned /\ UrlsAreReleasedLate
    BY DEF CardInit, SaveTypes, Numbered, TimersOwned, FilesOwned, UrlsAreReleasedLate,
           Untouched, SaveStates
  <1>2. SaveStatesAreHonest
    BY DEF CardInit, SaveStatesAreHonest, Untouched
  <1>3. A!Idle \in Clients
    BY DEF A!Idle, Clients, Statuses, Envelopes
  <1>4. ExchangeInv
    BY <1>3, NewFormType DEF CardInit, ExchangeInv
  <1>5. QED
    BY <1>1, <1>2, <1>4 DEF CardInv, SInv

LEMMA StepHolds == CardInv /\ [CardNext]_cardVars => CardInv'
  <1> SUFFICES ASSUME SInv, ExchangeInv, [CardNext]_cardVars
               PROVE  SInv' /\ ExchangeInv'
    BY DEF CardInv
  <1>1. ASSUME NEW p \in Partners, Save(p)
        PROVE  SInv' /\ ExchangeInv'
    BY <1>1, SaveStep DEF Save, ExchangeInv, exchangeVars
  <1>2. ASSUME NEW t \in timers, Deliver(t) \/ PrepareFails(t) \/ GiveUp(t) \/ Revoke(t)
        PROVE  SInv' /\ ExchangeInv'
    <2>1. ExchangeInv'
      BY <1>2 DEF Deliver, PrepareFails, GiveUp, Revoke, ExchangeInv, exchangeVars
    <2>2. SInv'
      BY <1>2, DeliverStep, FailStep, RevokeStep
    <2>3. QED
      BY <2>1, <2>2
  <1>3. CASE Tick
    BY <1>3, TickStep DEF Tick, ExchangeInv, exchangeVars
  <1>4. CASE OpenExchange
    BY <1>4, SaveUnchanged, NewFormType DEF OpenExchange, ExchangeInv
  <1>5. CASE Close
    BY <1>5, RemountStep, NewFormType DEF Close, ExchangeInv
  <1>6. ASSUME NEW entry \in Entries, Enter(entry)
        PROVE  SInv' /\ ExchangeInv'
    <2>1. UNCHANGED <<now, saveVars>>
      BY <1>6 DEF Enter
    <2>2. QED
      BY <1>6, <2>1, SaveUnchanged, EnterStep
  <1>7. CASE Submit
    <2>1. UNCHANGED <<now, saveVars>>
      BY <1>7 DEF Submit
    <2>2. QED
      BY <1>7, <2>1, SaveUnchanged, SubmitStep
  <1>8. CASE Retry
    <2>1. UNCHANGED <<now, saveVars>>
      BY <1>8 DEF Retry
    <2>2. QED
      BY <1>8, <2>1, SaveUnchanged, RetryStep
  <1>9. CASE Judged \/ Undelivered
    BY <1>9, ApplyStep, ResultTypes DEF Judged, Undelivered
  <1>10. CASE UNCHANGED cardVars
    BY <1>10, SaveUnchanged DEF cardVars, ExchangeInv, exchangeVars
  <1>11. QED
    BY <1>1, <1>2, <1>3, <1>4, <1>5, <1>6, <1>7, <1>8, <1>9, <1>10 DEF CardNext

(* The inductive invariant holds always.                                   *)
THEOREM CardInductiveInvariant == CardSpec => []CardInv
  BY InitHolds, StepHolds, PTL DEF CardSpec

(* Whatever the order of presses, screens and timers, in any number, a     *)
(* Save control says what is true of its last press.                       *)
THEOREM CardSaveStatesAreHonest == CardSpec => []SaveStatesAreHonest
  <1>1. CardInv => SaveStatesAreHonest
    BY DEF CardInv, SInv
  <1>2. QED
    BY <1>1, CardInductiveInvariant, PTL

(* Every file handed over will have its URL released, and no sooner than   *)
(* the delay after the click.                                              *)
THEOREM CardUrlsAreReleasedLate == CardSpec => []UrlsAreReleasedLate
  <1>1. CardInv => UrlsAreReleasedLate
    BY DEF CardInv, SInv
  <1>2. QED
    BY <1>1, CardInductiveInvariant, PTL

(* What the exchange form sends, after any sequence of entries, the        *)
(* backend's validation accepts, but for the two refusals the form's own   *)
(* rules leave to it.                                                      *)
THEOREM CardExchangeIsAccepted == CardSpec => []ExchangeIsAccepted
  <1>1. CardInv => ExchangeIsAccepted
    BY LiveBodyIsAccepted DEF CardInv
  <1>2. QED
    BY <1>1, CardInductiveInvariant, PTL
=============================================================================
