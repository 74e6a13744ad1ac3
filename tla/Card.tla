-------------------------------- MODULE Card --------------------------------
(***************************************************************************)
(* The QR card as a visitor handles it (apps/qr): one Save control for     *)
(* every partner (useSaveContact.ts, SaveContactButton.tsx), and the       *)
(* contact exchange that takes the card's place while it is open           *)
(* (Profile.tsx, exchange/), with its own Save controls once it succeeded. *)
(*                                                                         *)
(* A control is mounted with its screen and forgotten with it, but its     *)
(* timers run on.  A timer fires at any time after it is due: a phone may  *)
(* sleep, and of two timers the browser owes an order only to the earlier  *)
(* one that waits no longer.  The client of the exchange is Attempt; the   *)
(* backend is the rules of Contract.                                       *)
(***************************************************************************)
EXTENDS Contract, FiniteSets

CONSTANTS
    Partners,           \* the people on the card
    Entries,            \* what is entered in the form, as in Inquiry
    PrepareDelay, PrepareTimeout, RevokeDelay,  \* useSaveContact's delays
    MaxPresses, MaxMounts, MaxTime              \* bounds

(* What a field of the exchange takes: a text, or a choice of the list.    *)
Takes(field) ==
    IF field = "category" THEN ContactCategories \cup {"blank"} ELSE TextKinds \ {Absent}

ASSUME CardAssumption ==
    /\ {PrepareDelay, PrepareTimeout, RevokeDelay} \subseteq Nat
    /\ PrepareDelay < PrepareTimeout /\ PrepareTimeout < RevokeDelay
    /\ \A entry \in Entries : \A field \in DOMAIN entry : entry[field] \in Takes(field)

A == INSTANCE Attempt

VARIABLES
    now,
    screen,             \* "card", "form" or "success"
    mount,              \* the number of the Save controls on the screen
    saves,              \* the state of each of them, and its last press
    timers,             \* timers that have not fired
    files,              \* history: the files handed over, with their URLs
    presses,            \* history: how often Save was pressed
    form,               \* the contact exchange, while it is open
    client              \* the submission client, which outlives it

saveVars == <<mount, saves, timers, files, presses>>
exchangeVars == <<form, client>>
cardVars == <<now, screen, saveVars, exchangeVars>>

-----------------------------------------------------------------------------
(* Save controls.  A timer of kind "prepare" ends the preparation, "cap"   *)
(* gives it up, "revoke" releases the URL of a file; the first two belong  *)
(* to the control that set them, and are its to clear.                     *)

Untouched == [p \in Partners |-> [state |-> "default", press |-> 0]]

Timer(kind, p, delay) ==
    [kind |-> kind, partner |-> p, mount |-> mount, press |-> presses + 1,
     set |-> now, due |-> now + delay]

Own(p, m) ==
    {t \in timers : t.partner = p /\ t.mount = m /\ t.kind \in {"prepare", "cap"}}

(* Mutant: the timers of an earlier press run on.                          *)
ClearTimersOfNone(p) == timers

(* Mutant: the release of the last file is in the list as well.            *)
ClearTimersAndRevoke(p) == {t \in timers : t.partner # p \/ t.mount # mount}

ClearTimers(p) == timers \ Own(p, mount)

(* The button is disabled while it prepares.                               *)
Save(p) ==
    /\ screen \in {"card", "success"}
    /\ saves[p].state # "preparing"
    /\ presses < MaxPresses
    /\ presses' = presses + 1
    /\ saves' = [saves EXCEPT ![p] = [state |-> "preparing", press |-> presses + 1]]
    /\ timers' = ClearTimers(p) \cup {Timer("cap", p, PrepareTimeout),
                                      Timer("prepare", p, PrepareDelay)}
    /\ UNCHANGED <<now, screen, mount, files, exchangeVars>>

(* A control that is no longer there takes no state.                       *)
Becomes(t, state) ==
    saves' = IF t.mount = mount THEN [saves EXCEPT ![t.partner].state = state] ELSE saves

SetBefore(s, t) == s.set < t.set \/ (s.set = t.set /\ s.press < t.press)

Fires(t) ==
    /\ t.due <= now
    /\ \A s \in timers : SetBefore(s, t) => s.due - s.set > t.due - t.set

Cap(t) == {c \in timers : c.kind = "cap" /\ c.press = t.press}

(* The preparation fails: the cap is cleared, nothing was handed over.     *)
PrepareFails(t) ==
    /\ Fires(t) /\ t.kind = "prepare"
    /\ timers' = timers \ (Cap(t) \cup {t})
    /\ Becomes(t, "failed")
    /\ UNCHANGED <<now, screen, mount, files, presses, exchangeVars>>

(* deliverContactFile: a URL, the click, and the release put off.          *)
Deliver(t) ==
    /\ Fires(t) /\ t.kind = "prepare"
    /\ files' = files \cup {[partner |-> t.partner, press |-> t.press, at |-> now,
                             alive |-> TRUE]}
    /\ timers' = (timers \ (Cap(t) \cup {t})) \cup
                    {[t EXCEPT !.kind = "revoke", !.set = now, !.due = now + RevokeDelay]}
    /\ \E handoff \in {"handoffMobile", "handoffWide"} : Becomes(t, handoff)
    /\ UNCHANGED <<now, screen, mount, presses, exchangeVars>>

(* Six seconds are over.                                                   *)
GiveUp(t) ==
    /\ Fires(t) /\ t.kind = "cap"
    /\ timers' = timers \ {t}
    /\ IF saves[t.partner].state = "preparing" THEN Becomes(t, "failed") ELSE UNCHANGED saves
    /\ UNCHANGED <<now, screen, mount, files, presses, exchangeVars>>

Revoke(t) ==
    /\ Fires(t) /\ t.kind = "revoke"
    /\ timers' = timers \ {t}
    /\ files' = {IF f.press = t.press THEN [f EXCEPT !.alive = FALSE] ELSE f : f \in files}
    /\ UNCHANGED <<now, screen, mount, saves, presses, exchangeVars>>

Tick ==
    /\ now < MaxTime
    /\ now' = now + 1
    /\ UNCHANGED <<screen, saveVars, exchangeVars>>

-----------------------------------------------------------------------------
(* The exchange: model.ts and toWire.ts.                                   *)

EmptyDraft ==
    [fullName |-> "blank", email |-> "blank", phone |-> "blank", category |-> "blank",
     company |-> "blank", roleOrTitle |-> "blank"]

(* The email rule is the backend's; the phone rule allows white space of   *)
(* any kind, but no extension.  Neither looks at the length of the text.   *)
EmailErrors(d) == d.email \notin {"blank", "email", "long"}
PhoneErrors(d) == d.phone \notin {"blank", "phone", "tabbed", "long"}

(* Mutant: one of the two ways to be reached is not asked for.             *)
InvalidFieldByField(d) ==
    d.fullName = "blank" \/ EmailErrors(d) \/ PhoneErrors(d) \/ d.category = "blank"

(* validateDraft.                                                          *)
Invalid(d) ==
    \/ d.fullName = "blank"
    \/ d.email = "blank" /\ d.phone = "blank"
    \/ EmailErrors(d) \/ PhoneErrors(d)
    \/ d.category = "blank"

Optional(t) == IF t = "blank" THEN Absent ELSE t

Payload(d) ==
    [fullName |-> d.fullName, email |-> Optional(d.email), phone |-> Optional(d.phone),
     contactCategory |-> d.category, company |-> Optional(d.company),
     roleOrTitle |-> Optional(d.roleOrTitle)]

(* toEnvelopeDraft: an English page, and the firm's card.                  *)
Body(d) ==
    [submissionKind |-> "contact_exchange", serverOwned |-> {}, submissionId |-> TRUE,
     locale |-> [page |-> "en", preferredFollowUp |-> Absent],
     attribution |-> [sourceCategory |-> "qr", sourceDetail |-> "plain",
                      landingPage |-> "plain", intentToken |-> Absent,
                      refToken |-> Absent, utm |-> Absent],
     payload |-> Payload(d)]

-----------------------------------------------------------------------------
(* The exchange: useExchange.ts and ContactExchange.tsx.                   *)

NewForm == [draft |-> EmptyDraft, state |-> "idle", awaits |-> FALSE]

(* A screen with Save controls appears: they are new.                      *)
Remount(to) ==
    /\ screen' = to
    /\ mount' = mount + 1
    /\ saves' = Untouched

OpenExchange ==
    /\ screen = "card"
    /\ mount + 2 <= MaxMounts
    /\ screen' = "form"
    /\ form' = NewForm
    /\ UNCHANGED <<now, saveVars, client>>

(* The form is gone, and with it who waits for the call.                   *)
Close ==
    /\ screen \in {"form", "success"}
    /\ Remount("card")
    /\ form' = NewForm
    /\ UNCHANGED <<now, timers, files, presses, client>>

Merge(d, entry) ==
    [field \in DOMAIN d |-> IF field \in DOMAIN entry THEN entry[field] ELSE d[field]]

(* Read-only while sending.                                                *)
Enter(entry) ==
    /\ screen = "form" /\ form.state # "sending"
    /\ Merge(form.draft, entry) # form.draft
    /\ form' = [form EXCEPT !.draft = Merge(@, entry)]
    /\ UNCHANGED <<now, screen, saveVars, client>>

Same == A!Live(client) /\ client.envelope.req = Body(form.draft)

(* Refused by the client, the form still says that it sends.               *)
Submit ==
    /\ screen = "form" /\ form.state \notin {"sending", "failed"}
    /\ ~ Invalid(form.draft)
    /\ form' = [form EXCEPT !.state = "sending", !.awaits = @ \/ ~ A!Refuses(client, Same)]
    /\ client' = IF A!Refuses(client, Same) THEN client
                 ELSE IF A!NeedsNew(client, Same)
                 THEN A!Sending(A!Begun([id |-> "new", req |-> Body(form.draft)]))
                 ELSE A!Sending(client)
    /\ UNCHANGED <<now, screen, saveVars>>

(* After a failure the button resends what failed.                         *)
Retry ==
    /\ screen = "form" /\ form.state = "failed"
    /\ ~ A!RefusesRetry(client)
    /\ form' = [form EXCEPT !.state = "sending", !.awaits = TRUE]
    /\ client' = A!Sending(client)
    /\ UNCHANGED <<now, screen, saveVars>>

Apply(result) ==
    /\ client.inFlight
    /\ client' = A!Applied(client, result)
    /\ form' = IF form.awaits
               THEN [form EXCEPT !.state = A!FormState(result), !.awaits = FALSE]
               ELSE form
    /\ IF form.awaits /\ result.outcome = "ok" THEN Remount("success")
                                               ELSE UNCHANGED <<screen, mount, saves>>
    /\ UNCHANGED <<now, timers, files, presses>>

Judged == Apply(A!ClassifyBackend(ValidateSubmission(client.envelope.req)))
Undelivered == Apply(A!NetworkFailure)

-----------------------------------------------------------------------------
CardInit ==
    /\ now = 0 /\ screen = "card" /\ mount = 1 /\ saves = Untouched
    /\ timers = {} /\ files = {} /\ presses = 0
    /\ form = NewForm /\ client = A!Idle

CardNext ==
    \/ \E p \in Partners : Save(p)
    \/ \E t \in timers : Deliver(t) \/ PrepareFails(t) \/ GiveUp(t) \/ Revoke(t)
    \/ Tick
    \/ OpenExchange \/ Close
    \/ \E entry \in Entries : Enter(entry)
    \/ Submit \/ Retry
    \/ Judged \/ Undelivered

CardSpec == CardInit /\ [][CardNext]_cardVars

-----------------------------------------------------------------------------
(* Properties.                                                             *)

(* "Every state below reports only what the page actually knows", and "a   *)
(* second press must not be governed by the first press's clock": what a   *)
(* control says is true of its last press, whatever timers of earlier      *)
(* presses, of the other control or of a screen that is gone fire when the *)
(* phone wakes up.                                                         *)
SaveStatesAreHonest ==
    \A p \in Partners :
        LET last == saves[p].press
            delivered == \E f \in files : f.partner = p /\ f.press = last
        IN CASE saves[p].state = "preparing" ->
                  /\ ~ delivered
                  /\ \E t \in timers : t.kind = "prepare" /\ t.press = last
             [] saves[p].state \in {"handoffMobile", "handoffWide"} -> delivered
             [] OTHER -> ~ delivered

(* A file's URL outlives the reading of it and is released after: every    *)
(* file handed over and not yet released has a release to come, no sooner  *)
(* than RevokeDelay after the click, whatever is pressed or left meanwhile.*)
UrlsAreReleasedLate ==
    \A f \in files :
        IF f.alive
        THEN \E t \in timers : t.kind = "revoke" /\ t.press = f.press
                                /\ t.due = f.at + RevokeDelay
        ELSE now >= f.at + RevokeDelay

(* "Matched to scripts/gas-v2 so the browser catches what the server would *)
(* reject": of what the form lets through, the backend refuses only a text *)
(* that is too long, and a number with a tab or a line break in it.        *)
ExchangeIsAccepted ==
    A!Live(client) =>
        LET verdict == ValidateSubmission(client.envelope.req)
        IN /\ verdict \in {Ok, "FIELD_TOO_LONG", "INVALID_PHONE"}
           /\ verdict = "INVALID_PHONE" => client.envelope.req.payload.phone = "tabbed"
=============================================================================
