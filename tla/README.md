# A formal model of the AxisPoint intake

This directory holds TLA+ specifications of the AxisPoint web system, the TLC
configurations that check them on small instances, and TLAPS proofs of what
matters most. Everything is written from the code under `src/`; paths below are
relative to it. `gas` stands for `scripts/gas-v2/src`.

The system takes inquiries from a website and contact exchanges from QR cards.
A browser posts one JSON envelope to a Google Apps Script endpoint, which writes
five spreadsheet tabs and queues mail; a scheduled worker drains the queue, a
scheduled digest mails the partners the QR contacts of the day, and a visitor
whose inquiry is stored may book a call against the partners' calendar. There is
no database and no transaction: the hard part is what remains true when a call
is lost, repeated or overtaken, and when an execution dies between two cells.

## 1. Inventory

| Component | State it keeps | Operations | What is hard about it |
|---|---|---|---|
| Intake request path (`gas/core/Intake.js`, `entrypoints/Entry.js`) | rows in Submissions, Leads, Contacts, Deliveries, Work | `handlePost`, `processSubmission`, `reconcileSubmission`, `replayResult` | five appends under one lock, no transaction; deaths between any two; repairs long after the fact; replays and conflicts |
| Filing (`core/Spam.js`, `Matching.js`, `Attribution.js`, `Domain.js`, `Records.js`) | none | screening, matching, attribution, the rows of a request, the context of a repair | the first attempt and a repair days later must write the same |
| Sheet repositories (`gas/platform/SheetRepository.js`) | the tabs | append, first match, patch cell by cell, `enqueue`, `claimDue`, columns by name | nothing is atomic beyond one call; the partners edit the same tabs |
| Work queue and mail handlers (`scheduled/Worker.js`, `core/Notifications.js`) | the Work tab, status cells in Deliveries | `runWorkerCycle`, four handlers, `setDelivery`, `__patch` | bounded at-least-once delivery; five cells per mark; a booking enqueues in the middle of a cycle |
| Booking command (`core/Booking.js`, `platform/GoogleServices.js`) | three cells of a Lead, the calendar | `executeBookingCommand`, `handleSendBookingConfirmation` | **no lock**: commands interleave; a lost calendar answer; a death after the event |
| Daily digest (`scheduled/Digest.js`) | `digestStatus` in Deliveries | `runDailyQrDigest`, `deliverPlan`, `splitDigestModel`, `packPartsWithinCeiling` | several mails to several people for one mark; deaths between marks; cutting under a ceiling |
| Retention (`scheduled/Retention.js`) | removes finished work and old logs | `runRetentionMaintenance`, `removeByIds` | rows are deleted by number while a booking appends |
| Contract (`core/Contract.js`, `Tokens.js`, `shared/Util.js`) | none | `parseEnvelope`, `validateSubmission`, `validateBookingRequest` | written again by hand in two browsers |
| SLA and slot window (`core/Sla.js`, `core/Booking.js`), slot candidates (`apps/web/src/intake/booking/availability.ts`) | none | due times, the accepted window, the offered slots | a change of the zone's offset; two programs that must agree |
| Settings and provisioning (`platform/Config.js`, `Provisioning.js`, `Runtime.js`, `core/Routing.js`) | Script Properties, headers of tabs | `readConfig`, `missingConfigFor`, `verifyProperties`, `provisionTab` | lists kept by hand in two files; provisioning that dies half-way |
| Mails (`gas/emails/`) | none | five renderers, the locale of a mail | every mail is written twice, html and text |
| Submission and booking clients, transport (`packages/submission-client/src`) | a live envelope, its last failure, an in-flight flag | `submit`, `request`, `retry`, reading an answer | one id per attempt, byte for byte, through timeouts and edits; answers of somebody in between |
| Website form and schedule screen (`apps/web/src/intake`) | draft, screen, step, submit and booking state | edits, doors, steps, `submit`, `retry`, pickers, `confirmBooking`, applying results | answers outlive their screen; results arrive at a screen that has moved on |
| QR card (`apps/qr/src`): exchange form, Save controls | draft, send state; a small state, timers and files per control | edits, one button for submit and retry; save, timers | the client outlives the form; timers race presses and screens |
| Locales (`apps/web/src/i18n`, `components/LanguageSelector.tsx`) | the address; catalog, document language, cycling word | navigation, effects, fetches, timers, the menu | asynchronous loads and timers against navigation |
| Builds (`vite.config.ts`, `vite.endpoint.ts`, `submissionClient.ts`, `bookingClient.ts`) | one client per page | endpoint, simulator and catalogs of a build | simulated success must never reach a live page |
| Other pages, leasing site, brand package, hosting scripts | none | | presentation and one-off scripts |

**Who talks to whom.** A form calls the shared client (one per page, it outlives
the form) and awaits its answer. The client posts through the transport, which
gives up after 20 s *while the execution it started runs on*. `handlePost` runs
an intake under the script lock (at most 20 s of waiting, then
`BUSY_TRY_AGAIN`), and a booking with no lock at all. The worker, the digest and
retention take the same script lock for a whole cycle. They and the request path
communicate only through the tabs.

**What makes each component correct.**

* Intake: one record per request whatever is retried; "stored" is said only of
  what is completely stored; a repaired record is the record that was accepted.
* Worker: a second mail only after a lost outcome; bounded mails; final states
  are final and true; every item finishes.
* Booking: confirmed only after an event was created; no two of our events at
  one time (unless the commands raced); a recorded booking is not undone by
  retries; a mail is sent on a reading of the Lead that only an overlapping command
  can have made old; who is told confirmed is mailed.
* Digest: delivered means read by everybody concerned; repeats only after a
  failure; routing by attribution; everything is read in the end, and nothing is
  lost where a mail is cut.
* Retention: what is pending survives. Columns: a value stays under its name.
* Clients and forms: never a false success, never a second record the visitor
  did not cause, never a conflict; every call comes back; what a form lets through
  the backend accepts; what a screen says was sent was sent.
* Card: what a control says is true of its last press.
* Calendar, settings, mails, locales, builds: two places that say the same thing
  agree for every input.

## 2. The modules

| Module | Models | State and actions, and where they come from |
|---|---|---|
| `Store` | the tabs as sequences of rows | `Find`, `Queued`, `Enqueue`: first-match reads and the enqueue search of `SheetRepository.js` |
| `Intake` | the request path | a post waits in `inbox`; `exec` is the execution that holds the lock, its `pc` the next append. `BeginNew`/`BeginReplay`/`RefuseConflict` are the head of `processSubmission`; `InsertSubmission` ... `EnqueueNotify` one append each, skipped by a replay when the row is there; `Answer`, `Throw`, `Killed`, `LockUnavailable` end it. A replay reads its context off the audit row (`ReconciliationContext`) |
| `AtomicIntake` | the promise | a ledger: a request is entered at once, whole, and never altered; answers report entries. `Intake!ImplementsAtomicIntake` maps the tabs to it: an entry exists when the last of its rows does |
| `IntakeProofs` | | the proofs about `Intake`, and that it implements `AtomicIntake` |
| `Worker` | one cycle at a time over the Work tab | `StartCycle` claims; each item goes through one of the outcomes of its handler (`Refuse`, `Skip`, `NotConfigured`, `CannotRender`, `MailFails`, `Send`, `HandlerThrows`), `Record` (`setDelivery`) and `MarkState`, `MarkAttempts`, `MarkDue`, `MarkDone` (`__patch`, cell by cell; `lastError` is left out). `CycleDies` anywhere. `Arrive` enqueues at any time, in the middle of a cycle too |
| `Booking` | commands that interleave | `cmds` holds every command with its program counter. `Start` is everything decided on the one reading of the Lead; then `List*`, `CreateEvent` (which may insert and not answer), `SetActive`/`SetStatus`/`SetEvent` (the cells, in `updateLeadFields` order), `SearchWork`/`AppendWork`, `Answer`; `Die` anywhere. The confirmation handler reads the Lead (`CheckLead`, `Withhold`) and later sends (`Mail`, `NotMailed`); the commands, which it does not lock out, run in between, and `rivals` remembers those that were running when it read |
| `Digest` | one run at a time | `StartRun` reads the eligible contacts; per partner `SendPart` any number of times, then `PlanDelivered` or `PlanFails`; `Mark` contact by contact; `RunDies` anywhere |
| `Attempt` | the client as functions of its state | `NeedsNew`, `Refuses`, `RefusesRetry`, `Applied`, and the classification of answers; `attempt.ts` and `booking.ts` are one machine |
| `Transport` | reading an answer (extends `Attempt`) | `Read`, `ReadBooking`: a body is a success only if it proves that it answers this very request |
| `Session` | form + client + network + `Intake` | extends `Intake`; `Send` posts or loses the envelope, `TimeOut` gives up a call that runs on, `AnsweredElsewhere` is an intermediary, `Deliver` ends a call. `form.awaits` says whether the form that made the call is still there |
| `Scheduling` | schedule screen + client + network + `Booking` | extends `Booking`, in the same way |
| `Contract` | the backend's validation | `ValidateSubmission` and `ValidateBookingRequest` as functions of a body: its blocks, tokens and the classes of its texts |
| `Inquiry` | the website's contact page (extends `Locale`) | `ChoosePathway`, `BackToGateway`, `Go`, `Answer`, `FollowLink`, `SwitchLocale`; `SubmitInvalid`/`SubmitUnmapped`/`Submit`/`Retry`; `Judged` and `Undelivered` apply a result; `Body` makes what is sent, `Contract` judges it |
| `Card` | the QR card (extends `Contract`) | two Save controls with `timers` that fire at any time after they are due, `files` with their URLs, screens that come and go; the exchange form with its validation and mapping |
| `Selector` | the language of a page as shown | `Navigate` is a render, `RunEffects` what follows it; `Resolved`/`LoadFails` a fetch of either page, `HoldEnds`/`FadeEnds` the timers of the cycling word; `ChooseLocale` the menu, at any time, a fade included |
| `Locale` | addresses | `ParseLocalePath`, the routes, links, alternates and the selector's target as functions of a path. The routes are matched as the router does it: in any case of their letters, decoded, with any number of slashes after them (`RouteOf`, `IsPage`); the locale's prefix, which `LocaleGate` compares itself, exactly |
| `Calendar` | times of the firm's zone | `Candidates` (`availability.ts`), `ValidateSlotWindow` (`Booking.js`), `DueAt` (`Sla.js`), `FormatInstant` (the mails), in half hours |
| `Packing` | cutting a digest | a digest in the making: `BuildDigestModel` orders the records group after group, `Place` puts one into the part at hand or a new one, `Measure` ends the attempt: sent, cut again with more room for the shell, or given up |
| `Retention` | what a purge removes | the two tabs and the run over them: `PlanRetention` picks ids (`Expired`), `FindRows` their row numbers, `DeleteNext` one row by its number, the last first; `Appended` is a booking in between, `Ended` a death anywhere |
| `Filing` | what is written of a request | screening, matching, attribution and language; `AcceptanceContext` against `RecoveredContext`, which reads the suggestions back from the text they were stored as |
| `Columns` | a tab read and written by names | `AppendRecord`, `PatchRecord`, `Provision`; what partners do to a tab |
| `Settings` | the Script Properties | `MissingConfigFor`, `PropertySchema`, the wiring, the recipients |
| `Build` | what a page sends with | `ResolveEndpoint`, `NetworkEnabled`, `CreateTransport`, `Simulate`, catalogs; `GetClient` makes a client at its first use |
| `Letters` | what the mails say (extends `Settings`) | the five renderers as sets of statements, html and text apart; `Language` |
| `Rules` | the rules above as one machine | a behaviour takes up one rule and lets its input grow: addresses segment by segment, half hours, contacts, rows, people, fields; a digest is made record by record (`MakeDigest`), maintenance runs call by call (`Maintain`), and a tab, the properties and a page change as they are used |
| `WorkerProofs`, `DigestProofs`, `CardProofs`, `InquiryProofs`, `RulesProofs` | | the proofs about `Worker`, `Digest`, `Card`, `Inquiry` and `Rules` (with the modules `Rules` extends) |
| `BookingProofs` | | the proofs about `Booking`, and about `Scheduling`, which extends it |
| `SessionProofs` | | the proofs about `Session`, on top of `IntakeProofs` |
| `MC*` | | instances for TLC |

Composition is by `EXTENDS`: `Session` conjoins a visitor's steps with the very
actions of `Intake` (`Post`, `Process`, `Throw`, ...), `Scheduling` with those of
`Booking`. The client's functions are an instance (`A == INSTANCE Transport`, or
`Attempt` where answers are not garbled). `Inquiry` and `Card` hand the bodies
their forms make to `Contract`, the backend's own rules. Definitions named
*Mutant* in the comments before them are deliberate bugs: each shows that some
property of a run would notice it.

### Abstractions

* A content (payload, attribution and locale together) is a model value in the
  protocol modules; the fingerprint is equality of contents, that is, the hash is
  injective and the cell keeps the text it was given.
* In `Contract`, `Inquiry` and `Card` a text is the class of texts the rules tell
  apart ("plain", "email", "tabbed", "blank", too long), never its characters.
* In `Intake` screening is a flag of the request and matching the set of earlier
  contact rows of one person; the rules behind both are `Filing`'s. The SLA is a
  function of the time of receipt and is represented by it; the rule is
  `Calendar`'s.
* Time in `Intake` is a counter that tells a first write from a repair; in
  `Worker` the ticks until an item is due; in `Calendar` half hours of which a
  zone changes its offset once; in `Card` units of which a preparation takes one.
* A slot in `Booking` is the set of times it covers; "too soon, too far, out of
  hours" may be answered at any time, because the clock and the slot are the
  visitor's choice.
* `Spellings` gives a few other ways to write a route (`/Contact`, a percent-encoded
  one); of letters nothing else is said. A segment that is a locale in another case
  is one no rule knows, as in the code.
* In `Booking` an item of work that succeeded and one that was abandoned are both
  `done`: what marks it, and how often, is `Worker`'s subject.
* The calendar is the one of `RUN_MODE_LIVE`. In a dry run `createEvent` confirms
  without an event, which is what a dry run is for, and is not modelled.
* A delivery row without a submission and an acquisition source that is not
  listed are handled by the digest (`Digest.js:78-93`, `:59`) but cannot arise
  from the intake, so contacts have neither.
* `Session` sends requests that raise no suspicion. `reset()` of the clients is
  called by no application; a reload is modelled instead.
* In a `Worker` instance the Submissions and Leads tabs are given: intake only
  appends to them, and what it guarantees of them is `Intake`'s subject.
* A mail is the set of statements <<field, what is said of it>>. Layout, labels,
  escaping, the folding of a calendar file and the counts of a digest are left out.
* Partners edit a tab between calls, not inside one.

## 3. What is checked

Every passing run explores its whole state space; bounds are constants of the
configuration and appear in the guards; `EditOrRival` of `booking` is a constraint.
The type invariants are proved (section 4) and not run again.

| Run | Instance and bounds | Distinct states | Shows |
|---|---|---|---|
| `intake` | two ids, an inquiry and an exchange of one person, 3 posts, 2 instants; any number of deaths | 3 million | `OneRecordPerRequest`, `RepairsReproduceTheAudit`, `AcceptedIsComplete`, and that the intake implements `AtomicIntake` |
| `worker` | three items, two claimed a cycle, 2 attempts, back-offs 1 and 2, one dying cycle | 818 thousand | `DuplicatesOnlyFromLoss`, `SucceededIsTrue`, `TerminalIsFinal`, `EveryItemFinishes` |
| `booking` | 3 commands, 2 at a time: a request, and its edited successor or a rival for an overlapping slot, and a Lead that may not book | 5 million | `ConfirmedWasHeld`, `NoDoubleBooking`, `ConfirmedForGood`, `MailMatchesLead`, `ConfirmationQueued` |
| `digest` | 2 partners; an own, two shared and a flagged contact; 2 failures, 1 death | 415 thousand | `DeliveredWasRead`, `RepeatsOnlyAfterMisses`, `RoutedByAttribution`, `EveryContactIsRead` |
| `session` | website form, contents before and after an edit, 2 ids, 3 posts, 2 troubles | 1.1 million | `ToldIsStored`, `RecordsAreWarranted`, `NeverConflicts`, `RetryIsHonoured`, `OwnCallComesBack` |
| `scheduling` | one Lead, two overlapping slots, 3 commands, 2 at a time, 1 trouble | 1.3 million | `ScheduledIsHeld`, `SendingComesBack` |
| `website` | three locales, six entries that answer every pathway, any number of moves, one change under an attempt | 1.4 million | `WellFormedOnTheWire`, `InvolvementShownWasSent`, `BookingForProposalsOnly` |
| `card` | two partners, 2 presses each, 4 screens, 5 units of time; three entries | 886 thousand | `SaveStatesAreHonest`, `UrlsAreReleasedLate`, `ExchangeIsAccepted` |
| `rules` | addresses of 3 segments, a route in two spellings; 7 days by half hours around two changes of offset and none; 4 contacts of 3 sizes, packed in up to 3 attempts; 3 rows and one appended meanwhile; 3 people; a tab of 3 columns and 2 records; every setting of the properties; every build; every letter with any of the optional fields | 551 thousand | one property a rule: `OnePageOneAddress`, `OfferedSlotsAreAccepted`, `DueOnNextBusinessDay`, `DigestPacksAll`, `RetentionKeepsPending`, `RepairsReproduce`, `ColumnsKeepTheirMeaning`, `SettingsAreHonest`, `LettersAreHonest` |
| `selector` | three locales: English, one reviewed in part, one in a script of its own; fetches that end either way | 30 thousand | `SettlesOnItsLanguage` |

**Why the bounds suffice.** The interesting histories of the intake are a first
post that dies, a repair that dies, and a third that succeeds, with another
request's rows landing in between: three posts, two ids, two instants. In the
worker one death is enough to lose one outcome, and two attempts are the least
for which "retry" and "give up" differ; three items with two a cycle make a
queue. In a booking, two overlapping commands show every race there is between
one reader and one writer of the same cells, and the third command is the replay
or the edit afterwards. The confirmation's handler reads and sends around any of
their cell writes. An edit and a rival in one
behaviour (`EditOrRival` excludes it) would be three Leads' worth of states for
races that each pair of them shows. In the digest, two failures let the same contact fail
twice or two partners fail once. In the composed runs a trouble is a lost call, a
given-up call, an answer of an intermediary, a death or a busy lock; two of them
give a lost answer followed by a failed retry. In `intake` the ids are symmetric;
only safety is checked there. On the website the moves are unbounded and the
entries are one for each field a rule looks at. On the card two presses of a
control are the least for which a timer of an earlier press can outlive it, and
time runs past the release of the first file. Of the rules: three segments are a
locale, a page and one more; the seven days hold a weekend, the hours before, in
and after the change, and a horizon that crosses it; four contacts of three sizes
fill two parts and overflow one, and of the three attempts the last has the least
room; three rows have every order of what is kept and what is not, so that a row
deleted too early shifts one of each kind under a stale number; two records in three columns show a value under a wrong name. For the
settings, the builds and the letters nothing is bounded but the records of a
digest: the run visits every combination.

**Fairness.** The worker's and the digest's triggers keep firing and a cycle that
runs goes on (weak fairness of the start and of the steps together, never of a
single outcome: nothing obliges a mail to succeed or a cycle to live). That
failures end is a *bound* (`MaxDeaths`, `MaxFailures`, `MaxTroubles`), which is
what the liveness properties say of the code: once nothing more goes wrong, it
recovers. In the composed runs the network answers or gives up in the end (the
20 s timer of `transport.ts`), the backend runs on, and *nothing obliges a
visitor to press anything*. In `Selector` React runs the effects of a render, the
fade timer fires, and a fetch ends *one way or the other*; nothing obliges the
reader to move or to stop moving, nor a fetch to succeed. Deadlock checking is off
where the model can rightly stop: all posts used, all items finished.

### Where the code differs from what is written about it

Two runs are expected to end in a counterexample; each checks one sentence of a
comment or of the contract.

| Run | The sentence | What happens |
|---|---|---|
| `qr_edit_lost` | `attempt.ts:13-15`: an edit after a failure gets a new id | the card's button calls `retry`, which sends the old answers and shows success |
| `scheduling_retry` | `booking.ts:10-12`: a retry after a timeout cannot create a second hold | the command is not locked and records its id last; the retry overtakes it |

Others were met while modelling and are stated here without a run:

* `Digest.js:17-19`: a retry is not "a second copy of a day already read". When one
  part fails, or one of two partners' digests, everything of that plan goes out
  again (`Digest.js:388-391`, `454-462`). `RepeatsOnlyAfterMisses` is what holds.
* `transport.ts:359-361`: a `failed` booking is worth sending again under its id.
  The Lead's cells answer `failed` for ever (`Booking.js:71-80`); the calendar is
  not asked.
* `Intake.tsx:856`: the scheduled screen shows "the time the visitor actually
  booked". It shows the draft, which may be changed while the call is out
  (`useIntake.ts:380-409`).
* `useIntake.ts:256-257`: leaving the state alone after a refused call is correct;
  `:312-316`: a form must not be stuck at sending. `submit` has set it to sending
  (`:310`) before the client refuses, and `confirmBooking` likewise (`:437`). A form
  opened anew while the last one's call is out waits for nothing: the answer goes to
  the form that is gone, and the new one says sending until the page is loaded again
  (`Session!SubmitRefused`; `useExchange.ts:167` is the same). `OwnCallComesBack` is
  of a form's own calls. The schedule screen of a form opened anew is in the same
  place; `Scheduling` follows one screen that stays, whose refused calls are answered
  by the call that is out (`SendingComesBack`).
* `LanguageSelector.tsx:141-145`: the word is never "beside a different active
  locale". A choice does not clear the fade's timer (`:124-127`); of a locale chosen
  within its 130 ms the timer shows the next one's word, and it stays. `Selector` has
  this behaviour, and `SettlesOnItsLanguage` says what the word ends at only if no
  choice fell within a fade; that a word comes back at all, it says of every choice.
* `useIntake.ts:307-308`: a throw of the mapping is "unreachable". A proposal that
  leaves fields of the property out passes the validation of the steps and throws;
  the form is then blocked.
* `route.ts:96-98`: a switch of language keeps what was typed. Between English
  and a prefixed locale the page is another element of the routes, is mounted
  anew, and loses the draft.
* `Profile.tsx:149-150`: the card "stays mounted" under the exchange form. It is
  unmounted; its controls start again at "Save".
* `Digest.js:299`: counts and window line "describe THIS email". The counts do;
  every part has the window line of the whole plan.
* `Tokens.js` keeps "firm" and "unknown" apart, but `renderQrAcknowledgement`
  (`QrAcknowledgement.js:101`) tells a user of the firm's own card, and of a
  partner's card with no direct address configured, that the card "did not resolve
  to a partner profile".
* `EmailHelpers.js` calls the digest the single exception to leaving out what was
  not provided; the partners' notification of an inquiry prints "Not provided" too.
  `LettersAreHonest` makes that claim of the visitor's mails.
* `App.tsx` gives a page one route; the router shows it at `/Contact` and at
  `/contact//` as well. The page's canonical link is its own route there too, which
  is what `OnePageOneAddress` says.
* `submissionClient.ts:23-25` still names `isDevelopment`, and `Nav.tsx` says that
  no address is ever rewritten; both describe earlier code. `vite.endpoint.ts` says
  the end-to-end endpoint is read from `.env.e2e.local` only; `loadEnv` also reads
  `.env`, `.env.local` and the shell.

### Known limits that are not findings

*Booking.*

* When two commands of one Lead overlap, their three cell writes interleave. The
  Lead can end with the id of one command and the `booked` of the other, and a
  later replay then says confirmed for a request that never had an event.
  `ConfirmedWasHeld`, `ConfirmedForGood` and `ScheduledIsHeld` exclude Leads whose
  commands overlapped (`LeadRaced`); without that premise TLC violates them. Of
  the mails, `MailMatchesLead` holds for every Lead, and says what can be said: the
  handler reads the Lead and sends later (`Booking.js:219-253`), under the worker's
  lock and not the commands'. Between the two an overlapping command can move the
  Lead to another booking, and the mail then goes out about the former one; a
  command that starts after the reading cannot.
* A command that dies after the status cell and before the enqueue has booked, and
  no confirmation is ever queued: a replay says confirmed from the cells
  (`Booking.js:66-82`) and queues nothing. `ConfirmationQueued` shows that, but for
  overlapping commands of the Lead, such a death is the only way to lose one.
* A command that dies after `createEvent` leaves an event no Lead points to; the
  visitor may then book another time. "One active booking at a time"
  (`Booking.js:83`) is true of the cells only.
* After a slot was refused the confirm button stays enabled (`Intake.tsx:804`).
  Pressed again with nothing changed, it sets the screen to sending, and the client
  refuses the exhausted attempt (`booking.ts:161-164`): the screen stays there until
  another slot, day or mode is chosen. `SendingComesBack` excepts this case.
* A booking's refusals carry no id that is checked: a refusal of another request,
  kept by an intermediary, would be applied.
* The slots are computed once per screen (`useIntake.ts:364`) and go stale; the
  backend's window is what refuses them.

*Worker, digest, retention.*

* A cycle that dies after a send does not count it, so an item can be mailed more
  often than `WORKER_MAX_ATTEMPTS`; the bound that does hold is attempts plus
  deaths (`DuplicatesOnlyFromLoss`).
* An item that kills every cycle starves those behind it.
* A purge removes the idempotency keys of what is finished; a replay of a very old
  request queues its mails again. A finished item whose completion time was not
  written is never purged.
* A digest that cannot be packed in its attempts (`digest_repack_exhausted`) leaves
  its contacts pending, the same every morning. The digest can be reported ready
  with no mail service wired, when neither notifications nor acknowledgements are.
* In a digest a role without a company is not shown; `propertyCount` and the
  involvement appear in no mail; the notes of an inquiry that is no proposal, which
  no form sends, would be in the text part only.

*Intake, sheets, settings.*

* Repair needs a retry, as the contract says: nothing finishes a half-written
  request nobody sends again.
* A patch throws at a missing column after earlier cells are written; of two
  columns with one name the first is used; a text "TRUE" is read back as a boolean;
  what Sheets makes of other cells is not modelled. Provisioning compares headers
  after trimming, lookups also ignore case.
* Provisioning that dies between `insertSheet` and its header row leaves a tab that
  every later run reports as a mismatch and none corrects.
* A property whose text reads badly (no JSON, only commas) counts as present for
  the operator's check, and as absent for the system.

*Website.*

* Back at the gateway, the involvement answer stays while another door resets the
  scope: the confirmation may list "management plus asset management" for a request
  sent as undecided (`InvolvementShownWasSent` excludes it). A note typed on a
  short pathway is not sent; a property count that is hidden is.
* A link with another intent keeps the form but changes its framing.
* The selector: a choice, then Back, leaves the frozen word at the other locale; a
  choice across the English and the prefixed routes starts the cycle again. The reader's own preview flag is not modelled.

*Card.* A number with a tab in it passes the form and is refused by the backend; an
extension is refused by the form and would be accepted.

*Builds.* A build with `NODE_ENV=development` in its environment would ship the
simulator; the scripts of the repository do not set it, and `Build` leaves it out.

## 4. What is proved

Every safety property and every action property of the passing runs is a theorem
for **every** value of the constants; what stays with TLC is the liveness. The
bounds of the configurations play no part in the proofs: they are
about any number of posts, commands, contacts, presses, deaths and rows.

| Module | Theorems | Assumes, beyond types and `Nat` bounds |
|---|---|---|
| `IntakeProofs` | `IntakeTypeCorrect`, `IntakeOneRecord`, `IntakeRepairsFaithful`, `IntakeAcceptedComplete`, `IntakeImplementsLedger` | nothing |
| `WorkerProofs` | `WorkerDuplicatesOnlyFromLoss`, `WorkerSucceededIsTrue`, `WorkerTerminalIsFinal` | the audit has one row per submission, and a submission one kind of acknowledgement: what `Intake` guarantees of the tabs |
| `DigestProofs` | `DigestDeliveredWasRead`, `DigestRepeatsOnlyAfterMisses`, `DigestRoutedByAttribution` | the partners are listed once each and none is the shared source |
| `BookingProofs` | `BookingNoDoubleBooking`, `BookingConfirmedWasHeld`, `BookingConfirmedForGood`, `BookingMailMatchesLead`, `BookingConfirmationQueued` | two requests have two ids (`Contract.js:422` asks for a UUID), and a slot is a set of times |
| `BookingProofs` | `SchedulingDrivesBooking`, `SchedulingScheduledIsHeld` | the same |
| `SessionProofs` | `SessionDrivesIntake`, `SessionToldIsStored`, `SessionNeverConflicts`, `SessionRetryIsHonoured`, `SessionRecordsAreWarranted` | nothing |
| `CardProofs` | `CardSaveStatesAreHonest`, `CardUrlsAreReleasedLate`, `CardExchangeIsAccepted` | the order of the three delays, and entries that a field of the form can hold (`Takes`) |
| `InquiryProofs` | `InquiryWellFormedOnTheWire`, `InquiryBookingForProposalsOnly`, `InquiryInvolvementShownWasSent` | entries that a field of the form can hold |
| `RulesProofs` | `AddressesAreCanonical`, `OffersAreAccepted`, `AnswersAreDue`, `WhatIsConfiguredRuns`, `MailsSayWhatIsKnown`, `ColumnsMayMove`, `PendingSurvives`, `DigestsAreWhole`, `RepairsAreFaithful` | see below |

Each is proved from an inductive invariant with the three facts `Init => IInv`,
`IInv /\ [Next]_vars => IInv'` and `IInv => P`; there is a lemma per action, and
under it a step per conjunct the action can disturb. None of the properties is
inductive alone, and what has to be added is the argument:

* **Intake** (`TypeOK`, `ExecInv`, `FreshIds`, the three properties). What makes an
  answer safe is where the execution that gives it has got to: `ExecInv` says, for
  each program counter, which rows of its request exist (`Written`) or do not
  (`Unwritten`, because it has held the lock since it looked), and that its
  context agrees with the one audit row of its id. `FreshIds`: the business ids are
  minted once and lie below the counter, so that a lead found by its id is the lead
  of that request. `IntakeImplementsLedger` shows every step to be a step of
  `AtomicIntake` or a stutter: the ledger gains its entry with the append of the
  last row, whichever execution makes it.
* **Worker** (`TypeOK`, `OneItemPerKey`, `CycleInv`, `SentInv`, `HasItsRow`,
  `AttemptInv`, `SucceededIsTrue`). `CycleInv` says how far the cells of the item in
  hand are written; `SentInv` and `AttemptInv` balance the mails sent against the
  attempts recorded, the outcomes lost and the one in hand.
* **Digest** (`TypeOK`, `RunInv`, `ReadSoFar`, `NotYetAgain`, the three properties).
  `ReadSoFar` follows which partners have the whole of their plan, contact by
  contact, through marks that stop half-way; `NotYetAgain` says that what is open,
  and not passed by the current run, has been read by each partner no more often than
  it was missed.
* **Booking** (`TypeOK`, `CommandInv`, `OverlapInv`, `EventInv`, `WorkInv`, `LeadInv`,
  `NoDoubleBooking`, `ConfirmedForGood`, and on top of these `SendInv` and
  `QueueInv`). Two running commands of a Lead know of each
  other (`OverlapInv`), so a Lead that is not raced has at most one, and `LeadInv`
  gives its three cells for each program counter of that one. `EventInv` ties every
  event to a command past the creation; a command that found its slot free knows of
  whoever has taken it since. `SendInv` follows a confirmation from the reading of
  its Lead to the sending: whoever is about to write a cell of that Lead was running
  at the reading, because a command that starts later reads a booked Lead and writes
  nothing, unless one of the overlapping ones has written first. `QueueInv` says of
  each Lead that is booked, and whose commands came one after the other, that the
  confirmation is queued, or still the next thing its command does, or that a
  command for that request died.
* **Scheduling** and **Session** (`IInv` of the backend, and `VInv`). Their steps are
  steps of the backend or leave it alone (`SchedulingDrivesBooking`,
  `SessionDrivesIntake`), so everything proved of the backend holds under them. In
  `Session`, `VInv` says of the client which id it holds and that it was minted for
  this content (`ClientInv`, `MintedOnce`), that nobody else writes under it
  (`NoImpostor`), and counts: the ids minted for a content are those told, those
  given up and the live one (`Accounted`), from which `RecordsAreWarranted` follows.
* **Card** (`Numbered`, `TimersOwned`, `FilesOwned`, the two properties of the Save
  controls, and `ExchangeInv`). Every timer and file belongs to a press of a control
  that is or was mounted, and a timer of an earlier press can change nothing. The
  proof uses no order in which due timers fire.
* **Inquiry** (`Types`, `ReceiptInv`, `AnswersInv`, `ScopeInv`). A step that may be
  submitted has every field its pathway asks for in a class the contract takes, and
  the scope agrees with the answers that are shown.
* **Rules** (`RInv`): what an input may look like however it has grown. An address is
  any sequence of segments; a moment is any instant in any zone
  that changes its offset by an hour on a Sunday at 2 AM, or never, as the zones of the
  United States do (`Calendar!IsZone`); the settings are any setting of the
  properties; a page is one some build produced (`BuildInv`); a letter has notes only
  if it is about a proposal and a booking only if it is `confirmed`
  (`Booking.js:238`), and no partner's token is the words "not provided". A tab
  (`TabInv`) has one column a name, and every cell says what is meant under the name
  of its column: so it does not matter where the columns are. It is assumed that the
  layout names each column once and that no text written is exactly `TRUE` or
  `FALSE`, which the code reads back as booleans.

  *Retention* (`BookInv`). While rows are deleted, the numbers still to be deleted
  are exactly those of the expired rows of the plan that are left, because the
  highest goes first and what is appended comes after all of them (`RemovalKeeps`,
  `AppendKeeps`). It is assumed that what a booking appends meanwhile is unfinished:
  work that is pending, or a log row younger than the cutoff (`Unfinished`).

  *Packing* (`MakingInv`). The finished parts go through the records up to the part
  at hand without a gap (`CutUpTo`), and a part of more than one record is within the
  budget of the attempt (`HaveRoom`, `AtHand`). In the last attempt the budget is the
  ceiling less the last allowance, and a part has three headings at most, so that a
  part over the ceiling convicts the shell and the headings alone
  (`HeadingsCost`). The ceiling is assumed to leave the last attempt its least
  budget (`PackingAssumption`: 90 KB against 8 + 5 * 8 + 1), without which
  `splitDigestModel` works with a budget it has not got.

  *Filing* (`FilingInv`). The contacts are the first ones minted, in that order, so
  the suggestions are ordered by ids that differ. `ReadAsFound` shows that what is
  stored of them is read back as it was, and `RepairedAsAccepted` that the recovered
  context is the accepted one but for the signals, which no row takes from the retry.

  *Orders.* Digest and suggestions are sorted in the code. Here a sorted sequence is
  chosen among the enumerations of a set, and `CanBeOrdered` shows that there is one:
  of the smallest set that had none, the element of the least number comes first and
  the others, a set smaller by one, can be ordered. This stands in for an induction
  over finite sets, which the provers cannot take from the library.

The proofs led back to the model more than once. `CASE` expressions with guards that
overlap (`Worker!NextWorkState`, the submits of `Card` and `Inquiry`,
`Locale!BuildLocalePath`) leave the choice open in TLA+, where TLC takes the first;
they are `IF`s now, as in the code. The assumptions that request ids are distinct
and that an entry is one its field can hold were true of the instances and stated
nowhere. `Columns` is written with functions of positions where it inserted into and
removed from sequences by operators whose definitions the provers do not see.
`Retention` and `Packing` computed the outcome of a run in one step, by a sort and a
fold; they take the steps of the code now, one deletion and one record at a time,
which is closer to the source (maintenance can die between two deletions and rows can
arrive) and leaves an invariant to state. The proof of `DigestPacksAll` also made the
assumption about the ceiling explicit.

**Only model-checked, and why.**

* `EveryItemFinishes`, `EveryContactIsRead`, `OwnCallComesBack`, `SendingComesBack`,
  `SettlesOnItsLanguage`: liveness under fairness, and `ENABLED`, are out of the
  provers' reach.
That a recursive definition computes the right thing for every input would need an
induction whose theorem takes an operator; where the code's loops mattered they are
steps of a machine instead, and `Least` (a set of numbers that is not empty has a
least) and `CanBeOrdered` carry what induction remains.

No module that is proved about declares a `RECURSIVE` operator.

## 5. What is not modelled, and the plan

Modelled so far: the whole request path and its schedules, both applications'
forms and clients, and the rules they share. Left out:

* presentation: the other pages of the website, the leasing site, the brand
  package, the layout and the wording of mails and catalogs, `Html.js`: pure text;
* the hosting scripts: run by hand, once;
* the text of the contact file (`vcard`), a constant of two partners;
* Google's side: the sheet's coercion of cells, quotas, the calendar's own
  consistency, beyond what the code handles.

Still to extend, in order:

1. One composed `Backend`: intake, worker, digest and retention over one set of
   tabs and one lock, with the abstract promise that every accepted request is
   acknowledged and notified at least once.
2. `lead` edits of the partners inside a call (a column dragged between a lookup
   and a write).

Next, proving: what the composed `Backend` promises, from the theorems of its parts.
