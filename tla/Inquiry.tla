------------------------------ MODULE Inquiry ------------------------------
(***************************************************************************)
(* The website's contact page as a visitor goes through it: the gateway,   *)
(* the three steps of a proposal or the one screen of the short pathways,  *)
(* the answers kept between them (useIntake.ts, Intake.tsx, model.ts), the *)
(* body made of them (toWire.ts), and what the backend's rules (Contract)  *)
(* say of it.  The client is Attempt; what a call meets on its way and in  *)
(* the backend is the subject of Session.                                  *)
(*                                                                         *)
(* Answers outlive the screen they were given on: a visitor may change the *)
(* pathway, follow a link or switch the language in the middle.            *)
(***************************************************************************)
EXTENDS Locale

CONSTANTS
    Entries,            \* what is entered: answers given one after the other
                        \* on one screen, each as a function of its fields
    MaxLate             \* bound: answers changed while an attempt is live

A == INSTANCE Attempt

VARIABLES
    url,                \* what the page reads of the address
    form,               \* the screen and the answers
    client,             \* the submission client, which outlives the form
    receipt,            \* what was accepted, for the confirmation
    late,               \* history: answers changed under a live attempt
    returned            \* history: the form has been back at the gateway

inquiryVars == <<url, form, client, receipt, late, returned>>

-----------------------------------------------------------------------------
(* model.ts: the choices offered, the draft, what is checked.              *)

NoIntent == "none"
Intents == {"property-management", "asset-management", "investor-services", "general"}

Choices == [
    type |-> {"multifamily", "retail", "mixed_portfolio", "another_property_type"},
    propertyScope |-> {"one_property", "portfolio"},
    current |-> {"replace_current_management", "move_away_from_self_management",
                 "recently_acquired_or_under_contract", "lease_up_or_turnaround",
                 "operations_or_reporting_problems", "exploring_management_options",
                 "something_else"},
    involvement |-> {"property_management", "property_management_plus_asset_management",
                     "not_sure"},
    timing |-> {"immediately", "within_30_days", "days_30_to_60", "days_60_to_90",
                "still_exploring"},
    followUpLanguage |-> Locales]

TopicsOf(pathway) ==
    IF pathway = "investor-services"
    THEN {"exploring_first_acquisition", "under_contract_now", "actively_searching",
          "own_property_need_operating_team", "something_else"}
    ELSE {"question_about_axispoint", "vendor_or_service_provider", "employment",
          "press_or_media", "something_else"}

(* What a field of the form takes: a choice of its list, or a text.        *)
Takes(field) ==
    IF field \in DOMAIN Choices THEN Choices[field] \cup {"blank"}
    ELSE IF field = "scaleUnknown" THEN BOOLEAN
    ELSE IF field = "topic"
         THEN TopicsOf("investor-services") \cup TopicsOf("general-inquiry") \cup {"blank"}
    ELSE TextKinds \ {Absent}

ASSUME InquiryAssumption ==
    \A entry \in Entries : \A field \in DOMAIN entry : entry[field] \in Takes(field)

EmptyDraft(pathway, scope) ==
    [pathway |-> pathway, scope |-> scope, topic |-> "blank",
     type |-> "blank", propertyScope |-> "blank", location |-> "blank",
     scale |-> "blank", scaleUnknown |-> FALSE, propertyCount |-> "blank",
     current |-> "blank", involvement |-> "blank", timing |-> "blank", notes |-> "blank",
     fullName |-> "blank", email |-> "blank", phone |-> "blank",
     organization |-> "blank", followUpLanguage |-> "blank"]

ScopeFromInvolvement(i) ==
    CASE i = "property_management_plus_asset_management" -> "pm-plus-am"
      [] i = "property_management" -> "pm"
      [] OTHER -> "undecided"

(* Going in by the PM plus AM door answers the question of involvement.    *)
Preselected(d) ==
    IF d.scope = "pm-plus-am"
    THEN [d EXCEPT !.involvement = "property_management_plus_asset_management"]
    ELSE d

PathwayForIntent(intent) ==
    CASE intent = "property-management" -> <<"management-proposal", "pm">>
      [] intent = "asset-management" -> <<"management-proposal", "pm-plus-am">>
      [] intent = "investor-services" -> <<"investor-services", "investor-services">>
      [] intent = "general" -> <<"general-inquiry", "general-inquiry">>
      [] OTHER -> <<"management-proposal", "undecided">>

IsProposal(d) == d.pathway = "management-proposal"

(* validateDraft: all that stands between the button and the mapping.      *)
Invalid(d) ==
    \/ d.fullName = "blank"
    \/ ~ IsEmail(d.email)
    \/ ~ IsProposal(d) /\ d.topic = "blank"

-----------------------------------------------------------------------------
(* toWire.ts.                                                              *)

(* requireChoice throws on an answer that is not among the choices.        *)
Mappable(d) ==
    IF IsProposal(d)
    THEN \A q \in {"type", "propertyScope", "current", "timing"} : d[q] \in Choices[q]
    ELSE d.topic \in TopicsOf(d.pathway)

Optional(t) == IF t = "blank" THEN Absent ELSE t

WirePathway(pathway) ==
    CASE pathway = "management-proposal" -> "management_proposal"
      [] pathway = "investor-services" -> "investor_services"
      [] OTHER -> "general_inquiry"

WireServiceScope(scope) ==
    CASE scope = "pm" -> "pm" [] scope = "pm-plus-am" -> "pm_plus_am" [] OTHER -> "undecided"

WireIntentToken(intent) ==
    CASE intent = "property-management" -> "property_management"
      [] intent = "asset-management" -> "asset_management"
      [] intent = "investor-services" -> "investor_services"
      [] intent = "general" -> "general"
      [] OTHER -> Absent

InquiryContact(d) ==
    [fullName |-> d.fullName, email |-> d.email,
     phone |-> Optional(d.phone), organization |-> Optional(d.organization)]

PropertyBlock(d) ==
    [type |-> d.type, scope |-> d.propertyScope, location |-> d.location,
     scale |-> IF d.scaleUnknown THEN Absent ELSE Optional(d.scale),
     scaleUnknown |-> d.scaleUnknown, propertyCount |-> Optional(d.propertyCount)]

(* Mutant: the involvement on the screen is what is sent.                  *)
SituationBlockAsAnswered(d) ==
    [current |-> d.current, involvement |-> d.involvement,
     timing |-> d.timing, notes |-> Optional(d.notes)]

(* The involvement sent is derived from the scope, not from the answer.    *)
SituationBlock(d) ==
    [current |-> d.current,
     involvement |-> ScopeToInvolvement[WireServiceScope(d.scope)],
     timing |-> d.timing, notes |-> Optional(d.notes)]

(* toServiceInquiryPayload: a short pathway sends its topic and nothing of *)
(* the answers given on a proposal, nor the note its own screen asks for.  *)
Payload(d) ==
    [pathway |-> WirePathway(d.pathway), booking |-> NoBlock,
     contact |-> InquiryContact(d),
     serviceScope |-> IF IsProposal(d) THEN WireServiceScope(d.scope) ELSE Absent,
     property |-> IF IsProposal(d) THEN PropertyBlock(d) ELSE NoBlock,
     situation |-> IF IsProposal(d) THEN SituationBlock(d) ELSE NoBlock,
     topic |-> IF IsProposal(d) THEN Absent ELSE d.topic]

Body(d) ==
    [submissionKind |-> "service_inquiry", serverOwned |-> {}, submissionId |-> TRUE,
     locale |-> [page |-> ParseLocalePath(url.path).code, preferredFollowUp |-> Optional(d.followUpLanguage)],
     attribution |-> [sourceCategory |-> "website", sourceDetail |-> "plain",
                      landingPage |-> "plain", refToken |-> Absent, utm |-> Absent,
                      intentToken |-> WireIntentToken(url.intent)],
     payload |-> Payload(d)]

-----------------------------------------------------------------------------
(* The form is opened: by a link, a reload, or where the page is built     *)
(* anew.                                                                   *)

Opened(intent) ==
    LET entry == PathwayForIntent(intent)
        draft == Preselected(EmptyDraft(entry[1], entry[2]))
    IN [screen |-> IF intent = NoIntent THEN "gateway"
                   ELSE IF IsProposal(draft) THEN "proposal" ELSE "short",
        step |-> 1, errors |-> FALSE, state |-> "idle", awaits |-> FALSE, draft |-> draft]

ContactPage == <<"contact">>
NoReceipt == [body |-> NoBlock, bookingEligible |-> FALSE]

Reopen(to) ==
    /\ url' = to
    /\ form' = Opened(to.intent)
    /\ receipt' = NoReceipt
    /\ returned' = FALSE
    /\ UNCHANGED <<client, late>>

(* A link to the page: the framing with an intent and the one without are  *)
(* different trees, and between two intents the form stays as it is.       *)
FollowLink(intent) ==
    LET to == [path |-> LocalePath(url.path, ContactPage), intent |-> intent]
    IN /\ to # url
       /\ IF (intent = NoIntent) = (url.intent = NoIntent)
          THEN url' = to /\ UNCHANGED <<form, client, receipt, late, returned>>
          ELSE Reopen(to)

(* The selector keeps the page and its query, but not always the form.     *)
SwitchLocale(code) ==
    LET to == LocaleEquivalentUrl(code, url.path)
    IN /\ to # url.path
       /\ IF Remounts(url.path, to)
          THEN Reopen([url EXCEPT !.path = to])
          ELSE /\ url' = [url EXCEPT !.path = to]
               /\ UNCHANGED <<form, client, receipt, late, returned>>

-----------------------------------------------------------------------------
(* Screens and answers.                                                    *)

OnForm == form.screen \in {"proposal", "short"}

(* Changing answers under a live attempt is bounded.                       *)
Late == IF A!Live(client) THEN late < MaxLate /\ late' = late + 1 ELSE UNCHANGED late

(* Gateway: an owner, an owner who wants asset management, an investor,    *)
(* anybody else.                                                           *)
Gateway ==
    {<<"management-proposal", "undecided">>, <<"management-proposal", "pm-plus-am">>,
     <<"investor-services", "investor-services">>, <<"general-inquiry", "general-inquiry">>}

ChoosePathway(door) ==
    /\ form.screen = "gateway"
    /\ Late
    /\ form' = [form EXCEPT !.draft = Preselected([@ EXCEPT !.pathway = door[1], !.scope = door[2]]),
                            !.step = 1, !.errors = FALSE, !.state = "idle",
                            !.screen = IF door[1] = "management-proposal" THEN "proposal"
                                                                         ELSE "short"]
    /\ UNCHANGED <<url, client, receipt, returned>>

BackToGateway ==
    /\ OnForm
    /\ form' = [form EXCEPT !.screen = "gateway", !.errors = FALSE, !.state = "idle"]
    /\ returned' = TRUE
    /\ UNCHANGED <<url, client, receipt, late>>

Go(step) ==
    /\ form.screen = "proposal"
    /\ step \in 1 .. 3 /\ step \in {form.step - 1, form.step + 1}
    /\ form' = [form EXCEPT !.step = step]
    /\ UNCHANGED <<url, client, receipt, late, returned>>

IsPortfolio(d) == d.propertyScope = "portfolio" \/ d.type = "mixed_portfolio"

ContactFields == {"fullName", "email", "phone", "organization", "followUpLanguage"}

(* What each screen asks; it shows the question of the number of           *)
(* properties, and takes a scale, only where the other answers call for it.*)
PropertyQuestions(d) ==
    {"type", "propertyScope", "location", "scaleUnknown"}
    \cup (IF d.scaleUnknown THEN {} ELSE {"scale"})
    \cup (IF IsPortfolio(d) THEN {"propertyCount"} ELSE {})
SituationQuestions == {"current", "involvement", "timing", "notes"}
ContactQuestions == ContactFields
ShortQuestions == ContactFields \cup {"topic", "notes"}

Asked ==
    CASE form.screen = "short" -> ShortQuestions
      [] form.screen = "proposal" /\ form.step = 1 -> PropertyQuestions(form.draft)
      [] form.screen = "proposal" /\ form.step = 2 -> SituationQuestions
      [] form.screen = "proposal" /\ form.step = 3 -> ContactQuestions
      [] OTHER -> {}

Merge(d, entry) == [field \in DOMAIN d |-> IF field \in DOMAIN entry THEN entry[field]
                                                                  ELSE d[field]]

(* Mutant: an answer about involvement leaves the scope as it was.         *)
AnsweredOnly(d, entry) == Merge(d, entry)

(* setProperty, setContact, setTopic; setSituation with its scope.         *)
Answered(d, entry) ==
    IF "involvement" \in DOMAIN entry
    THEN [Merge(d, entry) EXCEPT !.scope = ScopeFromInvolvement(entry.involvement)]
    ELSE Merge(d, entry)

Offers(entry) ==
    /\ DOMAIN entry \subseteq Asked
    /\ "topic" \in DOMAIN entry => entry.topic \in TopicsOf(form.draft.pathway) \cup {"blank"}

Answer(entry) ==
    /\ Offers(entry)
    /\ Answered(form.draft, entry) # form.draft
    /\ Late
    /\ form' = [form EXCEPT !.draft = Answered(@, entry)]
    /\ UNCHANGED <<url, client, receipt, returned>>

-----------------------------------------------------------------------------
(* Sending.                                                                *)

OnLastScreen == form.screen = "short" \/ (form.screen = "proposal" /\ form.step = 3)

CanSubmit == OnLastScreen /\ form.state # "sending"

SubmitInvalid ==
    /\ CanSubmit /\ Invalid(form.draft)
    /\ form' = [form EXCEPT !.errors = TRUE]
    /\ UNCHANGED <<url, client, receipt, late, returned>>

(* The mapping throws: nothing is sent, and the form says it cannot be.    *)
SubmitUnmapped ==
    /\ CanSubmit /\ ~ Invalid(form.draft) /\ ~ Mappable(form.draft)
    /\ form' = [form EXCEPT !.errors = FALSE, !.state = "blocked"]
    /\ UNCHANGED <<url, client, receipt, late, returned>>

Same == A!Live(client) /\ client.envelope.req = Body(form.draft)

(* The client takes the body, or refuses: a call is in flight.             *)
Submit ==
    /\ CanSubmit /\ ~ Invalid(form.draft) /\ Mappable(form.draft)
    /\ form' = [form EXCEPT !.errors = FALSE, !.state = "sending",
                            !.awaits = @ \/ ~ A!Refuses(client, Same)]
    /\ client' = IF A!Refuses(client, Same) THEN client
                 ELSE IF A!NeedsNew(client, Same)
                 THEN A!Sending(A!Begun([id |-> "new", req |-> Body(form.draft)]))
                 ELSE A!Sending(client)
    /\ UNCHANGED <<url, receipt, late, returned>>

Retry ==
    /\ OnLastScreen /\ form.state = "failed" /\ ~ A!RefusesRetry(client)
    /\ form' = [form EXCEPT !.state = "sending", !.awaits = TRUE]
    /\ client' = A!Sending(client)
    /\ UNCHANGED <<url, receipt, late, returned>>

(* isBookablePathway: the backend's word on whether a call is offered.     *)
BookingEligible(p) ==
    p.pathway = "management_proposal" /\ p.serviceScope \in ServiceScopes

(* The answer is applied by the form that waits for it, whatever it shows. *)
Apply(result) ==
    /\ client.inFlight
    /\ client' = A!Applied(client, result)
    /\ CASE ~ form.awaits -> UNCHANGED <<form, receipt>>
         [] form.awaits /\ result.outcome = "ok" ->
              /\ form' = [form EXCEPT !.screen = "confirmation", !.state = "idle",
                                      !.awaits = FALSE]
              /\ receipt' = [body |-> client.envelope.req,
                             bookingEligible |-> BookingEligible(client.envelope.req.payload)]
         [] OTHER ->
              /\ form' = [form EXCEPT !.state = A!FormState(result), !.awaits = FALSE]
              /\ UNCHANGED receipt
    /\ UNCHANGED <<url, late, returned>>

Judged == Apply(A!ClassifyBackend(ValidateSubmission(client.envelope.req)))

(* The network fails; or the build was given no endpoint, and nothing is   *)
(* sent (createTransport).  The form has to cope with either.              *)
Undelivered == Apply(A!NetworkFailure) \/ Apply(A!NotConfigured)

-----------------------------------------------------------------------------
(* After the confirmation.                                                 *)

(* Mutant: the offer goes by the pathway the form shows.                   *)
OfferedByForm == form.screen = "confirmation" /\ IsProposal(form.draft)

Offered == form.screen = "confirmation" /\ receipt.bookingEligible

(* What the confirmation lists: the answers the form holds by then.        *)
WhatYouSent(d) ==
    IF IsProposal(d)
    THEN [type |-> d.type, location |-> d.location, situation |-> d.current,
          involvement |-> d.involvement]
    ELSE [pathway |-> d.pathway, topic |-> d.topic, followUp |-> d.followUpLanguage,
          involvement |-> "blank"]

Show(screen) ==
    /\ form' = [form EXCEPT !.screen = screen]
    /\ UNCHANGED <<url, client, receipt, late, returned>>

GoSchedule == (Offered \/ form.screen = "skipped") /\ Show("schedule")
GoSkipped == Offered /\ Show("skipped")

-----------------------------------------------------------------------------
InquiryInit ==
    \E intent \in Intents \cup {NoIntent} :
        /\ url = [path |-> ContactPage, intent |-> intent]
        /\ form = Opened(intent)
        /\ client = A!Idle /\ receipt = NoReceipt /\ late = 0 /\ returned = FALSE

Press == SubmitInvalid \/ SubmitUnmapped \/ Submit \/ Retry \/ GoSchedule \/ GoSkipped

InquiryNext ==
    \/ \E intent \in Intents \cup {NoIntent} : FollowLink(intent)
    \/ \E code \in LaunchReady : SwitchLocale(code)
    \/ \E door \in Gateway : ChoosePathway(door)
    \/ BackToGateway
    \/ \E step \in 1 .. 3 : Go(step)
    \/ \E entry \in Entries : Answer(entry)
    \/ Press
    \/ Judged \/ Undelivered

InquirySpec == InquiryInit /\ [][InquiryNext]_inquiryVars

-----------------------------------------------------------------------------
(* Properties.                                                             *)

(* Whatever way a visitor takes through the page, what is sent keeps to    *)
(* the contract: the backend refuses it only for a text that was typed and *)
(* that the form does not check (a number, a length), or a place left out. *)
WellFormedOnTheWire ==
    A!Live(client) =>
        LET verdict == ValidateSubmission(client.envelope.req)
            payload == client.envelope.req.payload
        IN /\ verdict \in {Ok} \cup TypedRefusals
           /\ verdict = "MISSING_REQUIRED" => payload.property.location = "blank"

(* A call is offered, and the schedule entered, only after the backend has *)
(* accepted a proposal: an answer that arrives when the visitor has gone   *)
(* on to another pathway does not decide by what the form shows.           *)
BookingForProposalsOnly ==
    Offered \/ form.screen \in {"schedule", "skipped"} =>
        receipt.body.payload.pathway = "management_proposal"

(* What the confirmation lists under "what you sent" about involvement is  *)
(* what was stored: unless answers changed under the attempt, or the       *)
(* visitor has been back at the gateway, where another door resets the     *)
(* scope under an answer that stays.                                       *)
InvolvementShownWasSent ==
    form.screen = "confirmation" /\ ~ returned /\ late = 0 =>
        LET payload == receipt.body.payload
        IN payload.pathway = "management_proposal" =>
              WhatYouSent(form.draft).involvement \in {"blank", payload.situation.involvement}
=============================================================================
