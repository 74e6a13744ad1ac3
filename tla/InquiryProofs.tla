---------------------------- MODULE InquiryProofs ----------------------------
(***************************************************************************)
(* Proofs about Inquiry.tla, for any answers, in any order, however often  *)
(* they change: what is sent keeps to the contract, a call is offered for  *)
(* proposals only, and the involvement a confirmation lists is the one     *)
(* that was stored.                                                        *)
(***************************************************************************)
EXTENDS Inquiry, TLAPS

-----------------------------------------------------------------------------
(* Types.                                                                  *)

PathwayNames == {"management-proposal", "investor-services", "general-inquiry"}
ScopeNames == {"pm", "pm-plus-am", "undecided", "investor-services", "general-inquiry"}
AnswerFields ==
    {"topic", "type", "propertyScope", "location", "scale", "scaleUnknown", "propertyCount",
     "current", "involvement", "timing", "notes", "fullName", "email", "phone",
     "organization", "followUpLanguage"}
DraftFields == {"pathway", "scope"} \cup AnswerFields
Values == PathwayNames \cup ScopeNames \cup UNION {Takes(field) : field \in AnswerFields}

Drafts ==
    {d \in [DraftFields -> Values] :
        /\ d["pathway"] \in PathwayNames /\ d["scope"] \in ScopeNames
        /\ \A field \in AnswerFields : d[field] \in Takes(field)}

Screens == {"gateway", "proposal", "short", "confirmation", "schedule", "skipped"}
FormStates == {"idle", "sending", "failed", "unavailable", "blocked"}
Forms ==
    [screen : Screens, step : Nat, errors : BOOLEAN, state : FormStates,
     awaits : BOOLEAN, draft : Drafts]

(* What may be on the wire: the body of a draft that was let through, on a *)
(* page in some locale, opened by some link.                               *)
Sendable == {d \in Drafts : ~ Invalid(d) /\ Mappable(d)}
WireBody(d, code, token) ==
    [submissionKind |-> "service_inquiry", serverOwned |-> {}, submissionId |-> TRUE,
     locale |-> [page |-> code, preferredFollowUp |-> Optional(d.followUpLanguage)],
     attribution |-> [sourceCategory |-> "website", sourceDetail |-> "plain",
                      landingPage |-> "plain", refToken |-> Absent, utm |-> Absent,
                      intentToken |-> token],
     payload |-> Payload(d)]
Bodies ==
    {WireBody(d, code, token) :
        d \in Sendable, code \in Locales, token \in IntentTokens \cup {Absent}}
Envelopes == {A!NoEnvelope} \cup {[id |-> "new", req |-> body] : body \in Bodies}

Statuses == {"idle", "sending", "failed", "succeeded"}
Results ==
    [outcome : {"ok", "retryable", "permanent", "not_configured"}, exhausted : BOOLEAN]
Clients ==
    [envelope : Envelopes, status : Statuses, retryable : BOOLEAN, exhausted : BOOLEAN,
     inFlight : BOOLEAN]

UrlInv ==
    /\ url = [path |-> url.path, intent |-> url.intent]
    /\ url.intent \in Intents \cup {NoIntent}

Types == /\ UrlInv /\ form \in Forms /\ client \in Clients
         /\ late \in Nat /\ returned \in BOOLEAN

-----------------------------------------------------------------------------
(* The inductive invariant.                                                *)

(* What was accepted, and what the screens after it stand on.              *)
ReceiptInv ==
    /\ receipt.bookingEligible => receipt.body.payload.pathway = "management_proposal"
    /\ form.screen \in {"schedule", "skipped"} => receipt.bookingEligible

(* While nothing was answered under a live attempt, a form that waits, or  *)
(* that offers to try again, waits for the answers it shows; the           *)
(* confirmation shows what was sent.                                       *)
AnswersInv ==
    /\ form.state = "failed" => ~ client.inFlight
    /\ late = 0 /\ (form.awaits \/ form.state = "failed") =>
          A!Live(client) /\ client.envelope.req.payload = Payload(form.draft)
    /\ late = 0 /\ form.screen = "confirmation" =>
          receipt.body.payload = Payload(form.draft)

(* Until the form has been back at the gateway, an involvement that is     *)
(* answered is the one the scope stands for.                               *)
Agrees(d) ==
    IsProposal(d) =>
        d.involvement \in {"blank", ScopeToInvolvement[WireServiceScope(d.scope)]}
ScopeInv ==
    ~ returned => /\ Agrees(form.draft)
                  /\ form.screen = "gateway" => form.draft.involvement = "blank"

IInv == /\ Types
        /\ ReceiptInv
        /\ AnswersInv
        /\ ScopeInv

-----------------------------------------------------------------------------
(* Rules of the contract.                                                  *)

LEMMA DraftFacts ==
    ASSUME NEW d \in Drafts
    PROVE  /\ DOMAIN d = DraftFields
           /\ d.pathway \in PathwayNames /\ d.scope \in ScopeNames
           /\ \A field \in AnswerFields : d[field] \in Takes(field)
           /\ d.fullName \in TextKinds \ {Absent} /\ d.phone \in TextKinds \ {Absent}
           /\ d.organization \in TextKinds \ {Absent} /\ d.notes \in TextKinds \ {Absent}
           /\ d.location \in TextKinds \ {Absent} /\ d.scale \in TextKinds \ {Absent}
           /\ d.propertyCount \in TextKinds \ {Absent}
           /\ d.followUpLanguage \in Locales \cup {"blank"}
           /\ d.involvement \in Involvements \cup {"blank"}
           /\ d.topic \in TopicsOf("investor-services") \cup TopicsOf("general-inquiry")
                          \cup {"blank"}
  <1>1. /\ DOMAIN d = DraftFields
        /\ d["pathway"] \in PathwayNames /\ d["scope"] \in ScopeNames
        /\ \A field \in AnswerFields : d[field] \in Takes(field)
    BY DEF Drafts
  <1>2. \A field \in {"fullName", "phone", "organization", "notes", "location", "scale",
                      "propertyCount"} : Takes(field) = TextKinds \ {Absent}
    BY DEF Takes, Choices
  <1>3. /\ Takes("followUpLanguage") = Locales \cup {"blank"}
        /\ Takes("involvement") = Involvements \cup {"blank"}
        /\ Takes("topic") = TopicsOf("investor-services") \cup TopicsOf("general-inquiry")
                            \cup {"blank"}
    BY DEF Takes, Choices, Involvements
  <1>4. QED
    BY <1>1, <1>2, <1>3 DEF AnswerFields

(* Optional texts are refused for their length only, a number also for     *)
(* what it is made of.                                                     *)
LEMMA OptionalIsAccepted ==
    ASSUME NEW t \in TextKinds
    PROVE  /\ OptionalString(Optional(t)) \in {Ok, "FIELD_TOO_LONG"}
           /\ OptionalPhone(Optional(t)) \in {Ok, "FIELD_TOO_LONG", "INVALID_PHONE"}
  BY DEF OptionalString, OptionalPhone, ValidatePhone, Optional, Require, &&, TextKinds,
         Blank, Absent, Ok

LEMMA RequiredIsAccepted ==
    ASSUME NEW t \in TextKinds \ {Absent}
    PROVE  RequireString(t) \in
              {Ok, "FIELD_TOO_LONG"} \cup (IF t = "blank" THEN {"MISSING_REQUIRED"} ELSE {})
  BY DEF RequireString, Require, &&, Blank, TextKinds, Absent, Ok

LEMMA TokensAreAccepted ==
    ASSUME NEW list \in {Locales, IntentTokens, Pathways, ServiceScopes, PropertyTypes,
                         PropertyScopes, Situations, Involvements, Timings,
                         TopicsInvestor, TopicsGeneral, SourceCategories},
           NEW t \in list
    PROVE  RequireToken(t, list) = Ok /\ OptionalToken(t, list) = Ok
  <1>1. t \notin DisplayStrings
    BY DEF DisplayStrings, Locales, IntentTokens, Pathways, ServiceScopes, PropertyTypes,
           PropertyScopes, Situations, Involvements, Timings, TopicsInvestor, TopicsGeneral,
           SourceCategories
  <1>2. QED
    BY <1>1 DEF RequireToken, OptionalToken, Require, &&, Ok

LEMMA FirstRefusal ==
    ASSUME NEW S, NEW a \in S, NEW b \in S
    PROVE  (a && b) \in S
  BY DEF &&

(* Verdicts on a body of the form: nothing but what a person typed.        *)
Verdicts(d) ==
    {Ok, "FIELD_TOO_LONG", "INVALID_PHONE"}
    \cup (IF IsProposal(d) /\ d.location = "blank" THEN {"MISSING_REQUIRED"} ELSE {})

(* What every inquiry carries beside its payload is accepted.              *)
LEMMA FrameIsAccepted ==
    ASSUME NEW d \in Drafts, NEW code \in Locales, NEW token \in IntentTokens \cup {Absent}
    PROVE  ValidateSubmission(WireBody(d, code, token)) = ValidateServiceInquiry(Payload(d))
  <1> DEFINE b == WireBody(d, code, token)
  <1>1. /\ b.serverOwned = {} /\ b.submissionId = TRUE
        /\ b.locale.page = code /\ b.locale.preferredFollowUp = Optional(d.followUpLanguage)
        /\ b.attribution = [sourceCategory |-> "website", sourceDetail |-> "plain",
                      landingPage |-> "plain", refToken |-> Absent, utm |-> Absent,
                      intentToken |-> token]
        /\ b.payload = Payload(d) /\ b.submissionKind = "service_inquiry"
    BY DEF WireBody
  <1> HIDE DEF b
  <1>2. NoServerOwned(b, {}) = Ok /\ Require(b.submissionId, "INVALID_UUID") = Ok
    BY <1>1 DEF NoServerOwned, Require
  <1>3. ValidateLocale(b.locale) = Ok
    <2>1. RequireToken(code, Locales) = Ok
      BY TokensAreAccepted
    <2>2. OptionalToken(Optional(d.followUpLanguage), Locales) = Ok
      <3>1. CASE d.followUpLanguage = "blank"
        BY <3>1 DEF Optional, OptionalToken
      <3>2. CASE d.followUpLanguage # "blank"
        <4>1. d.followUpLanguage \in Locales
          BY <3>2, DraftFacts
        <4>2. QED
          BY <3>2, <4>1, TokensAreAccepted DEF Optional
      <3>3. QED
        BY <3>1, <3>2
    <2>3. QED
      BY <1>1, <2>1, <2>2 DEF ValidateLocale, &&
  <1>4. ValidateAttribution(b.attribution) = Ok
    <2>1. OptionalToken(token, IntentTokens) = Ok
      BY TokensAreAccepted DEF OptionalToken
    <2>2. RequireToken("website", SourceCategories) = Ok
      BY TokensAreAccepted DEF SourceCategories
    <2>3. RequireString("plain") = Ok /\ OptionalString("plain") = Ok
          /\ OptionalString(Absent) = Ok
      BY DEF RequireString, OptionalString, Require, &&, Blank, Absent, Ok
    <2>4. QED
      BY <1>1, <2>1, <2>2, <2>3 DEF ValidateAttribution, &&
  <1>5. ValidateSubmission(b) = ValidateServiceInquiry(b.payload)
    BY <1>1, <1>2, <1>3, <1>4 DEF ValidateSubmission, &&
  <1>6. QED
    BY <1>1, <1>5 DEF b

LEMMA ContactIsAccepted ==
    ASSUME NEW d \in Drafts, ~ Invalid(d)
    PROVE  ValidateInquiryContact(InquiryContact(d)) \in
              {Ok, "FIELD_TOO_LONG", "INVALID_PHONE"}
  <1> DEFINE c == InquiryContact(d)
             S == {Ok, "FIELD_TOO_LONG", "INVALID_PHONE"}
  <1>1. /\ c.fullName = d.fullName /\ c.email = d.email
        /\ c.phone = Optional(d.phone) /\ c.organization = Optional(d.organization)
    BY DEF InquiryContact
  <1> HIDE DEF c
  <1>2. d.fullName # "blank" /\ d.email = "email"
    BY DEF Invalid, IsEmail
  <1>3. RequireString(c.fullName) \in S
    BY <1>1, <1>2, DraftFacts, RequiredIsAccepted
  <1>4. RequireString(c.email) \in S /\ Require(IsEmail(c.email), "INVALID_EMAIL") \in S
    BY <1>1, <1>2 DEF RequireString, Require, &&, Blank, Absent, IsEmail, Ok
  <1>5. OptionalPhone(c.phone) \in S /\ OptionalString(c.organization) \in S
    BY <1>1, DraftFacts, OptionalIsAccepted
  <1> HIDE DEF S
  <1>6. ValidateInquiryContact(c) \in S
    BY <1>3, <1>4, <1>5, FirstRefusal DEF ValidateInquiryContact
  <1>7. QED
    BY <1>6 DEF c, S

LEMMA ScopesAreAccepted ==
    ASSUME NEW scope
    PROVE  /\ WireServiceScope(scope) \in ServiceScopes
           /\ ScopeToInvolvement[WireServiceScope(scope)] \in Involvements
  BY DEF WireServiceScope, ServiceScopes, ScopeToInvolvement, Involvements

LEMMA PropertyIsAccepted ==
    ASSUME NEW d \in Drafts, IsProposal(d), Mappable(d)
    PROVE  ValidateProperty(PropertyBlock(d)) \in Verdicts(d)
  <1> DEFINE p == PropertyBlock(d)
             S == Verdicts(d)
  <1>1. /\ p.type = d.type /\ p.scope = d.propertyScope /\ p.location = d.location
        /\ p.scale = (IF d.scaleUnknown THEN Absent ELSE Optional(d.scale))
        /\ p.propertyCount = Optional(d.propertyCount)
        /\ p # NoBlock
    BY DEF PropertyBlock, NoBlock
  <1> HIDE DEF p
  <1>2. d.type \in PropertyTypes /\ d.propertyScope \in PropertyScopes
    BY DEF Mappable, Choices, PropertyTypes, PropertyScopes
  <1>3. RequireToken(p.type, PropertyTypes) \in S /\ RequireToken(p.scope, PropertyScopes) \in S
    BY <1>1, <1>2, TokensAreAccepted DEF Verdicts
  <1>4. RequireString(p.location) \in S
    BY <1>1, DraftFacts, RequiredIsAccepted DEF Verdicts
  <1>5. OptionalString(p.scale) \in S /\ OptionalString(p.propertyCount) \in S
    <2>1. OptionalString(Absent) = Ok
      BY DEF OptionalString, Require, Absent
    <2>2. QED
      BY <1>1, <2>1, DraftFacts, OptionalIsAccepted DEF Verdicts
  <1> HIDE DEF S
  <1>6. ValidateProperty(p) \in S
    BY <1>1, <1>3, <1>4, <1>5, FirstRefusal DEF ValidateProperty
  <1>7. QED
    BY <1>6 DEF p, S

LEMMA SituationIsAccepted ==
    ASSUME NEW d \in Drafts, IsProposal(d), Mappable(d)
    PROVE  ValidateSituation(SituationBlock(d)) \in Verdicts(d)
  <1> DEFINE t == SituationBlock(d)
             S == Verdicts(d)
  <1>1. /\ t.current = d.current /\ t.timing = d.timing /\ t.notes = Optional(d.notes)
        /\ t.involvement = ScopeToInvolvement[WireServiceScope(d.scope)]
        /\ t # NoBlock
    BY DEF SituationBlock, NoBlock
  <1> HIDE DEF t
  <1>2. d.current \in Situations /\ d.timing \in Timings
    BY DEF Mappable, Choices, Situations, Timings
  <1>3. /\ RequireToken(t.current, Situations) \in S
        /\ RequireToken(t.involvement, Involvements) \in S
        /\ RequireToken(t.timing, Timings) \in S
    BY <1>1, <1>2, TokensAreAccepted, ScopesAreAccepted DEF Verdicts
  <1>4. OptionalString(t.notes) \in S
    BY <1>1, DraftFacts, OptionalIsAccepted DEF Verdicts
  <1> HIDE DEF S
  <1>5. ValidateSituation(t) \in S
    BY <1>1, <1>3, <1>4, FirstRefusal DEF ValidateSituation
  <1>6. QED
    BY <1>5 DEF t, S

LEMMA PayloadFacts ==
    ASSUME NEW d
    PROVE  /\ Payload(d).pathway = WirePathway(d.pathway) /\ Payload(d).booking = NoBlock
           /\ Payload(d).contact = InquiryContact(d)
           /\ Payload(d).serviceScope =
                 (IF IsProposal(d) THEN WireServiceScope(d.scope) ELSE Absent)
           /\ Payload(d).property = (IF IsProposal(d) THEN PropertyBlock(d) ELSE NoBlock)
           /\ Payload(d).situation = (IF IsProposal(d) THEN SituationBlock(d) ELSE NoBlock)
           /\ Payload(d).topic = (IF IsProposal(d) THEN Absent ELSE d.topic)
  BY DEF Payload

LEMMA PathwayFacts ==
    ASSUME NEW d \in Drafts
    PROVE  /\ WirePathway(d.pathway) \in Pathways
           /\ IsProposal(d) <=> WirePathway(d.pathway) = "management_proposal"
           /\ d.pathway = "investor-services" <=>
                 WirePathway(d.pathway) = "investor_services"
  BY DraftFacts DEF PathwayNames, WirePathway, Pathways, IsProposal

LEMMA PathwayIsAccepted ==
    ASSUME NEW d \in Drafts, Mappable(d)
    PROVE  (IF Payload(d).pathway = "management_proposal" THEN ValidateProposal(Payload(d))
                                                          ELSE ValidateShort(Payload(d)))
           \in Verdicts(d)
  <1> DEFINE p == Payload(d)
             S == Verdicts(d)
  <1>1. CASE IsProposal(d)
    <2>1. /\ p.pathway = "management_proposal" /\ p.serviceScope = WireServiceScope(d.scope)
          /\ p.property = PropertyBlock(d) /\ p.situation = SituationBlock(d)
          /\ p.topic = Absent
      BY <1>1, PayloadFacts, PathwayFacts
    <2>2. SituationBlock(d).involvement = ScopeToInvolvement[WireServiceScope(d.scope)]
      BY DEF SituationBlock
    <2> HIDE DEF p
    <2>3. RequireToken(p.serviceScope, ServiceScopes) \in S
      BY <2>1, ScopesAreAccepted, TokensAreAccepted DEF Verdicts
    <2>4. ValidateProperty(p.property) \in S /\ ValidateSituation(p.situation) \in S
      BY <1>1, <2>1, PropertyIsAccepted, SituationIsAccepted
    <2>5. /\ Require(ScopeToInvolvement[p.serviceScope] = p.situation.involvement,
                     "SCOPE_INVOLVEMENT_MISMATCH") \in S
          /\ Require(p.topic = Absent, "BLOCK_NOT_ALLOWED_FOR_PATHWAY") \in S
      BY <2>1, <2>2 DEF Require, Verdicts
    <2> HIDE DEF S
    <2>6. ValidateProposal(p) \in S
      BY <2>3, <2>4, <2>5, FirstRefusal DEF ValidateProposal
    <2>7. QED
      BY <2>1, <2>6 DEF p, S
  <1>2. CASE ~ IsProposal(d)
    <2>1. p.pathway = WirePathway(d.pathway) /\ p.topic = d.topic
      BY <1>2, PayloadFacts
    <2>2. p.pathway # "management_proposal"
      BY <1>2, <2>1, PathwayFacts
    <2>3. d.topic \in (IF p.pathway = "investor_services" THEN TopicsInvestor
                                                         ELSE TopicsGeneral)
      BY <1>2, <2>1, PathwayFacts DEF Mappable, TopicsOf, TopicsInvestor, TopicsGeneral
    <2> HIDE DEF p
    <2>4. ValidateShort(p) = Ok
      BY <2>1, <2>3, TokensAreAccepted DEF ValidateShort
    <2>5. QED
      BY <2>2, <2>4 DEF p, Verdicts
  <1>3. QED
    BY <1>1, <1>2

(* A draft that is let through and can be mapped is refused only for what  *)
(* was typed, or for a place that was left out.                            *)
LEMMA SendableIsAccepted ==
    ASSUME NEW d \in Sendable, NEW code \in Locales, NEW token \in IntentTokens \cup {Absent}
    PROVE  ValidateSubmission(WireBody(d, code, token)) \in Verdicts(d)
  <1> DEFINE p == Payload(d)
             S == Verdicts(d)
  <1>1. d \in Drafts /\ ~ Invalid(d) /\ Mappable(d)
    BY DEF Sendable
  <1>2. RequireToken(p.pathway, Pathways) \in S
    BY <1>1, PayloadFacts, PathwayFacts, TokensAreAccepted DEF Verdicts
  <1>3. Require(p.booking = NoBlock, "BOOKING_NOT_ALLOWED_IN_SUBMISSION") \in S
    BY PayloadFacts DEF Require, Verdicts
  <1>4. ValidateInquiryContact(p.contact) \in S
    BY <1>1, PayloadFacts, ContactIsAccepted DEF Verdicts
  <1>5. Require(ProposalBlocksAllowed(p), "BLOCK_NOT_ALLOWED_FOR_PATHWAY") \in S
    BY <1>1, PayloadFacts, PathwayFacts DEF ProposalBlocksAllowed, Require, Verdicts
  <1>6. (IF p.pathway = "management_proposal" THEN ValidateProposal(p) ELSE ValidateShort(p))
        \in S
    BY <1>1, PathwayIsAccepted
  <1> HIDE DEF p, S
  <1>7. ValidateServiceInquiry(p) \in S
    BY <1>2, <1>3, <1>4, <1>5, <1>6, FirstRefusal DEF ValidateServiceInquiry
  <1>8. QED
    BY <1>1, <1>7, FrameIsAccepted DEF p, S

LEMMA LiveBodyIsAccepted == Types => WellFormedOnTheWire
  <1> SUFFICES ASSUME Types, A!Live(client)
               PROVE  /\ ValidateSubmission(client.envelope.req) \in {Ok} \cup TypedRefusals
                      /\ ValidateSubmission(client.envelope.req) = "MISSING_REQUIRED" =>
                            client.envelope.req.payload.property.location = "blank"
    BY DEF WellFormedOnTheWire
  <1>1. PICK d \in Sendable, code \in Locales, token \in IntentTokens \cup {Absent} :
            client.envelope = [id |-> "new", req |-> WireBody(d, code, token)]
    BY DEF Types, Clients, Envelopes, Bodies, A!Live
  <1>2. client.envelope.req = WireBody(d, code, token)
    BY <1>1
  <1>3. WireBody(d, code, token).payload = Payload(d)
    BY DEF WireBody
  <1>4. IsProposal(d) => Payload(d).property.location = d.location
    <2>1. PropertyBlock(d).location = d.location
      BY DEF PropertyBlock
    <2>2. QED
      BY <2>1, PayloadFacts
  <1>5. QED
    BY <1>2, <1>3, <1>4, SendableIsAccepted DEF Verdicts, TypedRefusals, Ok

-----------------------------------------------------------------------------
(* Drafts.                                                                 *)

LEMMA BlankIsTaken ==
    \A field \in AnswerFields \ {"scaleUnknown"} : "blank" \in Takes(field)
  BY DEF AnswerFields, Takes, TextKinds, Absent

LEMMA EmptyDraftType ==
    ASSUME NEW pathway \in PathwayNames, NEW scope \in ScopeNames
    PROVE  /\ EmptyDraft(pathway, scope) \in Drafts
           /\ EmptyDraft(pathway, scope).scope = scope
           /\ EmptyDraft(pathway, scope).pathway = pathway
           /\ EmptyDraft(pathway, scope).involvement = "blank"
  <1> DEFINE d == EmptyDraft(pathway, scope)
  <1>1. /\ DOMAIN d = DraftFields /\ d = [field \in DraftFields |-> d[field]]
        /\ d["pathway"] = pathway /\ d["scope"] = scope
        /\ \A field \in AnswerFields : IF field = "scaleUnknown" THEN d[field] = FALSE
                                                                 ELSE d[field] = "blank"
    BY DEF EmptyDraft, DraftFields, AnswerFields
  <1> HIDE DEF d
  <1>2. Takes("scaleUnknown") = BOOLEAN
    BY DEF Takes, Choices
  <1>3. \A field \in AnswerFields : d[field] \in Takes(field)
    BY <1>1, <1>2, BlankIsTaken
  <1>4. \A field \in DraftFields : d[field] \in Values
    BY <1>1, <1>3 DEF DraftFields, Values
  <1>5. d \in Drafts
    BY <1>1, <1>3, <1>4 DEF Drafts
  <1>6. QED
    BY <1>1, <1>5 DEF d, AnswerFields

LEMMA PreselectedType ==
    ASSUME NEW d \in Drafts, d.involvement = "blank"
    PROVE  /\ Preselected(d) \in Drafts /\ Agrees(Preselected(d))
           /\ d.scope # "pm-plus-am" => Preselected(d) = d
  <1>1. CASE d.scope = "pm-plus-am"
    <2> DEFINE i == "property_management_plus_asset_management"
    <2>1. Preselected(d) = [d EXCEPT !["involvement"] = i]
      BY <1>1 DEF Preselected
    <2>2. i \in Takes("involvement") /\ i \in Values
      BY DEF Takes, Choices, Values, AnswerFields
    <2>3. Preselected(d) \in Drafts
      BY <2>1, <2>2 DEF Drafts, DraftFields, AnswerFields
    <2>4. Preselected(d).involvement = i /\ Preselected(d).scope = d.scope
      BY <2>1 DEF Drafts, DraftFields, AnswerFields
    <2>5. QED
      BY <1>1, <2>3, <2>4 DEF Agrees, WireServiceScope, ScopeToInvolvement
  <1>2. CASE d.scope # "pm-plus-am"
    BY <1>2 DEF Preselected, Agrees
  <1>3. QED
    BY <1>1, <1>2

LEMMA EntryFacts ==
    ASSUME NEW entry \in Entries, Offers(entry)
    PROVE  /\ DOMAIN entry \subseteq AnswerFields
           /\ \A field \in DOMAIN entry : entry[field] \in Takes(field)
  <1>1. Asked \subseteq AnswerFields
    BY DEF Asked, ShortQuestions, PropertyQuestions, SituationQuestions, ContactQuestions,
           ContactFields, AnswerFields
  <1>2. QED
    BY <1>1, InquiryAssumption DEF Offers

LEMMA MergeFacts ==
    ASSUME NEW d \in Drafts, NEW entry \in Entries, Offers(entry)
    PROVE  /\ Merge(d, entry) \in Drafts
           /\ Merge(d, entry).pathway = d.pathway /\ Merge(d, entry).scope = d.scope
           /\ Merge(d, entry).involvement =
                 (IF "involvement" \in DOMAIN entry THEN entry.involvement ELSE d.involvement)
  <1> DEFINE m == Merge(d, entry)
  <1>1. /\ DOMAIN d = DraftFields /\ \A field \in AnswerFields : d[field] \in Takes(field)
        /\ d["pathway"] \in PathwayNames /\ d["scope"] \in ScopeNames
    BY DEF Drafts
  <1>2. m = [field \in DraftFields |-> IF field \in DOMAIN entry THEN entry[field]
                                                               ELSE d[field]]
    BY <1>1 DEF Merge
  <1>3. "pathway" \notin DOMAIN entry /\ "scope" \notin DOMAIN entry
    BY EntryFacts DEF AnswerFields
  <1> HIDE DEF m
  <1>4. \A field \in AnswerFields : m[field] \in Takes(field)
    BY <1>1, <1>2, EntryFacts DEF DraftFields
  <1>5. m["pathway"] = d["pathway"] /\ m["scope"] = d["scope"]
    BY <1>2, <1>3 DEF DraftFields
  <1>6. \A field \in DraftFields : m[field] \in Values
    BY <1>1, <1>4, <1>5 DEF DraftFields, Values
  <1>7. m \in Drafts
    BY <1>1, <1>2, <1>4, <1>5, <1>6 DEF Drafts
  <1>8. m["involvement"] = (IF "involvement" \in DOMAIN entry THEN entry["involvement"]
                                                              ELSE d["involvement"])
    BY <1>2 DEF DraftFields, AnswerFields
  <1>9. QED
    BY <1>5, <1>7, <1>8 DEF m

(* An answer about involvement brings the scope with it.                   *)
LEMMA AnsweredType ==
    ASSUME NEW d \in Drafts, NEW entry \in Entries, Offers(entry)
    PROVE  /\ Answered(d, entry) \in Drafts
           /\ Agrees(d) => Agrees(Answered(d, entry))
  <1> DEFINE m == Merge(d, entry)
  <1>1. CASE "involvement" \in DOMAIN entry
    <2>1. Answered(d, entry) = [m EXCEPT !["scope"] = ScopeFromInvolvement(entry.involvement)]
      BY <1>1 DEF Answered
    <2>2. m \in Drafts /\ m["involvement"] = entry.involvement
      BY <1>1, MergeFacts
    <2>3. ScopeFromInvolvement(entry.involvement) \in ScopeNames
      BY DEF ScopeFromInvolvement, ScopeNames
    <2> HIDE DEF m
    <2>4. Answered(d, entry) \in Drafts
      BY <2>1, <2>2, <2>3 DEF Drafts, DraftFields, AnswerFields, Values
    <2>5. /\ Answered(d, entry).scope = ScopeFromInvolvement(entry.involvement)
          /\ Answered(d, entry).involvement = entry.involvement
      BY <2>1, <2>2 DEF Drafts, DraftFields, AnswerFields
    <2>6. entry.involvement \in Involvements \cup {"blank"}
      BY <2>4, <2>5, DraftFacts
    <2>7. QED
      BY <2>4, <2>5, <2>6 DEF Agrees, ScopeFromInvolvement, WireServiceScope,
                              ScopeToInvolvement, Involvements
  <1>2. CASE "involvement" \notin DOMAIN entry
    BY <1>2, MergeFacts DEF Answered, Agrees, IsProposal
  <1>3. QED
    BY <1>1, <1>2

(* A form that is opened: nothing waits, nothing has failed, and what is   *)
(* preselected agrees with the door.                                       *)
LEMMA OpenedFacts ==
    ASSUME NEW intent \in Intents \cup {NoIntent}
    PROVE  /\ Opened(intent) \in Forms
           /\ Opened(intent).screen \in {"gateway", "proposal", "short"}
           /\ Opened(intent).state = "idle" /\ Opened(intent).awaits = FALSE
           /\ Agrees(Opened(intent).draft)
           /\ Opened(intent).screen = "gateway" => Opened(intent).draft.involvement = "blank"
  <1> DEFINE entry == PathwayForIntent(intent)
             empty == EmptyDraft(entry[1], entry[2])
             d == Preselected(empty)
  <1>1. entry[1] \in PathwayNames /\ entry[2] \in ScopeNames
        /\ (intent = NoIntent => entry[2] # "pm-plus-am")
    BY DEF PathwayForIntent, PathwayNames, ScopeNames, NoIntent
  <1> HIDE DEF entry
  <1>2. empty \in Drafts /\ empty.involvement = "blank" /\ empty.scope = entry[2]
    BY <1>1, EmptyDraftType
  <1> HIDE DEF empty
  <1>3. d \in Drafts /\ Agrees(d) /\ (intent = NoIntent => d = empty)
    BY <1>1, <1>2, PreselectedType
  <1>4. Opened(intent) =
            [screen |-> IF intent = NoIntent THEN "gateway"
                        ELSE IF IsProposal(d) THEN "proposal" ELSE "short",
             step |-> 1, errors |-> FALSE, state |-> "idle", awaits |-> FALSE, draft |-> d]
    BY DEF Opened, entry, empty
  <1> HIDE DEF d
  <1>5. QED
    BY <1>2, <1>3, <1>4 DEF Forms, Screens, FormStates

-----------------------------------------------------------------------------
(* The address, and the form that it opens.                                *)

LEMMA FormFacts ==
    ASSUME form \in Forms
    PROVE  /\ form.draft \in Drafts /\ form.screen \in Screens /\ form.state \in FormStates
           /\ form.awaits \in BOOLEAN /\ form.step \in Nat
  BY DEF Forms

LEMMA ReopenStep ==
    ASSUME IInv, NEW path, NEW intent \in Intents \cup {NoIntent},
           Reopen([path |-> path, intent |-> intent])
    PROVE  IInv'
  <1>1. /\ url' = [path |-> path, intent |-> intent] /\ form' = Opened(intent)
        /\ receipt' = NoReceipt /\ returned' = FALSE /\ UNCHANGED <<client, late>>
    BY DEF Reopen
  <1>2. Types'
    BY <1>1, OpenedFacts DEF IInv, Types, UrlInv
  <1>3. ReceiptInv'
    BY <1>1, OpenedFacts DEF ReceiptInv, NoReceipt
  <1>4. AnswersInv'
    BY <1>1, OpenedFacts DEF AnswersInv
  <1>5. ScopeInv'
    BY <1>1, OpenedFacts DEF ScopeInv
  <1>6. QED
    BY <1>2, <1>3, <1>4, <1>5 DEF IInv

(* Another address for the same form.                                      *)
LEMMA SameFormStep ==
    ASSUME IInv, UrlInv', UNCHANGED <<form, client, receipt, late, returned>>
    PROVE  IInv'
  BY DEF IInv, Types, ReceiptInv, AnswersInv, ScopeInv

LEMMA FollowLinkStep ==
    ASSUME IInv, NEW intent \in Intents \cup {NoIntent}, FollowLink(intent)
    PROVE  IInv'
  <1> DEFINE path == LocalePath(url.path, ContactPage)
  <1>1. CASE (intent = NoIntent) = (url.intent = NoIntent)
    <2>1. url' = [path |-> path, intent |-> intent]
          /\ UNCHANGED <<form, client, receipt, late, returned>>
      BY <1>1 DEF FollowLink
    <2>2. UrlInv'
      BY <2>1 DEF UrlInv
    <2>3. QED
      BY <2>1, <2>2, SameFormStep
  <1>2. CASE (intent = NoIntent) # (url.intent = NoIntent)
    <2>1. Reopen([path |-> path, intent |-> intent])
      BY <1>2 DEF FollowLink
    <2>2. PICK p : p = path
      OBVIOUS
    <2>3. Reopen([path |-> p, intent |-> intent])
      BY <2>1, <2>2
    <2>4. QED
      BY <2>3, ReopenStep
  <1>3. QED
    BY <1>1, <1>2

LEMMA SwitchLocaleStep ==
    ASSUME IInv, NEW code \in LaunchReady, SwitchLocale(code)
    PROVE  IInv'
  <1> DEFINE to == LocaleEquivalentUrl(code, url.path)
  <1>1. url = [path |-> url.path, intent |-> url.intent]
        /\ url.intent \in Intents \cup {NoIntent}
    BY DEF IInv, Types, UrlInv
  <1>2. [url EXCEPT !.path = to] = [path |-> to, intent |-> url.intent]
    BY <1>1
  <1>3. CASE Remounts(url.path, to)
    <2>1. Reopen([path |-> to, intent |-> url.intent])
      BY <1>2, <1>3 DEF SwitchLocale
    <2>2. PICK p : p = to
      OBVIOUS
    <2>3. PICK i \in Intents \cup {NoIntent} : i = url.intent
      BY <1>1
    <2>4. Reopen([path |-> p, intent |-> i])
      BY <2>1, <2>2, <2>3
    <2>5. QED
      BY <2>4, ReopenStep
  <1>4. CASE ~ Remounts(url.path, to)
    <2>1. url' = [path |-> to, intent |-> url.intent]
          /\ UNCHANGED <<form, client, receipt, late, returned>>
      BY <1>2, <1>4 DEF SwitchLocale
    <2>2. UrlInv'
      BY <1>1, <2>1 DEF UrlInv
    <2>3. QED
      BY <2>1, <2>2, SameFormStep
  <1>5. QED
    BY <1>3, <1>4

-----------------------------------------------------------------------------
(* Screens and answers.                                                    *)

(* What is answered now is answered late if it changes a live attempt.     *)
LEMMA LateFacts ==
    ASSUME IInv, Late
    PROVE  late' \in Nat /\ (late' = 0 => late = 0 /\ ~ A!Live(client))
  BY DEF Late, IInv, Types

LEMMA ChoosePathwayStep ==
    ASSUME IInv, NEW door \in Gateway, ChoosePathway(door)
    PROVE  IInv'
  <1> DEFINE to == [form.draft EXCEPT !.pathway = door[1], !.scope = door[2]]
             screen == IF door[1] = "management-proposal" THEN "proposal" ELSE "short"
  <1>1. /\ form.screen = "gateway" /\ Late
        /\ form' = [form EXCEPT !.draft = Preselected(to), !.step = 1, !.errors = FALSE,
                                !.state = "idle", !.screen = screen]
        /\ UNCHANGED <<url, client, receipt, returned>>
    BY DEF ChoosePathway
  <1>2. form \in Forms /\ form.draft \in Drafts
    BY FormFacts DEF IInv, Types
  <1>3. door[1] \in PathwayNames /\ door[2] \in ScopeNames
        /\ (door[2] = "pm-plus-am" => door[1] = "management-proposal")
    BY DEF Gateway, PathwayNames, ScopeNames
  <1>4. /\ to \in Drafts /\ to.involvement = form.draft.involvement
        /\ to.pathway = door[1] /\ to.scope = door[2]
    BY <1>2, <1>3 DEF Drafts, DraftFields, AnswerFields, Values
  <1> HIDE DEF to
  <1>5. Preselected(to) \in Drafts
    <2>1. "property_management_plus_asset_management" \in Takes("involvement")
          /\ "property_management_plus_asset_management" \in Values
      BY DEF Takes, Choices, Values, AnswerFields
    <2>2. QED
      BY <1>4, <2>1 DEF Preselected, Drafts, DraftFields, AnswerFields
  <1>6. /\ form' \in Forms /\ form'.draft = Preselected(to) /\ form'.state = "idle"
        /\ form'.screen \in {"proposal", "short"} /\ form'.awaits = form.awaits
    BY <1>1, <1>2, <1>5 DEF Forms, Screens, FormStates
  <1>7. Types'
    BY <1>1, <1>6, LateFacts DEF IInv, Types, UrlInv
  <1>8. ReceiptInv'
    BY <1>1, <1>6 DEF IInv, ReceiptInv
  <1>9. AnswersInv'
    BY <1>1, <1>6, LateFacts DEF IInv, AnswersInv
  <1>10. ScopeInv'
    <2>1. ~ returned => to.involvement = "blank"
      BY <1>1, <1>4 DEF IInv, ScopeInv
    <2>2. ~ returned => Agrees(Preselected(to))
      BY <1>4, <2>1, PreselectedType
    <2>3. QED
      BY <1>1, <1>6, <2>2 DEF ScopeInv
  <1>11. QED
    BY <1>7, <1>8, <1>9, <1>10 DEF IInv

LEMMA AnswerStep ==
    ASSUME IInv, NEW entry \in Entries, Answer(entry)
    PROVE  IInv'
  <1>1. /\ Offers(entry) /\ Late
        /\ Answered(form.draft, entry) # form.draft
        /\ form' = [form EXCEPT !.draft = Answered(form.draft, entry)]
        /\ UNCHANGED <<url, client, receipt, returned>>
    BY DEF Answer
  <1>2. form \in Forms /\ form.draft \in Drafts
    BY FormFacts DEF IInv, Types
  <1>3. /\ Answered(form.draft, entry) \in Drafts
        /\ Agrees(form.draft) => Agrees(Answered(form.draft, entry))
    BY <1>1, <1>2, AnsweredType
  <1>4. /\ form' \in Forms /\ form'.draft = Answered(form.draft, entry)
        /\ form'.screen = form.screen /\ form'.state = form.state
        /\ form'.awaits = form.awaits
    BY <1>1, <1>2, <1>3 DEF Forms
  <1>5. OnForm
    <2>1. CASE Asked = {}
      <3>1. DOMAIN entry = {}
        BY <1>1, <2>1 DEF Offers
      <3>2. DOMAIN form.draft = DraftFields
            /\ form.draft = [field \in DraftFields |-> form.draft[field]]
        BY <1>2 DEF Drafts
      <3>3. Answered(form.draft, entry) = form.draft
        BY <3>1, <3>2 DEF Answered, Merge
      <3>4. QED
        BY <1>1, <3>3
    <2>2. CASE Asked # {}
      BY <2>2 DEF Asked, OnForm
    <2>3. QED
      BY <2>1, <2>2
  <1>6. Types'
    BY <1>1, <1>4, LateFacts DEF IInv, Types, UrlInv
  <1>7. ReceiptInv'
    BY <1>1, <1>4 DEF IInv, ReceiptInv
  <1>8. AnswersInv'
    BY <1>1, <1>4, <1>5, LateFacts DEF IInv, AnswersInv, OnForm
  <1>9. ScopeInv'
    BY <1>1, <1>3, <1>4, <1>5 DEF IInv, ScopeInv, OnForm
  <1>10. QED
    BY <1>6, <1>7, <1>8, <1>9 DEF IInv

(* Steps that leave the answers, the client and the receipt alone.         *)
LEMMA ScreenStep ==
    ASSUME IInv, UNCHANGED <<url, client, receipt, late>>,
           form' \in Forms, form'.draft = form.draft, form'.awaits = form.awaits,
           form'.state = "failed" => form.state = "failed",
           form'.screen = "confirmation" => form.screen = "confirmation",
           form'.screen \in {"schedule", "skipped"} =>
              form.screen \in {"schedule", "skipped"} \/ receipt.bookingEligible,
           returned' \in BOOLEAN, ~ returned' => ~ returned,
           form'.screen = "gateway" => form.screen = "gateway" \/ returned'
    PROVE  IInv'
  <1>1. Types'
    BY DEF IInv, Types, UrlInv
  <1>2. ReceiptInv'
    BY DEF IInv, ReceiptInv
  <1>3. AnswersInv'
    BY DEF IInv, AnswersInv
  <1>4. ScopeInv'
    BY DEF IInv, ScopeInv
  <1>5. QED
    BY <1>1, <1>2, <1>3, <1>4 DEF IInv

LEMMA ShowStep ==
    ASSUME IInv,
           \/ BackToGateway
           \/ \E step \in 1 .. 3 : Go(step)
           \/ SubmitInvalid \/ SubmitUnmapped
           \/ GoSchedule \/ GoSkipped
    PROVE  IInv'
  <1>1. form \in Forms /\ returned \in BOOLEAN
    BY DEF IInv, Types
  <1>2. CASE BackToGateway
    <2>1. /\ form' \in Forms /\ form'.draft = form.draft /\ form'.awaits = form.awaits
          /\ form'.state = "idle" /\ form'.screen = "gateway"
      BY <1>1, <1>2 DEF BackToGateway, Forms, Screens, FormStates
    <2>2. returned' = TRUE /\ UNCHANGED <<url, client, receipt, late>>
      BY <1>2 DEF BackToGateway
    <2>3. QED
      BY <2>1, <2>2, ScreenStep
  <1>3. ASSUME NEW step \in 1 .. 3, Go(step)
        PROVE  IInv'
    <2>1. /\ form' \in Forms /\ form'.draft = form.draft /\ form'.awaits = form.awaits
          /\ form'.state = form.state /\ form'.screen = form.screen
      BY <1>1, <1>3 DEF Go, Forms
    <2>2. UNCHANGED <<url, client, receipt, late, returned>>
      BY <1>3 DEF Go
    <2>3. QED
      BY <1>1, <2>1, <2>2, ScreenStep
  <1>4. CASE SubmitInvalid \/ SubmitUnmapped
    <2>1. /\ form' \in Forms /\ form'.draft = form.draft /\ form'.awaits = form.awaits
          /\ form'.state = form.state \/ form'.state = "blocked"
          /\ form'.screen = form.screen
      BY <1>1, <1>4 DEF SubmitInvalid, SubmitUnmapped, Forms, FormStates
    <2>2. UNCHANGED <<url, client, receipt, late, returned>>
      BY <1>4 DEF SubmitInvalid, SubmitUnmapped
    <2>3. QED
      BY <1>1, <2>1, <2>2, ScreenStep
  <1>5. CASE GoSchedule \/ GoSkipped
    <2>1. PICK screen \in {"schedule", "skipped"} : form' = [form EXCEPT !.screen = screen]
      BY <1>5 DEF GoSchedule, GoSkipped, Show
    <2>2. /\ form' \in Forms /\ form'.draft = form.draft /\ form'.awaits = form.awaits
          /\ form'.state = form.state /\ form'.screen = screen
      BY <1>1, <2>1 DEF Forms, Screens
    <2>3. /\ form.screen \in {"schedule", "skipped"} \/ receipt.bookingEligible
          /\ UNCHANGED <<url, client, receipt, late, returned>>
      BY <1>5 DEF GoSchedule, GoSkipped, Show, Offered
    <2>4. QED
      BY <1>1, <2>2, <2>3, ScreenStep
  <1>6. QED
    BY <1>2, <1>3, <1>4, <1>5

-----------------------------------------------------------------------------
(* Sending.                                                                *)

LEMMA ClientFacts ==
    ASSUME NEW c \in Clients
    PROVE  /\ A!Sending(c) \in Clients /\ A!Sending(c).envelope = c.envelope
           /\ \A result \in Results :
                 /\ A!Applied(c, result) \in Clients
                 /\ A!Applied(c, result).inFlight = FALSE
                 /\ result.outcome # "ok" => A!Applied(c, result).envelope = c.envelope
  <1>1. A!Sending(c) \in Clients /\ A!Sending(c).envelope = c.envelope
    BY DEF Clients, A!Sending, Statuses
  <1>2. A!NoEnvelope \in Envelopes
    BY DEF Envelopes
  <1>3. ASSUME NEW result \in Results
        PROVE  /\ A!Applied(c, result) \in Clients
               /\ A!Applied(c, result).inFlight = FALSE
               /\ result.outcome # "ok" => A!Applied(c, result).envelope = c.envelope
    BY <1>2 DEF Clients, A!Applied, A!Idle, Statuses, Results
  <1>4. QED
    BY <1>1, <1>3

LEMMA BegunType ==
    ASSUME NEW e \in Envelopes
    PROVE  A!Begun(e) \in Clients /\ A!Begun(e).envelope = e
  BY DEF A!Begun, A!Idle, Clients, Statuses

LEMMA ResultTypes ==
    /\ A!NetworkFailure \in Results /\ A!NotConfigured \in Results
    /\ \A code : A!ClassifyBackend(code) \in Results
  <1>1. /\ A!NetworkFailure \in Results
        /\ \A b \in BOOLEAN : /\ A!Result("permanent", b) \in Results
                             /\ A!Result("ok", b) \in Results
                             /\ A!Result("retryable", b) \in Results
                             /\ A!Result("not_configured", b) \in Results
    BY DEF A!Result, A!NetworkFailure, Results
  <1> HIDE DEF Results
  <1>2. ASSUME NEW code
        PROVE  A!ClassifyBackend(code) \in Results
    BY <1>1 DEF A!ClassifyBackend, A!NotConfigured
  <1>3. QED
    BY <1>1, <1>2 DEF A!NotConfigured

LEMMA BodyType ==
    ASSUME UrlInv, form.draft \in Sendable
    PROVE  Body(form.draft) \in Bodies /\ Body(form.draft).payload = Payload(form.draft)
  <1>1. ParseLocalePath(url.path).code \in Locales
    <2>1. DefaultLocale \in Locales /\ LaunchReady \subseteq Locales
      BY LaunchReadyAssumption
    <2>2. \A requested : ResolveLocale(requested, LaunchReady) \in Locales
      BY <2>1 DEF ResolveLocale
    <2>3. QED
      BY <2>1, <2>2 DEF ParseLocalePath
  <1>2. WireIntentToken(url.intent) \in IntentTokens \cup {Absent}
    BY DEF WireIntentToken, IntentTokens
  <1>3. PICK code \in Locales, token \in IntentTokens \cup {Absent} :
            code = ParseLocalePath(url.path).code /\ token = WireIntentToken(url.intent)
    BY <1>1, <1>2
  <1>4. Body(form.draft) = WireBody(form.draft, code, token)
    BY <1>3 DEF Body, WireBody
  <1>5. QED
    <2>1. WireBody(form.draft, code, token) \in Bodies
      BY DEF Bodies
    <2>2. WireBody(form.draft, code, token).payload = Payload(form.draft)
      BY DEF WireBody
    <2>3. QED
      BY <1>4, <2>1, <2>2

LEMMA SubmitStep ==
    ASSUME IInv, Submit
    PROVE  IInv'
  <1> DEFINE body == Body(form.draft)
             envelope == [id |-> "new", req |-> body]
             refused == A!Refuses(client, Same)
  <1>1. /\ form \in Forms /\ form.draft \in Drafts /\ form.awaits \in BOOLEAN
        /\ client \in Clients /\ UrlInv
    BY FormFacts DEF IInv, Types
  <1>2. body \in Bodies /\ body.payload = Payload(form.draft)
    BY <1>1, BodyType DEF Submit, Sendable
  <1>3. /\ refused => UNCHANGED client
        /\ ~ refused /\ Same => client' = A!Sending(client)
        /\ ~ refused /\ ~ Same => client' = A!Sending(A!Begun(envelope))
        /\ UNCHANGED <<url, receipt, late, returned>>
    BY DEF Submit, A!NeedsNew, Same
  <1>4. PICK b \in BOOLEAN : /\ form' = [form EXCEPT !.errors = FALSE, !.state = "sending",
                                                     !.awaits = b]
                             /\ b <=> form.awaits \/ ~ refused
    BY <1>1 DEF Submit
  <1>5. /\ form' \in Forms /\ form'.draft = form.draft /\ form'.state = "sending"
        /\ form'.awaits = b /\ form'.screen = form.screen
    BY <1>1, <1>4 DEF Forms, FormStates
  <1>6. Same => client.envelope.req = body /\ A!Live(client)
    BY DEF Same
  <1> HIDE DEF body, refused
  <1>7. envelope \in Envelopes /\ envelope # A!NoEnvelope /\ envelope.req = body
    BY <1>2 DEF Envelopes, A!NoEnvelope
  <1> HIDE DEF envelope
  <1>8. /\ ~ refused => A!Live(client') /\ client'.envelope.req = body
        /\ client' \in Clients
    <2>1. A!Sending(client) \in Clients /\ A!Sending(client).envelope = client.envelope
      BY <1>1, ClientFacts
    <2>2. A!Begun(envelope) \in Clients /\ A!Begun(envelope).envelope = envelope
      BY <1>7, BegunType
    <2>3. /\ A!Sending(A!Begun(envelope)) \in Clients
          /\ A!Sending(A!Begun(envelope)).envelope = envelope
      BY <2>2, ClientFacts
    <2>4. CASE refused
      BY <1>1, <1>3, <2>4
    <2>5. CASE ~ refused /\ Same
      BY <1>3, <1>6, <2>1, <2>5 DEF A!Live
    <2>6. CASE ~ refused /\ ~ Same
      BY <1>3, <1>7, <2>3, <2>6 DEF A!Live
    <2>7. QED
      BY <2>4, <2>5, <2>6
  <1>9. client' \in Clients
    BY <1>8
  <1>10. Types'
    BY <1>3, <1>5, <1>9 DEF IInv, Types, UrlInv
  <1>11. ReceiptInv'
    BY <1>3, <1>5 DEF IInv, ReceiptInv
  <1>12. AnswersInv'
    BY <1>2, <1>3, <1>4, <1>5, <1>8 DEF IInv, AnswersInv
  <1>13. ScopeInv'
    BY <1>3, <1>5 DEF IInv, ScopeInv
  <1>14. QED
    BY <1>10, <1>11, <1>12, <1>13 DEF IInv

LEMMA RetryStep ==
    ASSUME IInv, Retry
    PROVE  IInv'
  <1>1. form \in Forms /\ client \in Clients
    BY DEF IInv, Types
  <1>2. /\ form.state = "failed" /\ form' = [form EXCEPT !.state = "sending", !.awaits = TRUE]
        /\ client' = A!Sending(client) /\ UNCHANGED <<url, receipt, late, returned>>
    BY DEF Retry
  <1>3. /\ form' \in Forms /\ form'.draft = form.draft /\ form'.state = "sending"
        /\ form'.screen = form.screen
    BY <1>1, <1>2 DEF Forms, FormStates
  <1>4. client' \in Clients /\ client'.envelope = client.envelope
    BY <1>1, <1>2, ClientFacts
  <1>5. Types' /\ ReceiptInv' /\ ScopeInv'
    BY <1>2, <1>3, <1>4 DEF IInv, Types, UrlInv, ReceiptInv, ScopeInv
  <1>6. AnswersInv'
    BY <1>2, <1>3, <1>4 DEF IInv, AnswersInv, A!Live
  <1>7. QED
    BY <1>5, <1>6 DEF IInv

(* An outcome, applied by the form that waits for it.                      *)
LEMMA ApplyStep ==
    ASSUME IInv, NEW result \in Results, Apply(result)
    PROVE  IInv'
  <1>1. form \in Forms /\ client \in Clients /\ client.inFlight
    BY DEF IInv, Types, Apply
  <1>2. /\ client' \in Clients /\ client'.inFlight = FALSE
        /\ result.outcome # "ok" => client'.envelope = client.envelope
    BY <1>1, ClientFacts DEF Apply
  <1>3. UNCHANGED <<url, late, returned>>
    BY DEF Apply
  <1>4. CASE ~ form.awaits
    <2>1. UNCHANGED <<form, receipt>>
      BY <1>4 DEF Apply
    <2>2. form.state # "failed"
      BY <1>1 DEF IInv, AnswersInv
    <2>3. Types' /\ ReceiptInv' /\ ScopeInv'
      BY <1>2, <1>3, <2>1 DEF IInv, Types, UrlInv, ReceiptInv, ScopeInv
    <2>4. AnswersInv'
      BY <1>3, <1>4, <2>1, <2>2 DEF IInv, AnswersInv
    <2>5. QED
      BY <2>3, <2>4 DEF IInv
  <1>5. CASE form.awaits /\ result.outcome = "ok"
    <2> DEFINE eligible == BookingEligible(client.envelope.req.payload)
    <2>1. /\ form' = [form EXCEPT !.screen = "confirmation", !.state = "idle",
                                  !.awaits = FALSE]
          /\ receipt' = [body |-> client.envelope.req, bookingEligible |-> eligible]
      BY <1>5 DEF Apply
    <2>2. /\ form' \in Forms /\ form'.draft = form.draft /\ form'.screen = "confirmation"
          /\ form'.state = "idle" /\ form'.awaits = FALSE
      BY <1>1, <2>1 DEF Forms, Screens, FormStates
    <2>3. eligible => client.envelope.req.payload.pathway = "management_proposal"
      BY DEF BookingEligible
    <2> HIDE DEF eligible
    <2>4. receipt'.body = client.envelope.req /\ receipt'.bookingEligible = eligible
      BY <2>1
    <2>5. Types'
      BY <1>2, <1>3, <2>2 DEF IInv, Types, UrlInv
    <2>6. ReceiptInv'
      BY <2>2, <2>3, <2>4 DEF ReceiptInv
    <2>7. AnswersInv'
      BY <1>3, <1>5, <2>2, <2>4 DEF IInv, AnswersInv
    <2>8. ScopeInv'
      BY <1>3, <2>2 DEF IInv, ScopeInv
    <2>9. QED
      BY <2>5, <2>6, <2>7, <2>8 DEF IInv
  <1>6. CASE form.awaits /\ result.outcome # "ok"
    <2>1. /\ form' = [form EXCEPT !.state = A!FormState(result), !.awaits = FALSE]
          /\ UNCHANGED receipt
      BY <1>6 DEF Apply
    <2>2. A!FormState(result) \in FormStates
      BY DEF A!FormState, FormStates
    <2>3. /\ form' \in Forms /\ form'.draft = form.draft /\ form'.screen = form.screen
          /\ form'.awaits = FALSE
      BY <1>1, <2>1, <2>2 DEF Forms
    <2>4. Types' /\ ReceiptInv' /\ ScopeInv'
      BY <1>2, <1>3, <2>1, <2>3 DEF IInv, Types, UrlInv, ReceiptInv, ScopeInv
    <2>5. AnswersInv'
      BY <1>2, <1>3, <1>6, <2>1, <2>3 DEF IInv, AnswersInv, A!Live
    <2>6. QED
      BY <2>4, <2>5 DEF IInv
  <1>7. QED
    BY <1>1, <1>4, <1>5, <1>6

-----------------------------------------------------------------------------
(* The page.                                                               *)

LEMMA InitHolds == InquiryInit => IInv
  <1> SUFFICES ASSUME InquiryInit
               PROVE  IInv
    OBVIOUS
  <1>1. PICK intent \in Intents \cup {NoIntent} :
            /\ url = [path |-> ContactPage, intent |-> intent]
            /\ form = Opened(intent)
            /\ client = A!Idle /\ receipt = NoReceipt /\ late = 0 /\ returned = FALSE
    BY DEF InquiryInit
  <1>2. A!Idle \in Clients
    BY DEF A!Idle, Clients, Statuses, Envelopes
  <1>3. Types
    BY <1>1, <1>2, OpenedFacts DEF Types, UrlInv
  <1>4. ReceiptInv /\ AnswersInv /\ ScopeInv
    BY <1>1, OpenedFacts DEF ReceiptInv, AnswersInv, ScopeInv, NoReceipt
  <1>5. QED
    BY <1>3, <1>4 DEF IInv

LEMMA StepHolds == IInv /\ [InquiryNext]_inquiryVars => IInv'
  <1> SUFFICES ASSUME IInv, [InquiryNext]_inquiryVars
               PROVE  IInv'
    OBVIOUS
  <1>1. ASSUME NEW intent \in Intents \cup {NoIntent}, FollowLink(intent)
        PROVE  IInv'
    BY <1>1, FollowLinkStep
  <1>2. ASSUME NEW code \in LaunchReady, SwitchLocale(code)
        PROVE  IInv'
    BY <1>2, SwitchLocaleStep
  <1>3. ASSUME NEW door \in Gateway, ChoosePathway(door)
        PROVE  IInv'
    BY <1>3, ChoosePathwayStep
  <1>4. ASSUME NEW entry \in Entries, Answer(entry)
        PROVE  IInv'
    BY <1>4, AnswerStep
  <1>5. CASE \/ BackToGateway \/ (\E step \in 1 .. 3 : Go(step))
             \/ SubmitInvalid \/ SubmitUnmapped \/ GoSchedule \/ GoSkipped
    BY <1>5, ShowStep
  <1>6. CASE Submit
    BY <1>6, SubmitStep
  <1>7. CASE Retry
    BY <1>7, RetryStep
  <1>8. CASE Judged \/ Undelivered
    <2>1. PICK result \in Results : Apply(result)
      <3>1. CASE Judged
        BY <3>1, ResultTypes DEF Judged
      <3>2. CASE Undelivered
        BY <3>2, ResultTypes DEF Undelivered
      <3>3. QED
        BY <1>8, <3>1, <3>2
    <2>2. QED
      BY <2>1, ApplyStep
  <1>9. CASE UNCHANGED inquiryVars
    BY <1>9, SameFormStep DEF inquiryVars, IInv, Types, UrlInv
  <1>10. QED
    BY <1>1, <1>2, <1>3, <1>4, <1>5, <1>6, <1>7, <1>8, <1>9 DEF InquiryNext, Press

(* The inductive invariant holds always.                                   *)
THEOREM InquiryInductiveInvariant == InquirySpec => []IInv
  BY InitHolds, StepHolds, PTL DEF InquirySpec

(* Whatever way a visitor takes through the page, with any answers, the    *)
(* backend refuses what is sent only for what was typed and the form does  *)
(* not check, or for a place that was left out.                            *)
THEOREM InquiryWellFormedOnTheWire == InquirySpec => []WellFormedOnTheWire
  <1>1. IInv => WellFormedOnTheWire
    BY LiveBodyIsAccepted DEF IInv
  <1>2. QED
    BY <1>1, InquiryInductiveInvariant, PTL

(* A call is offered, and the schedule entered, only for a proposal that   *)
(* was accepted.                                                           *)
THEOREM InquiryBookingForProposalsOnly == InquirySpec => []BookingForProposalsOnly
  <1>1. IInv => BookingForProposalsOnly
    BY DEF IInv, ReceiptInv, BookingForProposalsOnly, Offered
  <1>2. QED
    BY <1>1, InquiryInductiveInvariant, PTL

(* The involvement a confirmation lists is the one that was stored, unless *)
(* answers changed under the attempt or the form had been back at the      *)
(* gateway.                                                                *)
THEOREM InquiryInvolvementShownWasSent == InquirySpec => []InvolvementShownWasSent
  <1>1. ASSUME IInv, form.screen = "confirmation", ~ returned, late = 0,
               receipt.body.payload.pathway = "management_proposal"
        PROVE  WhatYouSent(form.draft).involvement \in
                  {"blank", receipt.body.payload.situation.involvement}
    <2>1. form.draft \in Drafts
      BY <1>1, FormFacts DEF IInv, Types
    <2>2. receipt.body.payload = Payload(form.draft) /\ Agrees(form.draft)
      BY <1>1 DEF IInv, AnswersInv, ScopeInv
    <2>3. IsProposal(form.draft)
      BY <1>1, <2>1, <2>2, PayloadFacts, PathwayFacts
    <2>4. SituationBlock(form.draft).involvement
             = ScopeToInvolvement[WireServiceScope(form.draft.scope)]
      BY DEF SituationBlock
    <2>5. WhatYouSent(form.draft).involvement = form.draft.involvement
      BY <2>3 DEF WhatYouSent
    <2>6. QED
      BY <2>2, <2>3, <2>4, <2>5, PayloadFacts DEF Agrees
  <1>2. IInv => InvolvementShownWasSent
    BY <1>1 DEF InvolvementShownWasSent
  <1>3. QED
    BY <1>2, InquiryInductiveInvariant, PTL
=============================================================================
