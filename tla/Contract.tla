------------------------------ MODULE Contract ------------------------------
(***************************************************************************)
(* The boundary of the backend (core/Contract.js with the vocabulary of    *)
(* core/Tokens.js): which bodies are accepted, and otherwise the first     *)
(* rule that refuses.                                                      *)
(*                                                                         *)
(* A text is one of the kinds the rules tell apart, a token is itself, and *)
(* a block that is missing is NoBlock.  JSON parsing, the size of the body *)
(* and values of a wrong JavaScript type are left out: both forms build    *)
(* their bodies as objects of strings and serialise them.                  *)
(***************************************************************************)
EXTENDS Naturals

Ok == "OK"
Absent == "absent"
NoBlock == [missing |-> TRUE]

(* Rules in the order they are tried: the first one that refuses decides.  *)
a && b == IF a = Ok THEN b ELSE a

Require(condition, code) == IF condition THEN Ok ELSE code

-----------------------------------------------------------------------------
(* Texts.  "phone" is digits in the punctuation both forms allow, with     *)
(* "extension" it has an x, a comma or a hash as well, with "tabbed" a tab *)
(* or a line break; "long" is over the limit of its field.                 *)
TextKinds == {Absent, "blank", "plain", "email", "phone", "extension", "tabbed", "long"}
Blank == {Absent, "blank"}

RequireString(t) ==
    Require(t \notin Blank, "MISSING_REQUIRED") && Require(t # "long", "FIELD_TOO_LONG")

OptionalString(t) == Require(t # "long", "FIELD_TOO_LONG")

IsEmail(t) == t = "email"
ValidatePhone(t) == Require(t \in {"phone", "extension"}, "INVALID_PHONE")

OptionalPhone(t) == OptionalString(t) && (IF t \in Blank THEN Ok ELSE ValidatePhone(t))
OptionalEmail(t) ==
    OptionalString(t) && Require(t \in Blank \/ IsEmail(t), "INVALID_EMAIL")

(* What is stored of an optional text: nothing becomes the empty string.   *)
Stored(t) == IF t \in Blank THEN "blank" ELSE t

-----------------------------------------------------------------------------
(* Tokens.                                                                 *)

Pathways == {"management_proposal", "investor_services", "general_inquiry"}
ServiceScopes == {"pm", "pm_plus_am", "undecided"}
IntentTokens == {"property_management", "asset_management", "investor_services", "general"}
PropertyTypes == {"multifamily", "retail", "mixed_portfolio", "another_property_type"}
PropertyScopes == {"one_property", "portfolio"}
Situations ==
    {"replace_current_management", "move_away_from_self_management",
     "recently_acquired_or_under_contract", "lease_up_or_turnaround",
     "operations_or_reporting_problems", "exploring_management_options", "something_else"}
Involvements ==
    {"property_management", "property_management_plus_asset_management", "not_sure"}
Timings ==
    {"immediately", "within_30_days", "days_30_to_60", "days_60_to_90", "still_exploring"}
TopicsInvestor ==
    {"exploring_first_acquisition", "under_contract_now", "actively_searching",
     "own_property_need_operating_team", "something_else"}
TopicsGeneral ==
    {"question_about_axispoint", "vendor_or_service_provider", "employment",
     "press_or_media", "something_else"}
BookingModes == {"phone_call", "video_meeting"}
ContactCategories ==
    {"property_owner_operator", "broker_real_estate_advisor", "investor_capital_partner",
     "lender_financial_professional", "property_management_operations",
     "service_provider_vendor", "other"}
Locales == {"en", "es", "zh-Hans", "zh-Hant", "vi", "hi", "ur", "gu", "pa"}
SourceCategories == {"website", "qr"}

(* Display strings are refused by a code of their own; one stands for all. *)
DisplayStrings == {"Multifamily"}

RequireToken(v, list) ==
    Require(v \notin DisplayStrings, "DISPLAY_STRING_NOT_ACCEPTED")
    && Require(v \in list, "UNKNOWN_ENUM")

OptionalToken(v, list) == IF v = Absent THEN Ok ELSE RequireToken(v, list)

ScopeToInvolvement ==
    [pm |-> "property_management",
     pm_plus_am |-> "property_management_plus_asset_management",
     undecided |-> "not_sure"]

-----------------------------------------------------------------------------
(* The parts every submission has.  `serverOwned` are the names among      *)
(* SERVER_OWNED_FIELDS that occur anywhere in the body.                    *)

NoServerOwned(body, allowed) ==
    Require(body.serverOwned \subseteq allowed, "SERVER_OWNED_FIELD_SUPPLIED")

ValidateLocale(l) ==
    RequireToken(l.page, Locales) && OptionalToken(l.preferredFollowUp, Locales)

ValidateAttribution(a) ==
    RequireToken(a.sourceCategory, SourceCategories)
    && RequireString(a.sourceDetail)
    && OptionalString(a.landingPage)
    && OptionalToken(a.intentToken, IntentTokens)
    && OptionalString(a.refToken)
    && OptionalString(a.utm)

-----------------------------------------------------------------------------
(* A service inquiry.                                                      *)

ValidateInquiryContact(c) ==
    RequireString(c.fullName)
    && RequireString(c.email) && Require(IsEmail(c.email), "INVALID_EMAIL")
    && OptionalPhone(c.phone)
    && OptionalString(c.organization)

ValidateProperty(p) ==
    IF p = NoBlock THEN "MISSING_REQUIRED" ELSE
       RequireToken(p.type, PropertyTypes)
       && RequireToken(p.scope, PropertyScopes)
       && RequireString(p.location)
       && OptionalString(p.scale)
       && OptionalString(p.propertyCount)

ValidateSituation(s) ==
    IF s = NoBlock THEN "MISSING_REQUIRED" ELSE
       RequireToken(s.current, Situations)
       && RequireToken(s.involvement, Involvements)
       && RequireToken(s.timing, Timings)
       && OptionalString(s.notes)

(* The blocks of a proposal, and the topic of the other two pathways, are  *)
(* refused where they do not belong.                                       *)
ValidateProposal(p) ==
    RequireToken(p.serviceScope, ServiceScopes)
    && ValidateProperty(p.property)
    && ValidateSituation(p.situation)
    && Require(ScopeToInvolvement[p.serviceScope] = p.situation.involvement,
               "SCOPE_INVOLVEMENT_MISMATCH")
    && Require(p.topic = Absent, "BLOCK_NOT_ALLOWED_FOR_PATHWAY")

ValidateShort(p) ==
    RequireToken(p.topic, IF p.pathway = "investor_services" THEN TopicsInvestor
                                                             ELSE TopicsGeneral)

ProposalBlocksAllowed(p) ==
    p.pathway = "management_proposal" \/
        (p.property = NoBlock /\ p.situation = NoBlock /\ p.serviceScope = Absent)

ValidateServiceInquiry(p) ==
    RequireToken(p.pathway, Pathways)
    && Require(p.booking = NoBlock, "BOOKING_NOT_ALLOWED_IN_SUBMISSION")
    && ValidateInquiryContact(p.contact)
    && Require(ProposalBlocksAllowed(p), "BLOCK_NOT_ALLOWED_FOR_PATHWAY")
    && (IF p.pathway = "management_proposal" THEN ValidateProposal(p) ELSE ValidateShort(p))

-----------------------------------------------------------------------------
(* A contact exchange: one way to reach the person is enough.              *)

ValidateContactExchange(p) ==
    RequireString(p.fullName)
    && OptionalEmail(p.email)
    && OptionalPhone(p.phone)
    && Require(p.email \notin Blank \/ p.phone \notin Blank, "EMAIL_OR_PHONE_REQUIRED")
    && RequireToken(p.contactCategory, ContactCategories)
    && OptionalString(p.company)
    && OptionalString(p.roleOrTitle)

ExchangeStored(p) ==
    [p EXCEPT !.email = Stored(@), !.phone = Stored(@),
              !.company = Stored(@), !.roleOrTitle = Stored(@)]

-----------------------------------------------------------------------------
(* A submission, of either kind.                                           *)

ValidateSubmission(body) ==
    NoServerOwned(body, {})
    && Require(body.submissionId, "INVALID_UUID")
    && ValidateLocale(body.locale)
    && ValidateAttribution(body.attribution)
    && (IF body.submissionKind = "service_inquiry"
        THEN ValidateServiceInquiry(body.payload)
        ELSE ValidateContactExchange(body.payload))

(* A booking request: `leadId`, the one name of the server's it may carry, *)
(* refers to a lead.  A time is "offset", "local" or "no-time".            *)
MaxMinutes == 480

ValidateBookingRequest(body) ==
    NoServerOwned(body, {"leadId"})
    && Require(body.bookingRequestId, "INVALID_UUID")
    && Require(body.leadId, "INVALID_UUID")
    && Require(body.slotStart = "offset", "INVALID_TIMESTAMP")
    && Require(body.durationMinutes \in 1 .. MaxMinutes, "INVALID_DURATION")
    && RequireToken(body.mode, BookingModes)

(* The refusals that are about what a person typed, not about the shape of *)
(* the body: only these can be put right in the form.                      *)
TypedRefusals ==
    {"MISSING_REQUIRED", "FIELD_TOO_LONG", "INVALID_EMAIL", "INVALID_PHONE"}
=============================================================================
