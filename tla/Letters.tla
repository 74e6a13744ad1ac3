------------------------------ MODULE Letters ------------------------------
(***************************************************************************)
(* What the mails say (emails/): the choice of a language, the five        *)
(* renderers, and the two parts every mail has.  When a mail is sent, and  *)
(* to whom, is the subject of Worker, Booking and Digest.                  *)
(*                                                                         *)
(* A record that is written about is the set `given` of its fields that    *)
(* are not blank.  A part says a set of statements <<field, what>>: "given"*)
(* for the value itself.  Layout, labels and escaping are left out.        *)
(***************************************************************************)
EXTENDS Settings

CONSTANTS
    MailLocales,        \* LAUNCH_READY_LOCALES
    Translated          \* [locales but English -> the renderers of their sets]

NotProvided == "Not provided"

ASSUME LettersAssumption ==
    /\ MailLocales \in Seq(STRING) /\ MailLocales # <<>> /\ MailLocales[1] = "en"
    /\ NotProvided \notin PartnerTokens

VisitorRenderers == {"acknowledgement", "qr_acknowledgement", "booking_confirmation"}

(* resolveOutboundLocale, then pickTemplate: "the one fallback rule".      *)
ResolveOutboundLocale(preferred) ==
    IF \E i \in DOMAIN MailLocales : MailLocales[i] = preferred
    THEN preferred ELSE MailLocales[1]

PickTemplate(locale, renderer) ==
    IF locale \in DOMAIN Translated /\ renderer \in Translated[locale] THEN locale ELSE "en"

Language(renderer, preferred) ==
    IF renderer \in VisitorRenderers
    THEN PickTemplate(ResolveOutboundLocale(preferred), renderer) ELSE "en"

-----------------------------------------------------------------------------
Refused(reason) == [ok |-> FALSE, reason |-> reason]
Mail(html, text) == [ok |-> TRUE, html |-> html, text |-> text]

(* pushRow: what is missing disappears; or it is said that it is missing.  *)
Shown(given, fields) == {<<f, "given">> : f \in fields \cap given}
ShownOr(given, fields, otherwise) ==
    {<<f, IF f \in given THEN "given" ELSE otherwise>> : f \in fields}

(* The fields a visitor may leave out, and those the contract asks for.    *)
ProposalFields ==
    {"propertyLocation", "propertyType", "propertyScope", "serviceScope",
     "situationCurrent", "situationTiming"}
OfProposals == {"propertyScale", "situationNotes"}
OfLeads == {"phone", "organization", "landingPage", "possibleMatches", "slaDueAt"}
OfExchanges == {"phone", "organization", "roleOrTitle", "matchNote"}
OptionalFields == OfProposals \cup OfLeads \cup OfExchanges

MayBeGiven(l) ==
    CASE l.letter = "digest" -> {}
      [] l.letter = "qr_acknowledgement" -> OfExchanges
      [] OTHER -> OfLeads \cup IF l.pathway = "management_proposal" THEN OfProposals ELSE {}

RenderWebsiteAcknowledgement(lead) ==
    LET scale == IF lead.scaleUnknown THEN {} ELSE {"propertyScale"}
        repeated == IF lead.pathway = "management_proposal"
                    THEN (ProposalFields \ {"situationCurrent"}) \cup scale
                    ELSE {"pathway", "topic"}
        said == Shown(lead.given, {"fullName", "organization"} \cup repeated)
    IN IF "email" \notin lead.given THEN Refused("no_recipient_address") ELSE Mail(said, said)

(* The text has the notes of any inquiry, the other part those of a        *)
(* proposal.                                                               *)
RenderInternalNotification(lead) ==
    LET proposal == lead.pathway = "management_proposal"
        said == Shown(lead.given, {"fullName", "preferredFollowUpLocale", "sourceCategory"})
                \cup ShownOr(lead.given, {"email", "phone", "organization", "landingPage"},
                             NotProvided)
                \cup ShownOr(lead.given, {"slaDueAt"}, "No commitment")
                \cup ShownOr(lead.given, {"ownerPartner"}, "Unassigned")
                \cup ShownOr(lead.given, {"possibleMatches"}, "None")
                \cup (IF proposal
                      THEN ShownOr(lead.given, {"propertyLocation", "propertyScale"}, NotProvided)
                           \cup Shown(lead.given, ProposalFields)
                      ELSE Shown(lead.given, {"topic"}))
        notes == Shown(lead.given, {"situationNotes"})
    IN Mail(said \cup IF proposal THEN notes ELSE {}, said \cup notes)

-----------------------------------------------------------------------------
(* The mail to somebody who used a card.                                   *)

FirmIdentity(props) ==
    [isPartner |-> FALSE, name |-> "firm",
     shows |-> {key \in {"FIRM_EMAIL", "FIRM_PHONE", "WEBSITE_URL"} : props[key] # ""}]
PartnerIdentity(source, props) ==
    [isPartner |-> TRUE, name |-> source,
     shows |-> {key \in {"PARTNER_DIRECT_EMAIL_MAP", "PARTNER_DIRECT_PHONE_MAP"} :
                    source \in ParsePartnerEmailMap(props[key])}
               \cup {key \in {"WEBSITE_URL"} : props[key] # ""}]

(* Mutant: a partner's card is always answered in the partner's name.      *)
IdentityOfTheCard(source, props) ==
    IF source \in PartnerTokens THEN PartnerIdentity(source, props) ELSE FirmIdentity(props)

(* "Falls back to the firm whenever the partner's own direct address is    *)
(* not configured."                                                        *)
AcknowledgementIdentity(source, props) ==
    IF source \in PartnerTokens \cap ParsePartnerEmailMap(props["PARTNER_DIRECT_EMAIL_MAP"])
    THEN PartnerIdentity(source, props) ELSE FirmIdentity(props)

Reachable(identity) ==
    identity.shows \cap {"FIRM_EMAIL", "PARTNER_DIRECT_EMAIL_MAP"} # {}

(* The rows of the panel, of the text, and the signature under it.         *)
IdentityRows(identity) ==
    {<<"identity", identity.name>>} \cup {<<key, identity.name>> : key \in identity.shows}

RenderQrAcknowledgement(submission, props) ==
    LET identity == AcknowledgementIdentity(submission.source, props)
        said == Shown(submission.given, {"fullName"}) \cup IdentityRows(identity)
    IN CASE "email" \notin submission.given -> Refused("no_recipient_address")
         [] "email" \in submission.given /\ ~ Reachable(identity) ->
                Refused("no_verified_sender_identity")
         [] OTHER -> Mail(said, said)

-----------------------------------------------------------------------------
(* The mail after a booking: the mail and its calendar file.               *)

HasMeet(booking) == booking.mode = "video_meeting" /\ booking.meetLink

BookingRows(booking) ==
    {<<"slotStart", booking.slot>>, <<"mode", booking.mode>>}
    \cup IF HasMeet(booking) THEN {<<"meetLink", booking.slot>>} ELSE {}

BuildIcs(booking) ==
    [start |-> booking.slot, end |-> booking.slot + booking.length,
     link |-> HasMeet(booking)]

RenderBookingConfirmation(lead, booking) ==
    LET said == Shown(lead.given, {"fullName"}) \cup BookingRows(booking)
    IN CASE "email" \notin lead.given -> Refused("no_recipient_address")
         [] "email" \in lead.given /\ booking.status # "confirmed" ->
                Refused("booking_not_confirmed")
         [] OTHER -> [ok |-> TRUE, html |-> said, text |-> said, ics |-> BuildIcs(booking)]

-----------------------------------------------------------------------------
(* The digest: a record is [given, owner, followUp], the last two read     *)
(* from the Contact when the mail is made.                                 *)

(* A role is only said beside a company.                                   *)
OrgLine(given) ==
    IF "organization" \in given THEN ShownOr(given, {"roleOrTitle"}, NotProvided)
                                     \cup Shown(given, {"organization"})
    ELSE {<<"organization", NotProvided>>}

DigestRecord(rec) ==
    Shown(rec.given, {"fullName", "matchNote", "contactCategory", "receivedAt", "source"})
    \cup OrgLine(rec.given)
    \cup ShownOr(rec.given, {"email", "phone"}, NotProvided)
    \cup {<<"owner", rec.owner>>, <<"followUp", rec.followUp>>}

(* The text also says why nothing was sent.                                *)
DigestText(rec) ==
    DigestRecord(rec) \cup
        IF "email" \in rec.given THEN {} ELSE {<<"note", "phone only">>}

(* The claims of the footer are made of the records of this mail.          *)
FooterClaim(records) ==
    {"none is a Lead"}
    \cup (IF \A r \in records : r.owner = "" THEN {"none is assigned"} ELSE {})
    \cup (IF \A r \in records : r.followUp = "not_contacted"
          THEN {"none has been contacted"} ELSE {})

RenderQrDigest(records) ==
    [ok |-> TRUE, claims |-> FooterClaim(records),
     html |-> [rec \in records |-> DigestRecord(rec)],
     text |-> [rec \in records |-> DigestText(rec)]]

-----------------------------------------------------------------------------
(* A letter to be written: which one, of what, with which settings.  Notes *)
(* are asked for of a proposal only, and a mail after a booking is made    *)
(* for one that is confirmed.                                              *)
Renderers == VisitorRenderers \cup {"notification", "digest"}
IsLetter(l) ==
    /\ l = [letter |-> l.letter, given |-> l.given, pathway |-> l.pathway,
            preferred |-> l.preferred, scaleUnknown |-> l.scaleUnknown, source |-> l.source,
            records |-> l.records, props |-> l.props, booking |-> l.booking]
    /\ l.letter \in Renderers
    /\ "situationNotes" \in l.given => l.pathway = "management_proposal"
    /\ l.booking.status = "confirmed"

Render(l) ==
    CASE l.letter = "acknowledgement" -> RenderWebsiteAcknowledgement(l)
      [] l.letter = "notification" -> RenderInternalNotification(l)
      [] l.letter = "qr_acknowledgement" -> RenderQrAcknowledgement(l, l.props)
      [] l.letter = "booking_confirmation" -> RenderBookingConfirmation(l, l.booking)
      [] l.letter = "digest" -> RenderQrDigest(l.records)

(* The fields of which a part says something.                              *)
About(part) == {statement[1] : statement \in part}

(* The mail to the user of a card: "the DISPLAY NAME is the only submitted *)
(* value that appears anywhere in it", and whoever it says has the details *)
(* can be reached.                                                         *)
SaysOnlyTheName(mail) ==
    /\ About(mail.html) \cap (OptionalFields \cup {"email", "contactCategory"}) = {}
    /\ About(mail.html) \cap {"FIRM_EMAIL", "PARTNER_DIRECT_EMAIL_MAP"} # {}

(* No record's way to be reached, nor its owner, is left out of a digest,  *)
(* whose claims are true of each record.                                   *)
TellsOfEach(mail) ==
    \A rec \in DOMAIN mail.html :
        /\ {"email", "phone", "owner", "followUp"} \subseteq About(mail.html[rec])
        /\ mail.html[rec] \subseteq mail.text[rec]
        /\ "none is assigned" \in mail.claims => <<"owner", "">> \in mail.text[rec]
        /\ "none has been contacted" \in mail.claims =>
                <<"followUp", "not_contacted">> \in mail.text[rec]

(* A mail says the same in both of its parts ("a partner has to be able to *)
(* work a whole digest from the text part alone").  Somebody who can be    *)
(* written to is, once the capability is ready, in English or the language *)
(* asked for, and is shown no row of what is missing; the firm is written  *)
(* to in English.  The calendar file is of the slot the mail names.        *)
LetterIsHonest(l) ==
    LET mail == Render(l)
        tongue == Language(l.letter, l.preferred)
        ready == IsConfigured(l.props, "qr_acknowledge")
        toVisitor == l.letter \in VisitorRenderers
    IN /\ ~ toVisitor \/ (ready /\ "email" \in l.given) => mail.ok
       /\ tongue \in {"en", IF toVisitor THEN l.preferred ELSE "en"}
       /\ mail.ok /\ l.letter # "digest" => mail.html = mail.text
       /\ mail.ok /\ l.letter \in {"acknowledgement", "qr_acknowledgement"} =>
            \A statement \in mail.html : statement[2] # NotProvided
       /\ mail.ok /\ l.letter = "qr_acknowledgement" => SaysOnlyTheName(mail)
       /\ mail.ok /\ l.letter = "booking_confirmation" =>
            /\ <<"slotStart", mail.ics.start>> \in mail.text
            /\ mail.ics.link <=> "meetLink" \in About(mail.text)
       /\ l.letter = "digest" => TellsOfEach(mail)
=============================================================================
