------------------------------- MODULE Filing -------------------------------
(***************************************************************************)
(* What is written of a request when it is accepted, and what is written   *)
(* of it again when a repair finds its rows missing: the screening         *)
(* (core/Spam.js), the matching (core/Matching.js), the attribution and    *)
(* the language (core/Attribution.js) and the rows (core/Records.js,       *)
(* core/Domain.js).  When the rows are written, and how often, is the      *)
(* subject of Intake.                                                      *)
(*                                                                         *)
(* An envelope carries what the rules tell apart; `text` is the evidence   *)
(* its own words hold, honeypot and fillSeconds its clientSignals.  Time   *)
(* is counted in contacts: a request of time n finds the first n of them.  *)
(***************************************************************************)
EXTENDS Naturals, Sequences, FiniteSets, SequencesExt

CONSTANTS
    EmailKeyOf, PhoneKeyOf,     \* from what is typed to what is compared
    SlugToPartner,              \* SLUG_TO_PARTNER
    FirmSlug,
    BookableServiceScopes,
    Minted,                     \* the ids of newId, as they come
    MaxSuggestions,
    MinFillSeconds              \* SPAM_MIN_FILL_SECONDS

ASSUME FilingAssumption ==
    /\ MaxSuggestions \in Nat /\ MinFillSeconds \in Nat
    /\ FirmSlug \notin DOMAIN SlugToPartner
    /\ Minted \in Seq(Nat)
    /\ \A i, j \in DOMAIN Minted : Minted[i] = Minted[j] => i = j

IsEnvelope(e) ==
    DOMAIN e = {"kind", "sourceCategory", "sourceDetail", "pathway", "serviceScope", "email",
                "phone", "text", "signals", "page", "preferredFollowUp"}

IsInquiry(e) == e.kind = "service_inquiry"

-----------------------------------------------------------------------------
(* Screening: it only flags, and signals only add evidence.                *)

NoReading == 1000       \* fillSeconds is absent, or not a number

ScreenSubmission(e) ==
    LET reasons ==
            e.text
            \cup {r \in {"honeypot_filled"} : e.signals.honeypot}
            \cup {r \in {"submitted_too_fast"} : e.signals.fillSeconds < MinFillSeconds}
    IN [spamSuspected |-> reasons # {}, spamReason |-> reasons]

-----------------------------------------------------------------------------
(* Matching: exact evidence, an empty key matches nothing.                 *)

ByContactId(matches) ==
    CHOOSE f \in [1 .. Cardinality(matches) -> matches] :
        \A i, j \in DOMAIN f : i < j => f[i].contactId < f[j].contactId

FindPossibleMatches(incoming, candidates) ==
    LET Same(key, a, b) == key[a] # "" /\ key[a] = key[b]
        Evidence(c) == {r \in {"email_exact"} : Same(EmailKeyOf, incoming.email, c.email)}
                       \cup {r \in {"phone_exact"} : Same(PhoneKeyOf, incoming.phone, c.phone)}
        results == {[contactId |-> c.contactId, confidence |-> "exact",
                     reason |-> Evidence(c)] : c \in {d \in candidates : Evidence(d) # {}}}
        sorted == ByContactId(results)
    IN [k \in {i \in DOMAIN sorted : i <= MaxSuggestions} |-> sorted[k]]

(* The cell, an entry for every match, and the reading of it, which skips  *)
(* what is not an entry of three.                                          *)
FormatPossibleMatches(matches) ==
    [i \in DOMAIN matches |->
        <<matches[i].contactId, matches[i].confidence, matches[i].reason>>]
ParsePossibleMatches(cell) ==
    LET read == {i \in DOMAIN cell : Len(cell[i]) = 3 /\ cell[i][3] # {}}
        Entry(n) == cell[CHOOSE i \in read : Cardinality({j \in read : j <= i}) = n]
    IN [n \in 1 .. Cardinality(read) |->
            [contactId |-> Entry(n)[1], confidence |-> Entry(n)[2], reason |-> Entry(n)[3]]]

MatchNoteFor(matches) == UNION {matches[i].reason : i \in DOMAIN matches}

-----------------------------------------------------------------------------
(* Attribution and language.                                               *)

ResolveAcquisitionSource(e) ==
    CASE e.sourceCategory # "qr" -> [acquisitionSource |-> "", scannedPartner |-> ""]
      [] e.sourceCategory = "qr" /\ e.sourceDetail \in DOMAIN SlugToPartner ->
            [acquisitionSource |-> SlugToPartner[e.sourceDetail],
             scannedPartner |-> SlugToPartner[e.sourceDetail]]
      [] e.sourceCategory = "qr" /\ e.sourceDetail = FirmSlug ->
            [acquisitionSource |-> "firm", scannedPartner |-> ""]
      [] OTHER -> [acquisitionSource |-> "unknown", scannedPartner |-> ""]

BuildAttributionRecord(e) ==
    [sourceCategory |-> e.sourceCategory, sourceDetail |-> e.sourceDetail,
     resolved |-> ResolveAcquisitionSource(e)]

BuildLocaleRecord(e) ==
    [pageLocale |-> e.page,
     preferredFollowUpLocale |-> IF e.preferredFollowUp # "" THEN e.preferredFollowUp
                                 ELSE e.page,
     preferredFollowUpStated |-> e.preferredFollowUp # ""]

-----------------------------------------------------------------------------
(* The rows.  `ctx` supplies everything they must not invent.              *)

SubmissionFingerprint(e) == [x \in DOMAIN e \ {"signals"} |-> e[x]]

BuildSubmission(e, ctx) ==
    [attribution |-> BuildAttributionRecord(e), locale |-> BuildLocaleRecord(e),
     submissionKind |-> e.kind, receivedAt |-> ctx.receivedAt,
     email |-> e.email, phone |-> e.phone,
     normalizedEmail |-> EmailKeyOf[e.email], normalizedPhone |-> PhoneKeyOf[e.phone],
     pathway |-> IF IsInquiry(e) THEN e.pathway ELSE "",
     serviceScope |-> IF IsInquiry(e) THEN e.serviceScope ELSE "",
     spamSuspected |-> ctx.screening.spamSuspected,
     spamReason |-> ctx.screening.spamReason,
     possibleMatches |-> FormatPossibleMatches(ctx.possibleMatches),
     matchNote |-> MatchNoteFor(ctx.possibleMatches),
     payloadFingerprint |-> SubmissionFingerprint(e),
     leadId |-> ctx.leadId, contactId |-> ctx.contactId]

IsBookablePathway(pathway, serviceScope) ==
    /\ pathway = "management_proposal"
    /\ (IF serviceScope = "" THEN "undecided" ELSE serviceScope) \in BookableServiceScopes

BuildLead(e, ctx) ==
    [attribution |-> BuildAttributionRecord(e), locale |-> BuildLocaleRecord(e),
     leadId |-> ctx.leadId, receivedAt |-> ctx.receivedAt,
     pathway |-> e.pathway, serviceScope |-> e.serviceScope,
     email |-> e.email, phone |-> e.phone,
     leadStatus |-> "new", ownerPartner |-> "", slaFrom |-> ctx.slaFrom,
     possibleMatches |-> FormatPossibleMatches(ctx.possibleMatches),
     matchNote |-> MatchNoteFor(ctx.possibleMatches),
     spamSuspected |-> ctx.screening.spamSuspected,
     spamReason |-> ctx.screening.spamReason,
     bookingEligible |-> IsBookablePathway(e.pathway, e.serviceScope),
     calendarStatus |-> "none"]

BuildContact(e, ctx) ==
    [attribution |-> BuildAttributionRecord(e),
     contactId |-> ctx.contactId, createdAt |-> ctx.receivedAt,
     email |-> e.email, phone |-> e.phone,
     normalizedEmail |-> EmailKeyOf[e.email], normalizedPhone |-> PhoneKeyOf[e.phone],
     preferredFollowUpLocale |-> BuildLocaleRecord(e).preferredFollowUpLocale,
     ownerPartner |-> "", followUpState |-> "not_contacted",
     possibleMatches |-> FormatPossibleMatches(ctx.possibleMatches)]

DigestStatus(e, ctx) ==
    IF IsInquiry(e) THEN "not_applicable"
    ELSE IF ctx.screening.spamSuspected THEN "excluded_spam"
    ELSE "pending_digest"

BuildDelivery(e, ctx) ==
    [submissionKind |-> e.kind, createdAt |-> ctx.receivedAt,
     ackEmailStatus |-> "pending",
     partnerNotifyStatus |-> IF IsInquiry(e) THEN "pending" ELSE "deferred_to_digest",
     digestStatus |-> DigestStatus(e, ctx)]

RowsOf(e, ctx) ==
    [business |-> IF IsInquiry(e) THEN BuildLead(e, ctx) ELSE BuildContact(e, ctx),
     delivery |-> BuildDelivery(e, ctx)]

-----------------------------------------------------------------------------
(* The contexts.  processSubmission: of the request and the tab as it is.  *)
AcceptanceContext(e, contacts, id) ==
    [leadId |-> IF IsInquiry(e) THEN id ELSE "",
     contactId |-> IF IsInquiry(e) THEN "" ELSE id,
     receivedAt |-> Len(contacts),
     slaFrom |-> IF IsInquiry(e) THEN Len(contacts) ELSE NoReading,
     screening |-> ScreenSubmission(e),
     possibleMatches |-> FindPossibleMatches(e, ToSet(contacts))]

(* What the tab holds of a TRUE and a FALSE, and what is read of it.       *)
InCells(row) ==
    [row EXCEPT !.spamSuspected = IF @ THEN "TRUE" ELSE "FALSE",
                !.locale.preferredFollowUpStated = IF @ THEN "TRUE" ELSE "FALSE"]
FromCells(row) ==
    [row EXCEPT !.spamSuspected = @ = "TRUE", !.locale.preferredFollowUpStated = @ = "TRUE"]

(* Mutant: a repair that runs the matching again.                          *)
ContextRematched(submission, contacts) ==
    [leadId |-> submission.leadId, contactId |-> submission.contactId,
     receivedAt |-> submission.receivedAt,
     slaFrom |-> IF submission.submissionKind = "service_inquiry"
                 THEN submission.receivedAt ELSE NoReading,
     screening |-> [spamSuspected |-> submission.spamSuspected,
                    spamReason |-> submission.spamReason],
     possibleMatches |-> FindPossibleMatches(submission, ToSet(contacts))]

(* reconciliationContext: "everything is recovered from the immutable      *)
(* Submission rather than recomputed"; the tab of the day is not read.     *)
RecoveredContext(submission, contacts) ==
    [leadId |-> submission.leadId, contactId |-> submission.contactId,
     receivedAt |-> submission.receivedAt,
     slaFrom |-> IF submission.submissionKind = "service_inquiry"
                 THEN submission.receivedAt ELSE NoReading,
     screening |-> [spamSuspected |-> submission.spamSuspected,
                    spamReason |-> submission.spamReason],
     possibleMatches |-> ParsePossibleMatches(submission.possibleMatches)]

-----------------------------------------------------------------------------
(* "A repair reproduces the record that was accepted instead of a record   *)
(* that reflects today": whenever the request was accepted, and whatever   *)
(* the browser's signals say when it comes again, the repair passes the    *)
(* conflict check and writes the Lead or Contact and the Delivery that the *)
(* first attempt would have written.                                       *)
RepairsAsAccepted(e, contacts, readings) ==
    \A n \in 0 .. Len(contacts) : \A signals \in readings :
        LET accepted == AcceptanceContext(e, SubSeq(contacts, 1, n), Minted[Len(Minted)])
            submission == FromCells(InCells(BuildSubmission(e, accepted)))
            again == [e EXCEPT !.signals = signals]
        IN /\ SubmissionFingerprint(again) = submission.payloadFingerprint
           /\ RowsOf(again, RecoveredContext(submission, contacts)) = RowsOf(e, accepted)
=============================================================================
