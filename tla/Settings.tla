------------------------------ MODULE Settings ------------------------------
(***************************************************************************)
(* The Script Properties and what depends on them: readConfig and          *)
(* missingConfigFor (platform/Config.js), the schema an operator checks    *)
(* them against (platform/Provisioning.js), the wiring of the adapters     *)
(* (platform/Runtime.js) and the recipients of a notification              *)
(* (core/Routing.js).                                                      *)
(*                                                                         *)
(* `props` gives every property its text: "" for none, "set" for one that  *)
(* reads well, "bad" for a text of which nothing is left (a list of        *)
(* commas, a map that is no JSON, a mode that is not 'live') and, of a     *)
(* map, "one" for a map of one partner.                                    *)
(***************************************************************************)
EXTENDS Naturals, Sequences, FiniteSets

CONSTANTS
    PartnerTokens,      \* PARTNERS
    Addressees          \* the list a well-formed AXP_PARTNER_NOTIFY_TO is

ASSUME SettingsAssumption ==
    /\ PartnerTokens # {} /\ IsFiniteSet(PartnerTokens)
    /\ Addressees \in Seq(STRING) /\ Addressees # <<>>

Maps == {"PARTNER_EMAIL_MAP", "PARTNER_DIRECT_EMAIL_MAP", "PARTNER_DIRECT_PHONE_MAP"}
Plain == {"SHEET_ID", "CALENDAR_ID", "REPLY_TO", "FROM_NAME", "FIRM_EMAIL",
          "FIRM_PHONE", "WEBSITE_URL", "LOGO_URL"}
PropKeys == Maps \cup Plain \cup {"PARTNER_NOTIFY_TO", "RUN_MODE"}

Texts(key) == CASE key \in Plain -> {"set"}
                [] key \in Maps -> {"set", "one", "bad"}
                [] OTHER -> {"set", "bad"}

NothingSet == [key \in PropKeys |-> ""]
SetProperty(props, key, text) == [props EXCEPT ![key] = text]

-----------------------------------------------------------------------------
(* readConfig.                                                             *)

ParsePartnerEmailMap(text) ==
    CASE text = "set" -> PartnerTokens
      [] text = "one" -> {CHOOSE p \in PartnerTokens : TRUE}
      [] OTHER -> {}
SplitList(text) == IF text = "set" THEN Addressees ELSE <<>>
RunMode(props) == IF props["RUN_MODE"] = "set" THEN "live" ELSE "dry_run"

(* What a need of missingConfigFor finds of a property.                    *)
Present(props, key) ==
    CASE key = "PARTNER_EMAIL_MAP" -> ParsePartnerEmailMap(props[key]) # {}
      [] key = "PARTNER_NOTIFY_TO" -> SplitList(props[key]) # <<>>
      [] OTHER -> props[key] # ""

Capabilities == {"intake", "notify", "acknowledge", "booking", "qr_acknowledge", "digest"}

Needs(capability) ==
    CASE capability = "intake" -> {"SHEET_ID"}
      [] capability = "notify" -> {"PARTNER_NOTIFY_TO", "FROM_NAME"}
      [] capability = "acknowledge" -> {"REPLY_TO", "FROM_NAME"}
      [] capability = "booking" -> {"CALENDAR_ID"}
      [] capability = "qr_acknowledge" ->
            {"REPLY_TO", "FROM_NAME", "FIRM_EMAIL", "WEBSITE_URL"}
      [] capability = "digest" -> {"PARTNER_EMAIL_MAP", "FROM_NAME"}

MissingConfigFor(props, capability) ==
    {key \in Needs(capability) : ~ Present(props, key)}
IsConfigured(props, capability) == MissingConfigFor(props, capability) = {}

(* configHealth: what can run, and what only degrades.                     *)
Health(props) == {c \in Capabilities : IsConfigured(props, c)}
DoGet(props) == [runMode |-> RunMode(props), health |-> Health(props)]
Warnings(props) ==
    {key \in {"LOGO_URL", "FIRM_PHONE"} : props[key] = ""}
    \cup {key \in {"PARTNER_DIRECT_EMAIL_MAP", "PARTNER_DIRECT_PHONE_MAP"} :
            ParsePartnerEmailMap(props[key]) # PartnerTokens}

-----------------------------------------------------------------------------
(* propertySchema, kept by hand in another file.                           *)
PropertySchema ==
    [SHEET_ID |-> {"intake"}, CALENDAR_ID |-> {"booking"},
     PARTNER_NOTIFY_TO |-> {"notify"}, PARTNER_EMAIL_MAP |-> {"digest"},
     REPLY_TO |-> {"acknowledge", "qr_acknowledge"},
     FROM_NAME |-> {"notify", "acknowledge", "qr_acknowledge", "digest"},
     FIRM_EMAIL |-> {"qr_acknowledge"}, WEBSITE_URL |-> {"qr_acknowledge"},
     RUN_MODE |-> {"mail", "calendar"}]
WarningTier == PropKeys \ DOMAIN PropertySchema

(* verifyProperties asks only whether there is a text.                     *)
VerifyProperties(props) ==
    [ok |-> \A key \in DOMAIN PropertySchema : props[key] # "",
     warnings |-> {key \in WarningTier : props[key] = ""}]

-----------------------------------------------------------------------------
(* buildProductionDeps: one mail service for everything that is mailed.    *)
NoSpreadsheet(props) == props["SHEET_ID"] = ""
MailWired(props) == IsConfigured(props, "notify") \/ IsConfigured(props, "acknowledge")
CalendarWired(props) == IsConfigured(props, "booking")

(* buildDepsSafely: what a request is told before it is read.              *)
BuildDepsSafely(props) ==
    IF NoSpreadsheet(props) THEN "SERVICE_NOT_CONFIGURED" ELSE "OK"

(* routeNotification reaches the whole firm, flagged or not, and           *)
(* resolveRecipients takes the firm's list, every address once.            *)
Reason(spamSuspected) == IF spamSuspected THEN "spam_suspected_firm_review"
                         ELSE "website_submission_to_firm"
ResolveRecipients(props) == {SplitList(props["PARTNER_NOTIFY_TO"])[i] :
                                i \in DOMAIN SplitList(props["PARTNER_NOTIFY_TO"])}

-----------------------------------------------------------------------------
(* What an operator is told is what the system does.  The two lists name   *)
(* the same keys for a capability; a schema that is satisfied by texts     *)
(* that read well leaves nothing unready, nothing dry and, of the lists    *)
(* that only degrade, no other warning; requests are answered when the     *)
(* intake is told to be ready; a capability that is ready has an adapter   *)
(* and somebody to write to.  The digest alone may be ready with no mail   *)
(* service, and is left out of the last.                                   *)
SettingsAgree(props) ==
    LET readsWell == \A key \in PropKeys : props[key] # "bad"
        absent == {key \in PropKeys : props[key] = ""}
    IN /\ readsWell =>
            /\ \A c \in Capabilities :
                  MissingConfigFor(props, c)
                      = {key \in absent \cap DOMAIN PropertySchema : c \in PropertySchema[key]}
            /\ VerifyProperties(props).ok <=>
                  DoGet(props) = [runMode |-> "live", health |-> Capabilities]
            /\ VerifyProperties(props).warnings \subseteq Warnings(props)
       /\ "intake" \in DoGet(props).health <=> BuildDepsSafely(props) = "OK"
       /\ Health(props) \cap {"notify", "acknowledge", "qr_acknowledge"} # {}
            => MailWired(props)
       /\ "booking" \in Health(props) => CalendarWired(props)
       /\ "notify" \in Health(props) => ResolveRecipients(props) # {}
=============================================================================
