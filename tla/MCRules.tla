------------------------------ MODULE MCRules -------------------------------
(***************************************************************************)
(* Small inputs for Rules: a page launched in three locales; ten days      *)
(* around a change of offset in spring, in autumn, or none, with a horizon *)
(* of eight days; four contacts in three groups; three rows, and one more  *)
(* while maintenance runs; a request of either kind and three people of    *)
(* whom two share a key with it; a tab of three columns and the partners'  *)
(* own, with two records.                                                  *)
(***************************************************************************)
EXTENDS Rules, TLC

MCSpellings == "Contact" :> "contact" @@ "%70artners" :> "partners"
MCSegments ==
    PageRoutes \cup DOMAIN MCSpellings \cup {"en", "es", "ES", "ur", "no-such-page"}

(* Day 10 is a Sunday; the clock changes at 2:00 AM.                       *)
Winter == 0 - 6 * Hour
Summer == 0 - 5 * Hour
MCZones ==
    {[at |-> 10 * Day + 2 * Hour - Winter, before |-> Winter, after |-> Summer],
     [at |-> 10 * Day + 2 * Hour - Summer, before |-> Summer, after |-> Winter],
     [at |-> 0, before |-> Summer, after |-> Summer]}

MCFirst == 6 * Day
MCLast == 13 * Day

MCCosts == {[shell |-> 1, heading |-> 0], [shell |-> 1, heading |-> 1],
            [shell |-> 5, heading |-> 1]}
MCGathered == [source : {"own", "firm", "unknown"}, size : {2, 5, 12}]

MCRows ==
    {[kind |-> "work", state |-> state, age |-> age] :
        state \in {"pending", "succeeded", "abandoned"}, age \in 0 .. 2}
    \cup {[kind |-> "log", state |-> "none", age |-> age] : age \in 0 .. 2}
MCArrivals == {[kind |-> "work", state |-> "pending", age |-> 0],
               [kind |-> "log", state |-> "none", age |-> 1]}

MCEmailKeyOf == [e \in {"", "ann@x", "Ann@X ", "bob@x"} |-> IF e = "Ann@X " THEN "ann@x" ELSE e]
MCPhoneKeyOf == [p \in {"", "713 555 0198", "(713) 555-0198"} |-> IF p = "" THEN "" ELSE "7135550198"]
MCSlugToPartner == [zak |-> "zachary_russell", eth |-> "ethaniel_vu"]
MCMinted == <<3, 1, 2, 4>>

MCReadings == [honeypot : BOOLEAN, fillSeconds : {0, 2, 5, NoReading}]

MCEnvelopes ==
    {[kind |-> about_[1], sourceCategory |-> about_[2], sourceDetail |-> about_[3],
      pathway |-> about_[4], serviceScope |-> about_[5], email |-> who[1], phone |-> who[2],
      text |-> text, signals |-> signals, page |-> tongue[1], preferredFollowUp |-> tongue[2]] :
        about_ \in {<<"contact_exchange", "qr", slug, "", "">> :
                        slug \in {"zak", "axispoint-partners", "gone"}}
                   \cup {<<"service_inquiry", "website", "/contact", "management_proposal", scope>> :
                            scope \in {"pm", ""}}
                   \cup {<<"service_inquiry", "website", "/contact", "general_inquiry", "">>},
        who \in {<<"Ann@X ", "713 555 0198">>, <<"ann@x", "">>, <<"", "">>},
        text \in {{}, {"excessive_links"}},
        signals \in {[honeypot |-> FALSE, fillSeconds |-> s] : s \in {2, NoReading}},
        tongue \in {<<"en", "">>, <<"es", "en">>}}
MCPeople == [email : {"ann@x", "bob@x", ""}, phone : {"(713) 555-0198", ""}]

MCHeaders == <<"id", "state", "note">>
MCRetyped == [id |-> "id", state |-> "State ", note |-> "note"]
MCKeyOf == [h \in {"id", "state", "State ", "note", "remarks"} |-> IF h = "State " THEN "state" ELSE h]
MCTabRecords == [id : {"r1", "r2"}, state : {"true", "false"}, note : {"x", ""}]
MCPatches == {<<<<"state", "true">>>>, <<<<"note", "x">>, <<"state", "false">>>>}

MCAddressees == <<"zak@firm", "eth@firm", "zak@firm">>

MCTranslated == [es |-> {"acknowledgement"}, vi |-> {}]
MCMailLocales == <<"en", "es", "vi">>

(* What the contract asks of an inquiry, and of an exchange.               *)
Inquired ==
    {"fullName", "email", "pathway", "preferredFollowUpLocale", "sourceCategory"}
MCDrafts ==
    LET Props(direct, mobile, firm, website) ==
            [NothingSet EXCEPT !["PARTNER_DIRECT_EMAIL_MAP"] = direct,
                               !["PARTNER_DIRECT_PHONE_MAP"] = mobile,
                               !["FIRM_EMAIL"] = firm, !["WEBSITE_URL"] = website,
                               !["REPLY_TO"] = "set", !["FROM_NAME"] = "set"]
        Draft(letter, given, pathway, preferred) ==
            [letter |-> letter, given |-> given, pathway |-> pathway, preferred |-> preferred,
             scaleUnknown |-> FALSE, source |-> "firm", records |-> {},
             props |-> Props("", "", "set", "set"),
             booking |-> [status |-> "confirmed", slot |-> 18, length |-> 1,
                          mode |-> "phone_call", meetLink |-> FALSE]]
        Inquiries(letter) ==
            {[Draft(letter, Inquired \cup ProposalFields, "management_proposal", preferred)
                EXCEPT !.scaleUnknown = unknown] :
                preferred \in {"en", "es", "vi", "pa"}, unknown \in BOOLEAN}
            \cup {Draft(letter, Inquired \cup {"topic"}, "general_inquiry", "es")}
    IN Inquiries("acknowledgement") \cup Inquiries("notification")
       \cup {[Draft("booking_confirmation", Inquired, "management_proposal", "es") EXCEPT
                !.booking = [@ EXCEPT !.mode = mode, !.meetLink = link]] :
                mode \in BookingModes, link \in BOOLEAN}
       \cup {[Draft("qr_acknowledgement", {"fullName"} \cup email, "", "vi") EXCEPT
                !.source = source, !.props = Props(direct, mobile, firm, website)] :
                email \in {{}, {"email"}}, source \in PartnerTokens \cup {"firm", "unknown"},
                direct \in {"", "one", "set", "bad"}, mobile \in {"", "one"},
                firm \in {"", "set"}, website \in {"", "set"}}
       \cup {Draft("digest", {}, "", "en")}
MCGatherings ==
    {[given |-> {"fullName", "contactCategory", "receivedAt", "source"} \cup way \cup work,
      owner |-> owner, followUp |-> followUp] :
        way \in {{"email"}, {"phone"}, {"email", "phone", "matchNote"}},
        work \in {{}, {"organization"}, {"roleOrTitle"}, {"organization", "roleOrTitle"}},
        owner \in {"", "zachary_russell"}, followUp \in {"not_contacted", "contacted"}}
=============================================================================
