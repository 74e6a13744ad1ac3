-------------------------------- MODULE Rules -------------------------------
(***************************************************************************)
(* The rules of the system that are functions of their input: addresses    *)
(* (Locale), the calendar (Calendar), the packing of a digest (Packing),   *)
(* retention (Retention), what is filed of a request (Filing), the columns *)
(* of a tab (Columns), the settings of the backend (Settings) and of a     *)
(* page (Build), and what the mails say (Letters).  A behaviour takes up   *)
(* one of them and lets its input grow, so that every state is an input of *)
(* one rule; a tab, the settings and a page also change as they are used.  *)
(***************************************************************************)
EXTENDS Locale, Calendar, Packing, Retention, Filing, Columns, Letters,
        Build

CONSTANTS
    Segments,           \* of addresses
    Zones,              \* zones with, or without, a change of offset
    FirstInstant, LastInstant,
    Costs,              \* what shells and headings may take
    Gathered,           \* contacts a digest may be about
    Rows,               \* rows of a tab that maintenance looks through
    Arrivals,           \* rows that are appended meanwhile
    Envelopes,          \* requests that may be filed
    Readings,           \* the clientSignals of a request and of its retry
    People,             \* who the Contacts tab may hold
    TabRecords,         \* records that may be written to a tab
    Patches,            \* sequences of <<field, value>>
    Drafts,             \* letters to be written, of nothing optional
    Gatherings,         \* records of a digest
    Retyped,            \* [Fields -> a header that is taken for the same]
    MaxSegments, MaxContacts, MaxRows, MaxPeople, MaxRecords    \* bounds

Remarks == "remarks"        \* the column of the partners' own

ASSUME RulesAssumption ==
    /\ \A zone \in Zones : IsZone(zone)
    /\ FirstInstant \in Int /\ LastInstant \in Int
    /\ Costs \subseteq [shell : Nat, heading : Nat]
    /\ Gathered \subseteq [source : {"own", "firm", "unknown"}, size : Nat]
    /\ \A draft \in Drafts : IsLetter(draft)
    /\ \A envelope \in Envelopes : IsEnvelope(envelope)
    /\ MaxPeople \in Nat /\ MaxPeople < Len(Minted)
    /\ Rows \subseteq NewRow /\ Arrivals \subseteq NewRow
    /\ \A row \in Arrivals : Unfinished(row)
    /\ Remarks \notin Fields /\ KeyOf[Remarks] = Remarks
    /\ \A name \in Fields : KeyOf[Retyped[name]] = name
    /\ \A record \in TabRecords : \A name \in Fields : record[name] \notin BooleanWords
    /\ \A patch \in Patches :
          /\ DOMAIN patch = 1 .. Len(patch)
          /\ \A k \in DOMAIN patch :
                patch[k][1] \in Fields /\ patch[k][2] \notin BooleanWords

VARIABLES
    about,              \* the rule
    input

rulesVars == <<about, input>>

Take(rule, first) == about = rule /\ input = first

RulesInit ==
    \/ \E segment \in Segments : Take("address", <<segment>>)
    \/ \E zone \in Zones : Take("calendar", [zone |-> zone, now |-> FirstInstant])
    \/ \E cost \in Costs : Take("packing", Unpacked(cost))
    \/ Take("retention", EmptyBook)
    \/ \E envelope \in Envelopes : Take("filing", [envelope |-> envelope, contacts |-> <<>>])
    \/ Take("columns", [tab |-> NoTab, meaning |-> <<>>])
    \/ Take("settings", NothingSet)
    \/ \E app \in {"web", "qr"}, command \in Commands, mode \in Modes, v1, v2 \in BOOLEAN :
        LET page == Loaded(app, command, mode, v1, v2)
        IN Runs(page) /\ Take("build", page)
    \/ \E draft \in Drafts : Take("letters", draft)

Grow(rule, to) == about = rule /\ input' = to /\ UNCHANGED about

(* A segment more; an empty one is a slash more.                           *)
LongerAddress(segment) ==
    /\ about = "address" /\ Len(input) < MaxSegments
    /\ Grow("address", Append(input, segment))

(* Half an hour later.                                                     *)
Later ==
    /\ about = "calendar" /\ input.now < LastInstant
    /\ Grow("calendar", [input EXCEPT !.now = @ + 1])

(* One more met, after all the others.                                     *)
OneMoreContact(contact) ==
    /\ about = "packing" /\ input.step = "gathering"
    /\ Cardinality(input.contacts) < MaxContacts
    /\ LET met == [source |-> contact.source, size |-> contact.size,
                   at |-> Cardinality(input.contacts)]
       IN Grow("packing", [input EXCEPT !.contacts = @ \cup {met}])

(* deliverPlan up to the sending, one record after the other.              *)
MakeDigest ==
    /\ about = "packing"
    /\ \/ /\ input.step = "gathering" /\ input.contacts # {}
          /\ Grow("packing", BuildDigestModel(input))
       \/ /\ input.step = "packing" /\ input.next <= Len(input.order)
          /\ Grow("packing", Place(input))
       \/ /\ input.step = "packing" /\ input.next > Len(input.order)
          /\ Grow("packing", Measure(input))

(* A row of any age; one that is written while maintenance is under way.   *)
OneMoreRow(row) ==
    /\ about = "retention" /\ input.step = "idle" /\ input.last < MaxRows
    /\ Grow("retention", Appended(input, row))
Arrives(row) ==
    /\ about = "retention" /\ input.step # "idle" /\ input.last <= MaxRows
    /\ Grow("retention", Appended(input, row))

(* runRetentionMaintenance, one call after the other.                      *)
Maintain ==
    /\ about = "retention"
    /\ \/ input.step = "idle" /\ Grow("retention", PlanRetention(input))
       \/ input.step = "find" /\ Grow("retention", FindRows(input))
       \/ /\ input.step = "delete" /\ input.due # {}
          /\ Grow("retention", DeleteNext(input))
       \/ /\ input.step = "delete" /\ input.due = {} /\ input.of = "log"
          /\ Grow("retention", TurnToWork(input))
MaintenanceEnds ==
    /\ about = "retention" /\ input.step # "idle"
    /\ Grow("retention", Ended(input))

(* One more in the Contacts tab.                                           *)
OneMoreKnown(person) ==
    /\ about = "filing" /\ Len(input.contacts) < MaxPeople
    /\ LET id == Minted[Len(input.contacts) + 1]
           known == [contactId |-> id, email |-> person.email, phone |-> person.phone]
       IN Grow("filing", [input EXCEPT !.contacts = Append(@, known)])

-----------------------------------------------------------------------------
(* A tab that is provisioned, written by the code and changed by the       *)
(* partners.  `meaning` follows what each row holds under each name.       *)

Tab == input.tab
ChangeTab(tab, meaning) == Grow("columns", [tab |-> tab, meaning |-> meaning])
InUse == about = "columns" /\ Tab.headers # <<>>

ProvisionTab == about = "columns" /\ ChangeTab(Provision(Tab), input.meaning)
ProvisioningDies == about = "columns" /\ ChangeTab(ProvisionDies(Tab), input.meaning)

(* What was written, over what the row meant.                              *)
WithFields(meant, fields) ==
    [name \in DOMAIN meant |-> IF name \in DOMAIN fields THEN fields[name] ELSE meant[name]]
Meaningless == [name \in Fields \cup {Remarks} |-> ""]

Insert(record) ==
    /\ InUse /\ Len(Tab.rows) < MaxRecords
    /\ \A r \in DOMAIN input.meaning : input.meaning[r][Id] # record[Id]
    /\ ChangeTab(AppendRecord(Tab, record),
                 Append(input.meaning,
                        WithFields(Meaningless, PresentFields(Tab, record))))

Patch(id, fields) ==
    /\ InUse /\ FindById(Tab, id) # 0
    /\ ChangeTab(PatchRecord(Tab, FindById(Tab, id), fields),
                 [input.meaning EXCEPT
                    ![FindById(Tab, id)] = WithFields(@, Patched(Tab, fields))])

Update(record) ==
    /\ InUse /\ FindById(Tab, record[Id]) # 0
    /\ ChangeTab(UpdateContact(Tab, FindById(Tab, record[Id]), record),
                 [input.meaning EXCEPT ![FindById(Tab, record[Id])] =
                    WithFields(@, PresentFields(Tab, record))])

Drag(from, to) == InUse /\ ChangeTab(DragColumn(Tab, from, to), input.meaning)

Delete(i) ==
    /\ InUse /\ Len(Tab.headers) > 1
    /\ ChangeTab(DeleteColumn(Tab, i),
                 [r \in DOMAIN input.meaning |->
                    [input.meaning[r] EXCEPT ![KeyOf[Tab.headers[i]]] = ""]])

(* A column of the partners' own, and one they put back.                   *)
Add(name) ==
    /\ InUse /\ ~ Has(Tab, name)
    /\ ChangeTab(AddColumn(Tab, name), input.meaning)

Retype(i) ==
    /\ InUse /\ Tab.headers[i] \in Fields
    /\ ChangeTab(RetypeHeader(Tab, i, Retyped[Tab.headers[i]]), input.meaning)

RemarkOn(r) ==
    /\ InUse /\ Has(Tab, Remarks)
    /\ ChangeTab(Remark(Tab, r, ColumnOf(Tab, Remarks), "seen"),
                 [input.meaning EXCEPT ![r][Remarks] = "seen"])

-----------------------------------------------------------------------------
(* One property set, or set again.                                         *)
Set(key, text) == about = "settings" /\ Grow("settings", SetProperty(input, key, text))

(* The record has one more of the fields a visitor may leave out; there is *)
(* one more record to a digest.                                            *)
Give(field) ==
    /\ about = "letters" /\ field \in MayBeGiven(input) \ input.given
    /\ Grow("letters", [input EXCEPT !.given = @ \cup {field}])
OneMoreGathered(rec) ==
    /\ about = "letters" /\ input.letter = "digest" /\ Cardinality(input.records) < MaxRecords
    /\ Grow("letters", [input EXCEPT !.records = @ \cup {rec}])

(* The address asks for a fixture; a client is used for the first time.    *)
Ask(submit, book) ==
    /\ about = "build"
    /\ Grow("build", [input EXCEPT !.submit = submit, !.book = book])
UseClient ==
    /\ about = "build"
    /\ \E which \in DOMAIN input.clients :
        /\ input.clients[which] = NoClient
        /\ Grow("build", GetClient(input, which))

RulesNext ==
    \/ \E segment \in Segments : LongerAddress(segment)
    \/ Later
    \/ \E contact \in Gathered : OneMoreContact(contact)
    \/ MakeDigest
    \/ \E row \in Rows : OneMoreRow(row)
    \/ \E row \in Arrivals : Arrives(row)
    \/ Maintain
    \/ MaintenanceEnds
    \/ \E person \in People : OneMoreKnown(person)
    \/ ProvisionTab
    \/ ProvisioningDies
    \/ \E record \in TabRecords : Insert(record) \/ Update(record)
    \/ \E record \in TabRecords, fields \in Patches : Patch(record[Id], fields)
    \/ InUse /\ \E i \in DOMAIN Tab.headers :
        Delete(i) \/ Retype(i) \/ \E to \in DOMAIN Tab.headers : Drag(i, to)
    \/ \E name \in Fields \cup {Remarks} : Add(name)
    \/ InUse /\ \E r \in DOMAIN Tab.rows : RemarkOn(r)
    \/ \E key \in PropKeys : \E text \in Texts(key) : Set(key, text)
    \/ \E submit \in SubmissionFixtures \cup {"nonsense"}, book \in BookingFixtures :
        Ask(submit, book)
    \/ UseClient
    \/ \E field \in OptionalFields : Give(field)
    \/ \E rec \in Gatherings : OneMoreGathered(rec)

RulesSpec == RulesInit /\ [][RulesNext]_rulesVars

-----------------------------------------------------------------------------
(* Properties: those of the modules, of the input at hand.                 *)

(* The booking client's request for a slot; toOffsetIso gives every slot   *)
(* its offset, and both ids are UUIDs, the lead's from the backend.        *)
BookingRequest(mode) ==
    [serverOwned |-> {"leadId"}, bookingRequestId |-> TRUE, leadId |-> TRUE,
     slotStart |-> "offset", durationMinutes |-> 30 * Slot, mode |-> mode]

(* "One page, one canonical URL", whatever address is asked for.           *)
OnePageOneAddress == about = "address" => IsOneAddress(input)

(* "Every offered candidate is one the backend's own window validation     *)
(* would accept", and none is kept back, at any time of the days around a  *)
(* change of offset; and the boundary lets the request for it through.     *)
OfferedSlotsAreAccepted ==
    about = "calendar" =>
        /\ OfferedIsAccepted(input.zone, input.now)
        /\ \A mode \in BookingModes : ValidateBookingRequest(BookingRequest(mode)) = Ok

(* Every inquiry "is due at 5:00 PM local time on the NEXT BUSINESS DAY",  *)
(* though the rule counts days of 24 hours.                                *)
DueOnNextBusinessDay == about = "calendar" => DueIsNextBusinessDay(input.zone, input.now)

(* "Nothing is ever truncated": a digest is cut between records, every     *)
(* contact is in it once, and no mail of it is over the ceiling, but for   *)
(* one of a single record.                                                 *)
DigestPacksAll == about = "packing" => PacksAll(input)

(* "What is never purged, regardless of age: pending or retryable work",   *)
(* though rows are deleted by number while others are appended, and the    *)
(* removal may stop in the middle.                                         *)
RetentionKeepsPending == about = "retention" => KeepsUnexpired(input)

(* A repair writes what the first attempt would have written, though the   *)
(* Contacts tab has grown since and the browser's signals have changed.    *)
RepairsReproduce ==
    about = "filing" => RepairsAsAccepted(input.envelope, input.contacts, Readings)

(* "Someone will eventually drag a column in the Sheet, and when they do   *)
(* the correct outcome is that nothing breaks": what was written under a   *)
(* name is read under that name, and nothing else of a row is touched.     *)
ColumnsKeepTheirMeaning ==
    about = "columns" => ReadsBack(input.tab, input.meaning, Remarks)

(* What is configured is what runs.  Of the backend: the list an operator  *)
(* provisions from, the list the capabilities ask for, and the adapters    *)
(* that are wired agree.  Of a page: it sends where its build was told to, *)
(* and a simulated success, or unreviewed text, is never built.            *)
SettingsAreHonest ==
    /\ about = "settings" => SettingsAgree(input)
    /\ about = "build" => PageIsHonest(input)

(* What a mail says is what is known, in both of its parts, and not more   *)
(* than it may say.                                                        *)
LettersAreHonest == about = "letters" => LetterIsHonest(input)
=============================================================================
