------------------------------- MODULE Build -------------------------------
(***************************************************************************)
(* What a page is built from and what its clients send with: the endpoint  *)
(* by mode (vite.endpoint.ts of apps/web and apps/qr), the catalogs by     *)
(* command (apps/web/vite.config.ts), and the one client per page that is  *)
(* made when it is first asked for (submissionClient.ts, bookingClient.ts, *)
(* createTransport and simulatorTransport of packages/submission-client).  *)
(*                                                                         *)
(* A page is [app, command, mode, v1, v2, submit, book, clients]: v1 and   *)
(* v2 say which of the two endpoint variables the environment holds,       *)
(* submit and book are what the address asks the simulator for.            *)
(***************************************************************************)
LOCAL INSTANCE Naturals
T == INSTANCE Transport

Commands == {"serve", "build"}
Modes == {"development", "e2e", "production", "staging"}
NoEndpoint == ""
NoFixture == ""

(* Vite: import.meta.env.DEV of an environment that leaves NODE_ENV to it. *)
Dev(page) == page.command = "serve"

(* loadEnv: the value of the V2 variable, from wherever it is set.         *)
LoadEnv(page) == IF page.v2 THEN "v2" ELSE NoEndpoint

(* `runs` is false where the configuration throws and there is no page.    *)
ResolveEndpoint(page) ==
    CASE page.mode = "development" ->
            [endpoint |-> NoEndpoint, e2e |-> FALSE, runs |-> TRUE]
      [] page.mode = "e2e" ->
            [endpoint |-> LoadEnv(page), e2e |-> TRUE, runs |-> LoadEnv(page) # NoEndpoint]
      [] OTHER -> [endpoint |-> LoadEnv(page), e2e |-> FALSE, runs |-> TRUE]

Runs(page) == ResolveEndpoint(page).runs

-----------------------------------------------------------------------------
(* The clients.                                                            *)

(* Mutant: the flag of the e2e mode is the permission to send.             *)
NetworkEnabledInE2E(page) == ResolveEndpoint(page).e2e

(* "Anything except a plain dev build."                                    *)
NetworkEnabled(page) == ResolveEndpoint(page).e2e \/ ~ Dev(page)

SubmissionFixtures ==
    {"success", "success_bookable", "success_not_bookable", "recoverable_failure",
     "permanent_failure", "submission_id_conflict", "not_configured"}
BookingFixtures ==
    {"booking_confirmed", "booking_slot_unavailable", "booking_rejected",
     "booking_failed", "recoverable_failure", "not_configured"}
Fixtures(which) == IF which = "submission" THEN SubmissionFixtures ELSE BookingFixtures

(* The query parameter, if it names one of the client's own fixtures.      *)
DevFixture(page, which) ==
    LET requested == IF which = "submission" THEN page.submit ELSE page.book
    IN IF Dev(page) /\ requested \in Fixtures(which) THEN requested ELSE NoFixture

NoClient == [kind |-> "none"]

(* createTransport, which cannot give the simulator.                       *)
CreateTransport(page) ==
    IF NetworkEnabled(page) /\ ResolveEndpoint(page).endpoint # NoEndpoint
    THEN [kind |-> "network", endpoint |-> ResolveEndpoint(page).endpoint]
    ELSE [kind |-> "not_configured"]

BuildTransport(page, which) ==
    IF Dev(page) /\ ~ NetworkEnabled(page)
    THEN [kind |-> "simulator", fixture |-> DevFixture(page, which)]
    ELSE CreateTransport(page)

(* The card has no schedule screen.                                        *)
ClientsOf(app) == IF app = "web" THEN {"submission", "booking"} ELSE {"submission"}

Loaded(app, command, mode, v1, v2) ==
    [app |-> app, command |-> command, mode |-> mode, v1 |-> v1, v2 |-> v2,
     submit |-> NoFixture, book |-> NoFixture,
     clients |-> [which \in ClientsOf(app) |-> NoClient]]

(* getSubmissionClient and getBookingClient: made once, and then kept,     *)
(* whatever the address says later.                                        *)
GetClient(page, which) ==
    IF page.clients[which] # NoClient THEN page
    ELSE [page EXCEPT !.clients[which] = BuildTransport(page, which)]

-----------------------------------------------------------------------------
(* The simulator.                                                          *)

SimulatedSuccess(sent) ==
    LET isInquiry == sent.kind = "service_inquiry"
    IN [ok |-> TRUE, typed |-> TRUE, id |-> sent.id, kind |-> sent.kind,
        lead |-> isInquiry, contact |-> ~ isInquiry, sla |-> isInquiry]

SimulatedBooking(sent) ==
    [ok |-> TRUE, typed |-> TRUE, id |-> sent.id, kind |-> sent.kind,
     status |-> "confirmed"]

Simulate(fixture, sent) ==
    CASE fixture = "recoverable_failure" -> T!NetworkFailure
      [] fixture = "not_configured" -> T!NotConfigured
      [] fixture = "permanent_failure" -> T!ClassifyBackend("MISSING_REQUIRED")
      [] fixture = "submission_id_conflict" -> T!ClassifyBackend("SUBMISSION_ID_CONFLICT")
      [] fixture = "booking_slot_unavailable" -> T!ClassifyBooking("unavailable")
      [] fixture = "booking_rejected" -> T!ClassifyBooking("rejected")
      [] fixture = "booking_failed" -> T!ClassifyBooking("failed")
      [] OTHER -> T!Result("ok", FALSE)

-----------------------------------------------------------------------------
(* The catalogs.                                                           *)

AuditCandidates == {"es", "zh-Hans", "zh-Hant", "vi", "hi", "ur", "gu", "pa"}

(* The loader a build resolves the specifier to, and what it loads.        *)
AuditCatalogAlias(page) == IF page.command = "serve" THEN "active" ELSE "none"
LoadAuditCandidate(page, code) ==
    IF AuditCatalogAlias(page) = "active" /\ code \in AuditCandidates THEN code ELSE "null"

-----------------------------------------------------------------------------
(* What a page is made for is what it does.  What is built never simulates *)
(* and holds no unreviewed text, and reaches the backend exactly when it   *)
(* was given the V2 endpoint under any mode but plain development; plain   *)
(* development reaches nothing; e2e "must never silently fall back to      *)
(* simulated success".  The clients of a page are of one kind, and where   *)
(* the simulator says it went well, the network client would believe the   *)
(* same answer.                                                            *)
PageIsHonest(page) ==
    LET made == {page.clients[which] : which \in ClientsOf(page.app)} \ {NoClient}
        Sent(kind) == [id |-> "s", kind |-> kind]
    IN /\ \A a, b \in made : a.kind = b.kind
       /\ \A c \in made :
            /\ page.command = "build" =>
                  c.kind = (IF page.v2 /\ page.mode # "development" THEN "network"
                                                                    ELSE "not_configured")
            /\ page.mode = "development" => c.kind # "network"
            /\ page.mode = "e2e" => c.kind = "network"
            /\ c.kind = "network" => c.endpoint = "v2"
            /\ c.kind = "simulator" => \A kind \in {"service_inquiry", "contact_exchange"} :
                  Simulate(c.fixture, Sent(kind)).outcome = "ok" =>
                      T!Read(SimulatedSuccess(Sent(kind)), Sent(kind)).outcome = "ok"
            /\ c.kind = "simulator" => LET sent == Sent("booking_request") IN
                  Simulate(c.fixture, sent).outcome = "ok" =>
                      T!ReadBooking(SimulatedBooking(sent), sent).outcome = "ok"
       /\ page.command = "build" =>
            \A code \in AuditCandidates : LoadAuditCandidate(page, code) = "null"
=============================================================================
