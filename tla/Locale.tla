------------------------------- MODULE Locale -------------------------------
(***************************************************************************)
(* The locales of the website and its addresses (apps/web: i18n/locales.ts,*)
(* i18n/route.ts, the routes of App.tsx, the links and the alternates made *)
(* of them).  The address is the only place the locale of a page is kept.  *)
(*                                                                         *)
(* A path is the sequence of its segments, without the leading slash: the  *)
(* root is <<"">>, and empty segments at its end are trailing slashes.     *)
(***************************************************************************)
EXTENDS Contract, Sequences

CONSTANTS
    LaunchReady,        \* the locales enabled and reviewed, English or not
    Spellings           \* [other spellings of the pages' routes -> those routes]

DefaultLocale == "en"

ASSUME LaunchReadyAssumption ==
    DefaultLocale \in LaunchReady /\ LaunchReady \subseteq Locales

NotFound == [found |-> FALSE]
NoPrefix == "none"

(* The registry holds every locale; what is not available is English.      *)
ResolveLocale(requested, available) ==
    IF requested \in available THEN requested ELSE DefaultLocale

ShouldCycle(available) == \E a, b \in available : a # b

-----------------------------------------------------------------------------
(* route.ts.                                                               *)

Root == <<"">>

(* Without a trailing slash.                                               *)
Normalise(path) ==
    IF Len(path) > 1 /\ path[Len(path)] = "" THEN SubSeq(path, 1, Len(path) - 1) ELSE path

Beneath(path) == IF Len(path) = 1 THEN Root ELSE Tail(path)

(* Mutant: English may be prefixed as well.                                *)
ParseAnyPrefix(pathname) ==
    LET path == Normalise(pathname)
        first == Head(path)
    IN IF first \in Locales
       THEN [code |-> ResolveLocale(first, LaunchReady), inner |-> Beneath(path),
             unavailable |-> first \notin LaunchReady, prefix |-> first]
       ELSE [code |-> DefaultLocale, inner |-> path, unavailable |-> FALSE,
             prefix |-> NoPrefix]

(* A known code in the first place is a prefix, and English is never one.  *)
ParseLocalePath(pathname) ==
    LET path == Normalise(pathname)
        first == Head(path)
    IN IF first \in Locales
       THEN [code |-> ResolveLocale(first, LaunchReady), inner |-> Beneath(path),
             unavailable |-> first = DefaultLocale \/ first \notin LaunchReady,
             prefix |-> first]
       ELSE [code |-> DefaultLocale, inner |-> path, unavailable |-> FALSE,
             prefix |-> NoPrefix]

BuildLocalePath(code, innerPath) ==
    LET inner == Normalise(innerPath)
    IN IF code = DefaultLocale THEN inner
       ELSE IF inner = Root THEN <<code>>
       ELSE <<code>> \o inner

(* Where the selector goes: the same page, in another locale.              *)
LocaleEquivalentUrl(code, pathname) ==
    BuildLocalePath(code, ParseLocalePath(pathname).inner)

(* Where a link goes: its page, in the locale of the page it stands on.    *)
LocalePath(pathname, href) ==
    LocaleEquivalentUrl(ParseLocalePath(pathname).code, href)

-----------------------------------------------------------------------------
(* App.tsx.                                                                *)

PageRoutes ==
    {"", "property-management", "asset-management", "investor-services", "partners", "contact"}

(* The router decodes a segment, and reads it in any case of its letters.  *)
RouteOf(segment) == IF segment \in DOMAIN Spellings THEN Spellings[segment] ELSE segment

ASSUME SpellingsAssumption ==
    /\ \A segment \in DOMAIN Spellings : Spellings[segment] \in PageRoutes \ {""}
    /\ DOMAIN Spellings \cap (PageRoutes \cup Locales) = {}

(* A route takes any number of slashes after it, and none before.          *)
IsPage(path) == RouteOf(Head(path)) \in PageRoutes /\ \A i \in 2 .. Len(path) : path[i] = ""

(* LocaleGate refuses what is no available locale, and what is no locale.  *)
LocaleGateRefuses(parsed) == parsed.unavailable \/ parsed.prefix = NoPrefix

(* The routes: a page of the English tree goes before the prefixed tree,   *)
(* and the prefixed tree before the catch-all.                             *)
PageAt(pathname) ==
    LET parsed == ParseLocalePath(pathname)
        beneath == Beneath(pathname)
        Found(path) == [found |-> TRUE, code |-> parsed.code, page |-> <<RouteOf(Head(path))>>]
    IN IF IsPage(pathname) THEN Found(pathname)
       ELSE IF LocaleGateRefuses(parsed) \/ ~ IsPage(beneath) THEN NotFound
       ELSE Found(beneath)

(* The two trees mount their pages anew.                                   *)
Remounts(from, to) ==
    (ParseLocalePath(from).prefix = NoPrefix) # (ParseLocalePath(to).prefix = NoPrefix)

(* meta.ts: the address a page calls its own, made of its own route, and   *)
(* those it tells crawlers, by language; x-default is the English one.     *)
Canonical(code, page) == BuildLocalePath(code, page)
Alternates(page) == [code \in LaunchReady |-> Canonical(code, page)]

-----------------------------------------------------------------------------
(* Properties, of one address.                                             *)

(* The path is this address, but for the spelling of the route and for     *)
(* slashes at its end.                                                     *)
SpellsOut(path, address) ==
    /\ Len(path) >= Len(address)
    /\ \A i \in DOMAIN path :
          RouteOf(path[i]) = IF i \in DOMAIN address THEN address[i] ELSE ""

(* "One page, one canonical URL": whatever shows a page in a locale shows  *)
(* the one that is found at the address it calls its own, and is only      *)
(* another way to write that address; every advertised alternate is that   *)
(* page in its language; and the selector and the links lead from any page *)
(* to one that exists, in the locale they mean.                            *)
IsOneAddress(path) ==
    LET here == PageAt(path)
        own == Canonical(here.code, here.page)
    IN here.found =>
        /\ PageAt(own) = here /\ SpellsOut(path, own)
        /\ \A code \in LaunchReady :
              LET there == [here EXCEPT !.code = code]
              IN /\ PageAt(Alternates(here.page)[code]) = there
                 /\ PageAt(LocaleEquivalentUrl(code, path)) = there
        /\ \A page \in PageRoutes :
              PageAt(LocalePath(path, <<page>>)) = [here EXCEPT !.page = <<page>>]
=============================================================================
