------------------------------ MODULE Selector ------------------------------
(***************************************************************************)
(* The language of a page as it is shown: the catalog and the document     *)
(* language of the LocaleProvider, and the language selector in the header *)
(* (apps/web: i18n/LocaleProvider.tsx, i18n/messages.ts,                   *)
(* components/LanguageSelector.tsx), as the reader goes from one address   *)
(* to another, by the selector or by the browser's back and forward.       *)
(*                                                                         *)
(* A render and the effects it is followed by are two steps.  A catalog    *)
(* gives every key the language its text is in.                            *)
(***************************************************************************)
EXTENDS Naturals, Sequences

CONSTANTS
    Available,          \* the registry, in order, as the selector offers it
    English,            \* DEFAULT_LOCALE
    Keys,               \* of the messages
    ReviewedCatalogs,   \* [some locales -> the keys that are reviewed]
    AuditCandidates,    \* [some locales -> the keys of a candidate, loaded on demand]
    ScriptFonts         \* the locales with a script of their own

Codes == {Available[i] : i \in DOMAIN Available}

ASSUME SelectorAssumption ==
    /\ Available \in Seq(STRING) /\ \A i, j \in DOMAIN Available : i # j => Available[i] # Available[j]
    /\ English \in Codes
    /\ DOMAIN ReviewedCatalogs \cup DOMAIN AuditCandidates \cup ScriptFonts
            \subseteq Codes \ {English}

VARIABLES
    code,               \* the locale of the address, as last rendered
    effects,            \* the render's effects have not run yet
    catalog,            \* the catalog that is shown
    loads,              \* resolutions under way: [code, cancelled]
    failed,             \* the last resolution for this locale failed
    lang,               \* <html lang>
    style,              \* the locale of the script's style sheet, or NoStyle
    open, paused, chosen, row,      \* the menu
    idx, visible,       \* the cycling word
    fading              \* the fade timer runs

page == <<code, effects, catalog, loads, failed, lang, style>>
menu == <<open, paused, chosen, row>>
word == <<idx, visible, fading>>
selectorVars == <<page, menu, word>>

NothingChosen == "none"
NoStyle == "none"
Index(c) == CHOOSE i \in DOMAIN Available : Available[i] = c
Next1(i) == IF i = Len(Available) THEN 1 ELSE i + 1
Before(i) == IF i = 1 THEN Len(Available) ELSE i - 1

-----------------------------------------------------------------------------
(* messages.ts.  A key that is not translated falls back to English.       *)
MergeCatalog(c, partial) == [k \in Keys |-> IF k \in partial THEN c ELSE English]
EnglishCatalog == MergeCatalog(English, Keys)

(* What is there at once: what is reviewed.                                *)
MessagesFor(c) ==
    IF c \in DOMAIN ReviewedCatalogs THEN MergeCatalog(c, ReviewedCatalogs[c])
    ELSE EnglishCatalog

(* What is resolved: what is reviewed before a candidate.                  *)
ResolveCatalog(c) ==
    IF c \in DOMAIN AuditCandidates \ DOMAIN ReviewedCatalogs
    THEN MergeCatalog(c, AuditCandidates[c]) ELSE MessagesFor(c)

-----------------------------------------------------------------------------
(* The selector is mounted anew with the tree it stands in: English is in  *)
(* one, all prefixed locales in the other.                                 *)
Fresh ==
    /\ open' = FALSE /\ paused' = FALSE /\ chosen' = NothingChosen /\ row' = 1
    /\ idx' = 1 /\ visible' = TRUE /\ fading' = FALSE

SelectorInit ==
    /\ \E c \in Codes : code = c /\ catalog = MessagesFor(c)
    /\ effects = TRUE /\ loads = {} /\ failed = FALSE
    /\ lang = English /\ style = NoStyle
    /\ open = FALSE /\ paused = FALSE /\ chosen = NothingChosen /\ row = 1
    /\ idx = 1 /\ visible = TRUE /\ fading = FALSE

(* The address changes, and the page is rendered for it.                   *)
Show(c) ==
    /\ code' = c /\ effects' = (effects \/ c # code)
    /\ UNCHANGED <<catalog, loads, failed, lang, style>>
Remounted(c) == (c = English) # (code = English)

(* Back, forward, or a link across.                                        *)
Navigate(c) ==
    /\ c # code /\ Show(c)
    /\ IF Remounted(c) THEN Fresh ELSE UNCHANGED <<menu, word>>

(* The effects of the provider: what was under way is cancelled, what is   *)
(* there is shown, and the rest is sent for; the document is told its      *)
(* language, and a script brings its fonts.                                *)
RunEffects ==
    /\ effects /\ effects' = FALSE
    /\ catalog' = MessagesFor(code) /\ failed' = FALSE
    /\ lang' = code /\ style' = IF code \in ScriptFonts THEN code ELSE NoStyle
    /\ loads' = {[l EXCEPT !.cancelled = TRUE] : l \in loads}
                \cup {[code |-> code, cancelled |-> FALSE]}
    /\ UNCHANGED <<code, menu, word>>

(* Mutant: a resolution is shown whenever it comes.                        *)
ResolvedAnyway(l) ==
    /\ l \in loads /\ loads' = loads \ {l}
    /\ catalog' = ResolveCatalog(l.code)
    /\ UNCHANGED <<code, effects, failed, lang, style, menu, word>>

Resolved(l) ==
    /\ l \in loads /\ loads' = loads \ {l}
    /\ catalog' = IF l.cancelled THEN catalog ELSE ResolveCatalog(l.code)
    /\ UNCHANGED <<code, effects, failed, lang, style, menu, word>>

(* Only a candidate is fetched, and a fetch may fail.                      *)
LoadFails(l) ==
    /\ l \in loads /\ l.code \in DOMAIN AuditCandidates \ DOMAIN ReviewedCatalogs
    /\ loads' = loads \ {l} /\ failed' = (failed \/ ~ l.cancelled)
    /\ UNCHANGED <<code, effects, catalog, lang, style, menu, word>>

-----------------------------------------------------------------------------
(* The cycling word.  HOLD_MS outlasts FADE_MS, so that no hold ends       *)
(* within a fade; freezing clears the hold and not the fade.               *)
Frozen == open \/ paused \/ chosen # NothingChosen \/ Len(Available) < 2

HoldEnds ==
    /\ ~ Frozen /\ ~ fading
    /\ visible' = FALSE /\ fading' = TRUE
    /\ UNCHANGED <<page, menu, idx>>

FadeEnds ==
    /\ fading /\ fading' = FALSE /\ visible' = TRUE /\ idx' = Next1(idx)
    /\ UNCHANGED <<page, menu>>

-----------------------------------------------------------------------------
(* The menu.                                                               *)
Hover(over) ==
    /\ paused' = over
    /\ UNCHANGED <<page, open, chosen, row, word>>

OpenMenu ==
    /\ ~ open /\ open' = TRUE /\ row' = Index(code)
    /\ UNCHANGED <<page, paused, chosen, word>>

CloseMenu ==
    /\ open /\ open' = FALSE
    /\ UNCHANGED <<page, paused, chosen, row, word>>

(* The arrows, Home, End and the pointer.                                  *)
MoveTo(i) ==
    /\ open /\ i \in {Next1(row), Before(row), 1, Len(Available)} \cup DOMAIN Available
    /\ row' = i
    /\ UNCHANGED <<page, open, paused, chosen, word>>

(* The word that cycles is set to the choice and frozen, unless the choice *)
(* leads into the other tree.  A fade that is under way goes on.           *)
Select ==
    /\ open
    /\ LET to == Available[row]
       IN /\ Show(to)
          /\ IF Remounted(to) THEN Fresh
             ELSE /\ idx' = row /\ visible' = TRUE
                  /\ chosen' = to /\ open' = FALSE /\ paused' = TRUE
                  /\ UNCHANGED <<row, fading>>

SelectorNext ==
    \/ \E c \in Codes : Navigate(c)
    \/ RunEffects
    \/ \E l \in loads : Resolved(l)
    \/ \E l \in loads : LoadFails(l)
    \/ HoldEnds
    \/ FadeEnds
    \/ \E over \in BOOLEAN : Hover(over)
    \/ OpenMenu
    \/ CloseMenu
    \/ \E i \in DOMAIN Available : MoveTo(i)
    \/ Select

(* React runs the effects of a render, a timer of the page fires, and a    *)
(* fetch ends one way or the other.                                        *)
SelectorSpec ==
    /\ SelectorInit /\ [][SelectorNext]_selectorVars
    /\ WF_selectorVars(RunEffects) /\ WF_selectorVars(FadeEnds)
    /\ \A c \in Codes, off \in BOOLEAN :
        LET l == [code |-> c, cancelled |-> off]
        IN WF_selectorVars(Resolved(l) \/ LoadFails(l))

-----------------------------------------------------------------------------
(* Properties.                                                             *)

(* The page settles on its language: a reader who stays in a locale ends   *)
(* with its resolved catalog, or with what is reviewed of it when the      *)
(* fetch failed, with its document language and its script; no resolution  *)
(* that was asked for on an earlier page comes to overwrite it.  Having    *)
(* chosen it in the menu they see its own word beside it ("the two slots   *)
(* agree"), provided no choice fell within a fade; and the word is never   *)
(* gone for good.                                                          *)
SettlesOnItsLanguage ==
    /\ \A c \in Codes :
        <>[](code = c) =>
            <>[](/\ lang = c /\ style = IF c \in ScriptFonts THEN c ELSE NoStyle
                 /\ catalog = IF failed THEN MessagesFor(c) ELSE ResolveCatalog(c))
    /\ \A c \in Codes :
        [](fading => chosen = NothingChosen) /\ <>[](code = c /\ chosen = c) =>
            <>[](visible /\ Available[idx] = c)
    /\ []<>visible
=============================================================================
