----------------------------- MODULE MCSelector -----------------------------
(***************************************************************************)
(* Three locales for Selector: English, one that is reviewed but for a key *)
(* and one with an audit candidate only, in a script of its own.           *)
(***************************************************************************)
EXTENDS Selector, TLC

MCAvailable == <<"en", "es", "hi">>
MCKeys == {"title", "newer"}
MCReviewed == [es |-> {"title"}]
MCCandidates == [es |-> MCKeys, hi |-> MCKeys]
=============================================================================
