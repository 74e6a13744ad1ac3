----------------------------- MODULE MCInquiry ------------------------------
(***************************************************************************)
(* A small instance of Inquiry: a page launched in English, Spanish and    *)
(* Vietnamese, and answers enough for every pathway to be sent, or to be   *)
(* left out.                                                               *)
(***************************************************************************)
EXTENDS Inquiry, TLC

MCSpellings == "Contact" :> "contact"

MCEntries ==
    {[type |-> "mixed_portfolio", propertyScope |-> "portfolio"],
     [location |-> "plain"],
     [current |-> "something_else", timing |-> "immediately",
      involvement |-> "property_management"],
     [involvement |-> "property_management_plus_asset_management"],
     [topic |-> "employment"],
     [fullName |-> "plain", email |-> "email"]}
=============================================================================
