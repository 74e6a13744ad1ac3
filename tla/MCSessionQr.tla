---------------------------- MODULE MCSessionQr -----------------------------
(***************************************************************************)
(* The instance of MCSession on the QR card, asked what attempt.ts says of *)
(* an edit after a failure.                                                *)
(***************************************************************************)
EXTENDS MCSession

(* attempt.ts:14-17: "If the visitor goes back after a failure and edits   *)
(* an answer, the old attempt is invalidated and a new id is issued,       *)
(* because the thing being sent is no longer the thing the old id refers   *)
(* to."  So the answers on the form when success is shown are stored.      *)
EditsAreSent ==
    form.screen = "confirmation" =>
        \E i \in DOMAIN submissions : submissions[i].content = form.draft
=============================================================================
