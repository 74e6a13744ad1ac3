----------------------------- MODULE MCSession ------------------------------
(***************************************************************************)
(* A small instance of Session: an inquiry on the website and the same     *)
(* inquiry after an edit, two ids, three posts and two troubles.           *)
(***************************************************************************)
EXTENDS Session, TLC

CONSTANTS s1, s2, before, after, pat

MCPersonOf == [c \in Contents |-> pat]
=============================================================================
