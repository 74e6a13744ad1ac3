------------------------------- MODULE Packing ------------------------------
(***************************************************************************)
(* How a partner's digest is cut into mails (scheduled/Digest.js): the     *)
(* records in the order of their groups, put into parts one after the      *)
(* other, and the measuring of the parts after rendering, which may begin  *)
(* it all again.  What becomes of the parts is the subject of Digest.      *)
(*                                                                         *)
(* A contact is [source, at, size]: how it was gathered, when, and the     *)
(* size of its record.  A digest in the making is                          *)
(*   cost, contacts   what the shell and every heading take; who it is of; *)
(*   step, attempt    where the making is;                                 *)
(*   order            the records of the model, group after group;         *)
(*   parts            [first, last, bytes]: records first .. last of order;*)
(*   first, bytes     the part at hand, up to the record before            *)
(*   next             the next to be placed.                               *)
(***************************************************************************)
EXTENDS Naturals, Sequences, FiniteSets

CONSTANTS
    MaxBytes,           \* DIGEST_MAX_HTML_BYTES
    ShellOverhead,      \* DIGEST_SHELL_OVERHEAD_BYTES
    RepackStep,         \* DIGEST_REPACK_STEP_BYTES
    RepackAttempts,     \* DIGEST_REPACK_ATTEMPTS
    MinBudget           \* the 1024 of splitDigestModel

ASSUME PackingAssumption ==
    /\ {MaxBytes, ShellOverhead, RepackStep, MinBudget} \subseteq Nat
    /\ RepackAttempts \in Nat \ {0}
    /\ MaxBytes >= ShellOverhead + (RepackAttempts - 1) * RepackStep + MinBudget

Sources == <<"own", "firm", "unknown">>     \* the partner's own, the shared ones

Unpacked(cost) ==
    [cost |-> cost, contacts |-> {}, step |-> "gathering", attempt |-> 1,
     order |-> <<>>, parts |-> <<>>, first |-> 1, bytes |-> 0, next |-> 1]

ByCollectedAt(contacts) ==
    CHOOSE f \in [1 .. Cardinality(contacts) -> contacts] :
        \A i, j \in DOMAIN f : i < j => f[i].at < f[j].at

BuildDigestModel(making) ==
    LET Group(source) == ByCollectedAt({c \in making.contacts : c.source = source})
    IN [making EXCEPT !.step = "packing",
                      !.order = Group("own") \o Group("firm") \o Group("unknown")]

Allowance(making) == ShellOverhead + (making.attempt - 1) * RepackStep

Budget(allowance) ==
    IF MaxBytes >= allowance + MinBudget THEN MaxBytes - allowance ELSE MinBudget

-----------------------------------------------------------------------------
(* splitDigestModel: the record goes to the part at hand, or, when it does *)
(* not fit and that part is not empty, to a new one.                       *)

Flush(making) ==
    IF making.next = making.first THEN making
    ELSE [making EXCEPT
            !.parts = Append(@, [first |-> making.first, last |-> making.next - 1,
                                 bytes |-> making.bytes]),
            !.first = making.next, !.bytes = 0]

Place(making) ==
    LET size == making.order[making.next].size
        room == IF making.bytes + size > Budget(Allowance(making)) THEN Flush(making)
                ELSE making
    IN [room EXCEPT !.bytes = @ + size, !.next = @ + 1]

(* Mutant: the last part is forgotten.                                     *)
SplitWithoutTheLast(making) == making

SplitDigestModel(making) == Flush(making)

-----------------------------------------------------------------------------
(* packPartsWithinCeiling: a part has a heading for each of its groups,    *)
(* and a single record is sent whole, whatever it takes.                   *)

Headings(making, part) == {making.order[i].source : i \in part.first .. part.last}

Rendered(making, part) ==
    making.cost.shell + making.cost.heading * Cardinality(Headings(making, part)) + part.bytes

Fits(making, part) == Rendered(making, part) <= MaxBytes \/ part.first = part.last

Repack(making) == [making EXCEPT !.parts = <<>>, !.first = 1, !.bytes = 0, !.next = 1]

Measure(making) ==
    LET split == SplitDigestModel(making)
    IN IF \A i \in DOMAIN split.parts : Fits(making, split.parts[i])
       THEN [split EXCEPT !.step = "packed"]
       ELSE IF making.attempt < RepackAttempts
       THEN [Repack(making) EXCEPT !.attempt = @ + 1]
       ELSE [Repack(making) EXCEPT !.step = "exhausted"]

-----------------------------------------------------------------------------
(* "Nothing is ever truncated": of a digest that is sent, every part is    *)
(* within the ceiling or a single record, and the parts follow each other  *)
(* through the contacts, each once, the partner's own before the shared    *)
(* ones and in the order they were met.  Only when the shell and the       *)
(* headings alone take more than the last allowance is nothing sent.       *)
Before(c, d) ==
    LET Rank(source) == CHOOSE k \in 1 .. 3 : Sources[k] = source
    IN \/ Rank(c.source) < Rank(d.source)
       \/ c.source = d.source /\ c.at < d.at

PacksAll(making) ==
    LET parts == making.parts
        order == making.order
    IN /\ making.step = "packed" =>
            /\ Len(order) = Cardinality(making.contacts)
            /\ {order[i] : i \in DOMAIN order} = making.contacts
            /\ \A i, j \in DOMAIN order : i < j => Before(order[i], order[j])
            /\ parts # <<>> /\ parts[1].first = 1 /\ parts[Len(parts)].last = Len(order)
            /\ \A i \in DOMAIN parts :
                  /\ parts[i].first <= parts[i].last
                  /\ i > 1 => parts[i].first = parts[i - 1].last + 1
                  /\ Fits(making, parts[i])
       /\ making.step = "exhausted" =>
            making.cost.shell + 3 * making.cost.heading
                > ShellOverhead + (RepackAttempts - 1) * RepackStep
=============================================================================
