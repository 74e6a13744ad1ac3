------------------------------ MODULE Retention -----------------------------
(***************************************************************************)
(* What maintenance removes (scheduled/Retention.js, and removeByIds of    *)
(* platform/SheetRepository.js): log rows and finished work items past the *)
(* cutoff.  It plans from both tabs, then in one tab after the other finds *)
(* the rows of the ids it wants and deletes them by number, a call each.   *)
(* The execution holds the lock, but may die between any two calls, and a  *)
(* booking appends to both tabs without the lock.                          *)
(*                                                                         *)
(* A row is [kind, state, age, id]: age is how long before the maintenance *)
(* completedAt is (or at, for a log row), NoTime where that cell cannot be *)
(* read.  A book is both tabs and the maintenance at work on them:         *)
(*   rows, last    the rows of each tab, from the top; the last id minted; *)
(*   step, of      what is next, and in which tab;                         *)
(*   wanted, due   the planned ids; the numbers of the rows to delete;     *)
(*   seen          every row there ever was, for the property.             *)
(***************************************************************************)
EXTENDS Naturals, Sequences, FiniteSets, SequencesExt

CONSTANT RetentionDays      \* OPERATIONAL_RETENTION_DAYS

ASSUME RetentionAssumption == RetentionDays \in Nat

NoTime == 0
TerminalStates == {"succeeded", "abandoned"}
Sheets == {"log", "work"}
NewRow == [kind : Sheets, state : {"none", "pending"} \cup TerminalStates, age : Nat]

(* selectExpiredLogs and selectExpiredWork: strictly older than the cutoff.*)
Expired(row) ==
    /\ row.kind = "work" => row.state \in TerminalStates
    /\ row.age # NoTime /\ row.age > RetentionDays

Nothing == [sheet \in Sheets |-> {}]
EmptyBook ==
    [rows |-> [sheet \in Sheets |-> <<>>], last |-> 0, step |-> "idle", of |-> "log",
     wanted |-> Nothing, due |-> {}, seen |-> Nothing]

LineOf(book, row) ==
    [kind |-> row.kind, state |-> row.state, age |-> row.age, id |-> book.last + 1]
Appended(book, row) ==
    [book EXCEPT !.last = @ + 1,
                 !.rows[row.kind] = Append(@, LineOf(book, row)),
                 !.seen[row.kind] = @ \cup {LineOf(book, row)}]

PlanRetention(book) ==
    LET Selected(rows) == {rows[i].id : i \in {k \in DOMAIN rows : Expired(rows[k])}}
    IN [book EXCEPT !.step = "find", !.of = "log",
                    !.wanted = [sheet \in Sheets |-> Selected(book.rows[sheet])]]

FindRows(book) ==
    LET rows == book.rows[book.of]
    IN [book EXCEPT !.step = "delete",
                    !.due = {i \in DOMAIN rows : rows[i].id \in book.wanted[book.of]}]

(* Mutant: from the top, as found.                                         *)
NextToDeleteAsFound(due) == CHOOSE i \in due : \A j \in due : i <= j

(* From the bottom, so that what is still to be deleted keeps its number.  *)
NextToDelete(due) == CHOOSE i \in due : \A j \in due : j <= i

DeleteRow(rows, i) == IF i \in DOMAIN rows THEN RemoveAt(rows, i) ELSE rows

DeleteNext(book) ==
    LET i == NextToDelete(book.due)
    IN [book EXCEPT !.rows[book.of] = DeleteRow(@, i), !.due = @ \ {i}]

TurnToWork(book) == [book EXCEPT !.step = "find", !.of = "work"]

(* The maintenance has ended or died.                                      *)
Ended(book) ==
    [book EXCEPT !.step = "idle", !.of = "log", !.wanted = Nothing, !.due = {}]

(* "Pending or retryable work is never purged, regardless of age", nor a   *)
(* row whose time cannot be read, nor anything younger than the cutoff:    *)
(* wherever the removal stops and whatever is appended meanwhile, every    *)
(* such row there ever was is in its tab, and rows are in the order they   *)
(* were written; and once a tab is gone through, it holds nothing else.    *)
Unfinished(row) ==
    \/ row.kind = "work" /\ row.state \notin TerminalStates
    \/ row.age <= RetentionDays

GoneThrough(book, sheet) ==
    \/ book.step = "delete" /\ book.due = {} /\ book.of = sheet
    \/ book.step # "idle" /\ book.of = "work" /\ sheet = "log"

KeepsUnexpired(book) ==
    \A sheet \in Sheets :
        LET rows == book.rows[sheet]
        IN /\ \A row \in book.seen[sheet] :
                Unfinished(row) => \E i \in DOMAIN rows : rows[i] = row
           /\ \A i, j \in DOMAIN rows : i < j => rows[i].id < rows[j].id
           /\ GoneThrough(book, sheet) => \A i \in DOMAIN rows : Unfinished(rows[i])
=============================================================================
