------------------------------- MODULE Columns ------------------------------
(***************************************************************************)
(* How the rows of a tab are read and written by the names of its columns  *)
(* (platform/SheetRepository.js), and how the tab is provisioned           *)
(* (platform/Provisioning.js).  A tab is [exists, headers, rows], a row has *)
(* a cell for every column.                                                *)
(*                                                                         *)
(* The partners open the same tab: they drag columns, retype a header,     *)
(* delete a column and keep remarks in one of their own.  They are not     *)
(* modelled inside a call, whose reads and writes the lock does not keep   *)
(* them from.                                                              *)
(***************************************************************************)
EXTENDS Naturals, Sequences, FiniteSets

CONSTANTS
    ExpectedHeaders,    \* the headers of the layout, in order; Head is the id
    KeyOf               \* lowerTrim: what a header that is typed is taken for

Fields == {ExpectedHeaders[i] : i \in DOMAIN ExpectedHeaders}

ASSUME ColumnsAssumption ==
    /\ ExpectedHeaders \in Seq(Fields) /\ ExpectedHeaders # <<>>
    /\ \A i, j \in DOMAIN ExpectedHeaders : ExpectedHeaders[i] = ExpectedHeaders[j] => i = j
    /\ \A name \in Fields : KeyOf[name] = name

Id == ExpectedHeaders[1]
NoTab == [exists |-> FALSE, headers |-> <<>>, rows |-> <<>>]
EmptyTab == [NoTab EXCEPT !.exists = TRUE]

-----------------------------------------------------------------------------
(* indexHeaders: of two columns of one name the first.  0 is undefined.    *)
ColumnOf(tab, name) ==
    LET named == {i \in DOMAIN tab.headers : KeyOf[tab.headers[i]] = name}
    IN IF named = {} THEN 0 ELSE CHOOSE i \in named : \A j \in named : i <= j

Has(tab, name) == ColumnOf(tab, name) # 0

(* A boolean is written, and read, as a word; no text is one of the words. *)
BooleanWords == {"TRUE", "FALSE"}
ToCell(v) == CASE v = "true" -> "TRUE" [] v = "false" -> "FALSE" [] OTHER -> v
OfCell(v) == CASE v = "TRUE" -> "true" [] v = "FALSE" -> "false" [] OTHER -> v

Field(tab, row, name) ==
    IF Has(tab, name) THEN OfCell(row[ColumnOf(tab, name)]) ELSE ""

HasNoValue(record) == \A name \in DOMAIN record : record[name] \in {"", "false"}

(* readTable: rows without any value are not there.                        *)
ReadTable(tab) ==
    SelectSeq([r \in DOMAIN tab.rows |->
                  [name \in Fields |-> Field(tab, tab.rows[r], name)]],
              LAMBDA record : ~ HasNoValue(record))

(* The row of the first record with an id; 0 when there is none.           *)
FindById(tab, id) ==
    LET found == {r \in DOMAIN tab.rows : Field(tab, tab.rows[r], Id) = id}
    IN IF found = {} THEN 0 ELSE CHOOSE r \in found : \A s \in found : r <= s

-----------------------------------------------------------------------------
(* Mutant: the cells are written in the order of the layout.               *)
AppendByPosition(tab, record) ==
    LET Cell(i) == IF i \in DOMAIN ExpectedHeaders THEN ToCell(record[ExpectedHeaders[i]])
                   ELSE ""
    IN [tab EXCEPT !.rows = Append(@, [i \in DOMAIN tab.headers |-> Cell(i)])]

(* appendRecord: a value with no column is dropped, a column with no value *)
(* is left empty.                                                          *)
AppendRecord(tab, record) ==
    LET Cell(i) == IF \E name \in Fields : ColumnOf(tab, name) = i
                   THEN ToCell(record[KeyOf[tab.headers[i]]]) ELSE ""
    IN [tab EXCEPT !.rows = Append(@, [i \in DOMAIN tab.headers |-> Cell(i)])]

(* The cells of a row under the names of `fields`, which all have a column.*)
SetCells(tab, r, fields) ==
    LET Cell(i) == IF \E name \in DOMAIN fields : ColumnOf(tab, name) = i
                   THEN ToCell(fields[KeyOf[tab.headers[i]]]) ELSE tab.rows[r][i]
    IN [tab EXCEPT !.rows[r] = [i \in DOMAIN tab.headers |-> Cell(i)]]

(* patchRecord, of a sequence of <<name, value>>: the call throws at the   *)
(* first field with no column; the fields before it are written.           *)
Patched(tab, patch) ==
    LET written == {k \in DOMAIN patch : \A m \in 1 .. k : Has(tab, patch[m][1])}
    IN [name \in {patch[k][1] : k \in written} |->
            patch[CHOOSE k \in written : patch[k][1] = name][2]]
PatchRecord(tab, r, patch) == SetCells(tab, r, Patched(tab, patch))

(* updateContact: of a whole record only the fields that have a column.    *)
PresentFields(tab, record) ==
    [name \in {f \in Fields : Has(tab, f)} |-> record[name]]
UpdateContact(tab, r, record) == SetCells(tab, r, PresentFields(tab, record))

-----------------------------------------------------------------------------
(* provisionSheet, of one tab.  The tab is inserted and then given its     *)
(* headers; a run that dies between the two leaves it with none.           *)
HeadersMatch(tab) == tab.headers = ExpectedHeaders

Provision(tab) ==
    IF tab.exists THEN tab ELSE [EmptyTab EXCEPT !.headers = ExpectedHeaders]
ProvisionDies(tab) == IF tab.exists THEN tab ELSE EmptyTab
ProvisionAction(tab) ==
    CASE ~ tab.exists -> "created"
      [] tab.exists /\ HeadersMatch(tab) -> "already_correct"
      [] OTHER -> "header_mismatch"

-----------------------------------------------------------------------------
(* What the partners do to a tab.                                          *)
(* The columns come to be the old ones of the numbers in `old`.            *)
Rearranged(tab, old) ==
    LET Moved(seq) == [i \in DOMAIN old |-> seq[old[i]]]
    IN [tab EXCEPT !.headers = Moved(@),
                   !.rows = [r \in DOMAIN tab.rows |-> Moved(tab.rows[r])]]

DragColumn(tab, from, to) ==
    LET Old(i) == CASE i = to -> from
                    [] from <= i /\ i < to -> i + 1
                    [] to < i /\ i <= from -> i - 1
                    [] OTHER -> i
    IN Rearranged(tab, [i \in DOMAIN tab.headers |-> Old(i)])

DeleteColumn(tab, i) ==
    Rearranged(tab, [k \in 1 .. Len(tab.headers) - 1 |-> IF k < i THEN k ELSE k + 1])

AddColumn(tab, header) ==
    [tab EXCEPT
        !.headers = Append(@, header),
        !.rows = [r \in DOMAIN tab.rows |-> Append(tab.rows[r], "")]]

RetypeHeader(tab, i, header) == [tab EXCEPT !.headers[i] = header]

Remark(tab, r, i, text) == [tab EXCEPT !.rows[r][i] = text]
-----------------------------------------------------------------------------
(* `meaning` is what every row holds, by name: what was written of it by   *)
(* those calls that had a column for it, and what the partners remarked.   *)
(* Read by name it is found again, wherever its columns are now; and a tab *)
(* that provisioning calls correct takes every field.                      *)
ReadsBack(tab, meaning, remarks) ==
    LET Known(record) == [name \in Fields |-> record[name]]
        known == [r \in DOMAIN meaning |-> Known(meaning[r])]
    IN /\ ReadTable(tab) = SelectSeq(known, LAMBDA record : ~ HasNoValue(record))
       /\ \A r \in DOMAIN meaning :
            Field(tab, tab.rows[r], remarks) = meaning[r][remarks]
       /\ ProvisionAction(tab) = "already_correct" => \A name \in Fields : Has(tab, name)
=============================================================================
