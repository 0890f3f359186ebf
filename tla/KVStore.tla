------------------------------- MODULE KVStore -------------------------------
(***************************************************************************)
(* The data of the SQLite back ends and what one statement does to it: the *)
(* single user table (a VARCHAR primary key, one TEXT column per field)    *)
(* and the five operations of ycsbc::DB as SqliteLibDB runs them, each as  *)
(* a function of the table.  Tables, SQL text and bindings are abstracted; *)
(* a request is the record that the client serialises for its server.      *)
(***************************************************************************)
EXTENDS Integers, FiniteSets

CONSTANTS
    Keys,      \* keys of the table; their order is the order of the index
    Fields,    \* value columns (CoreWorkload::Tables)
    Vals,      \* column contents
    Names,     \* names a client may ask for: columns or anything else
    NoRow,     \* "no record under this key"
    NoList     \* fields = nullptr

\* The name of the primary key column.
KeyCol == "YCSBC_KEY"

Columns == Fields \cup {KeyCol}

Row == [Fields -> Vals]

ASSUME KVAssumption ==
    /\ Keys \subseteq Nat
    /\ IsFiniteSet(Names)
    /\ Columns \subseteq Names
    /\ KeyCol \notin Fields
    /\ NoRow \notin Row
    /\ \A fields \in SUBSET Names : fields # NoList

Table == [Keys -> Row \cup {NoRow}]

EmptyTable == [k \in Keys |-> NoRow]

-----------------------------------------------------------------------------
(* Requests. *)

\* A query names the columns it wants, or passes no list.  A client of a server
\* serialises an empty list for the one that is absent.
FieldLists == {NoList} \cup SUBSET Names

Request ==
         [op : {"r"}, key : Keys, fields : FieldLists]
    \cup [op : {"s"}, key : Keys, len : Nat, fields : FieldLists]
    \cup [op : {"i"}, key : Keys, values : Row]
    \cup [op : {"u"}, key : Keys,
          values : UNION {[F -> Vals] : F \in SUBSET Fields \ {{}}}]
    \cup [op : {"d"}, key : Keys]

Queries == {"r", "s"}

\* What the wire can carry.
Serialized(r) == r.op \in Queries => r.fields # NoList

\* The answer of an operation that brings no data back.
NoData == [none |-> TRUE]

-----------------------------------------------------------------------------
Present(tab) == {k \in Keys : tab[k] # NoRow}

\* The filter over the result columns: an absent or empty list selects all.
Selected(fields) == IF fields \in {NoList, {}} THEN Columns ELSE Columns \cap fields

\* The pairs that a query copies out of the record under key k.
Cells(tab, k, fields) ==
    [col \in Selected(fields) |-> IF col = KeyCol THEN k ELSE tab[k][col]]

\* WHERE YCSBC_KEY >= k LIMIT len, walked along the primary key's index.
ScanKeys(tab, k, len) ==
    {x \in Present(tab) :
        /\ x >= k
        /\ Cardinality({y \in Present(tab) : k <= y /\ y < x}) < len}

\* The row vector of a scan is constructed with as many empty pairs as there are
\* requested fields, or columns if no list is passed.
Padding(fields) == Cardinality(IF fields = NoList THEN Columns ELSE fields)

\* A scanned record: the selected pairs are appended to the empty ones.
ScanRow(tab, k, fields) ==
    [pad |-> Padding(fields), cells |-> Cells(tab, k, fields)]

\* The record that UPDATE leaves: only the named columns are overwritten.
Overwrite(row, values) ==
    [f \in Fields |-> IF f \in DOMAIN values THEN values[f] ELSE row[f]]

-----------------------------------------------------------------------------
(* What the library call does.  "throws" is a C++ exception, raised here by  *)
(* the primary key constraint of INSERT.                                     *)

\* Nothing to return for a query.
Misses(tab, r) ==
    \/ r.op = "r" /\ r.key \notin Present(tab)
    \/ r.op = "s" /\ ScanKeys(tab, r.key, r.len) = {}

Conflicts(tab, r) == r.op = "i" /\ r.key \in Present(tab)

Outcome(tab, r) ==
    IF Misses(tab, r) THEN "kErrorNoData"
    ELSE IF Conflicts(tab, r) THEN "throws" ELSE "kOK"

Succeeds(tab, r) == ~Misses(tab, r) /\ ~Conflicts(tab, r)

Writes == {"i", "u", "d"}

\* What a write that succeeds leaves under its key; UPDATE of an absent record
\* changes nothing and is a success.
Written(old, r) ==
    IF r.op = "i" THEN r.values
    ELSE IF r.op = "u" /\ old # NoRow THEN Overwrite(old, r.values) ELSE NoRow

\* The table after an operation that succeeds.
Effect(tab, r) ==
    IF r.op \in Writes THEN [tab EXCEPT ![r.key] = Written(@, r)] ELSE tab

\* The result vector of an operation that succeeds.
Result(tab, r) ==
    IF r.op = "r" THEN [row |-> Cells(tab, r.key, r.fields)]
    ELSE IF r.op = "s"
    THEN [rows |-> [k \in ScanKeys(tab, r.key, r.len) |-> ScanRow(tab, k, r.fields)]]
    ELSE NoData

\* What a query that finds nothing brings back.
Missed == [missed |-> TRUE]

\* What any call that is not refused brings back.
Answer(tab, r) == IF Misses(tab, r) THEN Missed ELSE Result(tab, r)

\* The status that the client-side stub derives from a received result: an
\* empty result vector is reported as kErrorNoData.
Status(r, res) ==
    IF \/ r.op = "r" /\ DOMAIN res.row = {}
       \/ r.op = "s" /\ DOMAIN res.rows = {}
    THEN "kErrorNoData" ELSE "kOK"

\* What the return code of a call adds to the successes that DelegateClient
\* counts.  A record that has none of the columns asked for is kOK in the
\* library and kErrorNoData in the stubs.
Counted(r, res) ==
    IF res = Missed THEN {0} ELSE IF Status(r, res) = "kOK" THEN {1} ELSE {0, 1}

-----------------------------------------------------------------------------
IsCells(cells) ==
    /\ DOMAIN cells \subseteq Columns
    /\ cells \in [DOMAIN cells -> Vals \cup Keys]

IsScanRow(sr) ==
    /\ DOMAIN sr = {"pad", "cells"}
    /\ sr.pad \in Nat
    /\ IsCells(sr.cells)

\* What a result vector is: nothing, one record, or the records of a scan.
IsResult(res) ==
    \/ res = NoData
    \/ DOMAIN res = {"row"} /\ IsCells(res.row)
    \/ DOMAIN res = {"rows"} /\ \A k \in DOMAIN res.rows : k \in Keys /\ IsScanRow(res.rows[k])
=============================================================================
