----------------------------- MODULE HashRecords -----------------------------
(***************************************************************************)
(* The data of the hash table back end and what a call does to it.  It     *)
(* differs from the SQLite back ends.  A record is a set of fields that    *)
(* may be incomplete; Update creates a record or field that is missing;    *)
(* Insert stops at the first field that exists, and leaves those before    *)
(* it; Scan follows the order of the hash table, and succeeds without a    *)
(* record when the first one is missing.                                   *)
(***************************************************************************)
EXTENDS Integers, Sequences, FiniteSets

CONSTANTS
    Keys,
    NoRecord,   \* "no record under this key"
    Everything  \* fields = nullptr

NoCall == [op |-> "none"]

NoAnswer == [status |-> "none"]

Present(tab) == {k \in Keys : tab[k] # NoRecord}

\* The fields to write to; none yet if there is no record.
Base(old) == IF old = NoRecord THEN [f \in {} |-> 0] ELSE old

\* A record when the first n pairs of a list (of different fields) are stored.
Stored(rec, values, n) ==
    [f \in DOMAIN rec \cup {values[i].f : i \in 1 .. n} |->
        IF \E i \in 1 .. n : values[i].f = f
        THEN values[CHOOSE i \in 1 .. n : values[i].f = f].v
        ELSE rec[f]]

\* How many pairs can be inserted before one meets a field that exists.
Insertable(rec, values) ==
    CHOOSE n \in 0 .. Len(values) :
        /\ \A i \in 1 .. n : values[i].f \notin DOMAIN rec
        /\ n < Len(values) => values[n + 1].f \in DOMAIN rec

\* What a write leaves under its key.
Written(old, r) ==
    LET rec == Base(old) IN
    IF r.op = "i" THEN Stored(rec, r.values, Insertable(rec, r.values))
    ELSE IF r.op = "u" THEN Stored(rec, r.values, Len(r.values))
    ELSE NoRecord

Effect(tab, r) ==
    IF r.op \in {"i", "u", "d"} THEN [tab EXCEPT ![r.key] = Written(@, r)] ELSE tab

\* The pairs that a query copies out of a record.
Selected(rec, fields) ==
    IF fields = Everything THEN rec ELSE [f \in DOMAIN rec \cap fields |-> rec[f]]

\* The keys that a scan of the hash table can meet.
Met(tab, r) ==
    {S \in SUBSET Present(tab) :
        IF r.key \in Present(tab) /\ r.len > 0
        THEN r.key \in S /\ Cardinality(S) <= r.len
        ELSE S = {}}

Answers(tab, r) ==
    CASE r.op = "r" ->
            {IF r.key \in Present(tab)
             THEN [status |-> "kOK", row |-> Selected(tab[r.key], r.fields)]
             ELSE [status |-> "kErrorNoData"]}
      [] r.op = "s" ->
            {[status |-> "kOK", rows |-> [k \in S |-> Selected(tab[k], r.fields)]] :
                S \in Met(tab, r)}
      [] r.op = "i" ->
            {[status |-> IF Insertable(Base(tab[r.key]), r.values) = Len(r.values)
                         THEN "kOK" ELSE "kErrorConflict"]}
      [] r.op = "u" -> {[status |-> "kOK"]}
      [] r.op = "d" ->
            {[status |-> IF r.key \in Present(tab) THEN "kOK" ELSE "kErrorNoData"]}
=============================================================================
