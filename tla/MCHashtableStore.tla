--------------------------- MODULE MCHashtableStore ---------------------------
(***************************************************************************)
(* A small instance of HashtableStore for TLC.                             *)
(***************************************************************************)
EXTENDS HashtableStore, TLC

CONSTANTS t1, t2, v1, v2, b1, b2, b3, b4

MCThreads == {t1, t2}
MCKeys == {1, 2}
MCFields == {"f", "g"}
MCVals == {v1, v2}

\* One more than a record of two fields and one of one field fill.
MCBlocks == {b1, b2, b3, b4}

Val(f, v) == [f |-> f, v |-> v]
Put2(k, v) == [op |-> "i", key |-> k, values |-> <<Val("f", v), Val("g", v)>>]
Set(k, vs) == [op |-> "u", key |-> k, values |-> vs]
Get(k, fs) == [op |-> "r", key |-> k, fields |-> fs]
Walk(k, n) == [op |-> "s", key |-> k, len |-> n, fields |-> Everything]
Del(k) == [op |-> "d", key |-> k]

\* Updates that make a record of one field, so that an insertion stores one pair
\* and meets the other.
MCRequests ==
    {Put2(1, v1), Set(1, <<Val("g", v2)>>), Set(1, <<Val("f", v2), Val("g", v2)>>),
     Set(2, <<Val("f", v1)>>),
     Get(1, Everything), Get(1, {"f", "x"}), Walk(2, 1), Walk(1, 2), Del(1)}
=============================================================================
