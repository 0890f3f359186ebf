----------------------------- MODULE MCSqliteShm -----------------------------
(***************************************************************************)
(* Small instances of SqliteShm for TLC: two keys, one value column.       *)
(***************************************************************************)
EXTENDS SqliteShm, TLC

CONSTANTS c1, c2, v1, v2

MCKeys == {1, 2}
MCFields == {"f"}
MCVals == {v1, v2}
MCNames == {"f", "x", KeyCol}

Put(k, v) == [op |-> "i", key |-> k, values |-> [f |-> v]]
Set(k, v) == [op |-> "u", key |-> k, values |-> [f |-> v]]
Get(k, fs) == [op |-> "r", key |-> k, fields |-> fs]
Walk(k, n) == [op |-> "s", key |-> k, len |-> n, fields |-> {"f"}]
Del(k) == [op |-> "d", key |-> k]

\* A workload of all five operations.
Mixed == {Put(1, v1), Set(1, v2), Get(1, {}), Walk(1, 2), Del(1)}

\* One whose scans can meet more records than a window holds, and whose
\* reads name a column that does not exist.
Wide == {Put(1, v1), Put(2, v1), Put(1, v2), Walk(1, 2), Get(1, {"x"})}

\* Both at once.
All == Mixed \cup Wide

Puts == {Put(1, v1), Put(2, v1)}

Lookups == {Get(1, {}), Walk(1, 1)}

Pair == {c1, c2}
Lone == {c1}

OneWave == [c \in Pair |-> 1]
TwoWaves == (c1 :> 1) @@ (c2 :> 2)
SoleWave == [c \in Lone |-> 1]

NoRequests == {}
BigInsert == {Put(1, v2)}

Symmetry == Permutations(Pair)
=============================================================================
