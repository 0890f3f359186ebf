----------------------------- MODULE MCSqliteLib -----------------------------
(***************************************************************************)
(* A small instance of SqliteLib for TLC: a loading thread and two         *)
(* transaction threads over two keys and one value column.                 *)
(***************************************************************************)
EXTENDS SqliteLib, TLC

CONSTANTS c0, c1, c2, sdb, v1, v2

MCKeys == {1, 2}
MCFields == {"f"}
MCVals == {v1, v2}
MCNames == {"f", "x", KeyCol}

Put(k, v) == [op |-> "i", key |-> k, values |-> [f |-> v]]
Set(k, v) == [op |-> "u", key |-> k, values |-> [f |-> v]]
Get(k, fs) == [op |-> "r", key |-> k, fields |-> fs]
Walk(k, n, fs) == [op |-> "s", key |-> k, len |-> n, fields |-> fs]
Del(k) == [op |-> "d", key |-> k]

MCClients == {c0, c1, c2}

\* The load, a thread that mostly reads, and one that mostly writes.
MCCalls ==
    (c0 :> {Put(1, v1), Put(2, v1)}) @@
    (c1 :> {Walk(1, 2, NoList), Get(1, {"x"}), Set(2, v2)}) @@
    (c2 :> {Walk(1, 2, {"f"}), Walk(2, 0, {}), Set(1, v2), Put(2, v2), Del(1)})

MCRequests == UNION {MCCalls[c] : c \in MCClients}

MCNumOps == (c0 :> 2) @@ (c1 :> 3) @@ (c2 :> 3)

MCWave == (c0 :> 1) @@ (c1 :> 2) @@ (c2 :> 2)
=============================================================================
