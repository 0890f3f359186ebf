---------------------------- MODULE KVStoreProof ----------------------------
(***************************************************************************)
(* What the operators of KVStore return, for every table and request.      *)
(***************************************************************************)
EXTENDS KVStore, FiniteSetTheorems, TLAPS

\* INSERT, UPDATE and DELETE leave a table that maps every key to a complete
\* row or to none (SqliteLibDB::Insert, Update, Delete).
LEMMA EffectType ==
    ASSUME NEW tab \in Table, NEW r \in Request
    PROVE  Effect(tab, r) \in Table
  <1>1. CASE r.op \in Writes
    <2>1. r.key \in Keys
      BY <1>1 DEF Request, Writes
    <2>2. ASSUME r.op = "i" PROVE Written(tab[r.key], r) \in Row
      BY <2>2 DEF Request, Written
    <2>3. ASSUME r.op = "u", tab[r.key] # NoRow PROVE Written(tab[r.key], r) \in Row
      <3>1. /\ DOMAIN r.values \subseteq Fields
            /\ \A f \in DOMAIN r.values : r.values[f] \in Vals
        BY <2>3 DEF Request
      <3>2. tab[r.key] \in Row
        BY <2>1, <2>3 DEF Table
      <3> QED  BY <2>3, <3>1, <3>2 DEF Written, Overwrite, Row
    <2>4. Written(tab[r.key], r) \in Row \cup {NoRow}
      BY <1>1, <2>2, <2>3 DEF Writes, Written
    <2> QED  BY <1>1, <2>1, <2>4 DEF Effect, Table
  <1>2. CASE r.op \notin Writes
    BY <1>2 DEF Effect
  <1> QED  BY <1>1, <1>2

LEMMA NoDataIsResult == IsResult(NoData)
  BY DEF IsResult

\* The columns copied out of a record hold a key or a value each.
LEMMA CellsType ==
    ASSUME NEW tab \in Table, NEW k \in Present(tab), NEW fields
    PROVE  IsCells(Cells(tab, k, fields))
  <1>1. k \in Keys /\ tab[k] \in Row
    BY DEF Present, Table
  <1>2. Selected(fields) \subseteq Columns
    BY DEF Selected
  <1>3. ASSUME NEW col \in Selected(fields), col # KeyCol PROVE tab[k][col] \in Vals
    BY <1>1, <1>2, <1>3 DEF Row, Columns
  <1>4. DOMAIN Cells(tab, k, fields) = Selected(fields)
    BY DEF Cells
  <1>5. Cells(tab, k, fields) \in [Selected(fields) -> Vals \cup Keys]
    BY <1>1, <1>3 DEF Cells
  <1> QED  BY <1>2, <1>4, <1>5 DEF IsCells

\* Read and Scan return well-formed result vectors, and only records that are
\* in the table (SqliteLibDB::Read, Scan).
LEMMA ResultType ==
    ASSUME NEW tab \in Table, NEW r \in Request, Succeeds(tab, r)
    PROVE  IsResult(Result(tab, r))
  <1>1. CASE r.op = "r"
    <2>1. r.key \in Present(tab)
      BY <1>1 DEF Succeeds, Misses
    <2>2. IsCells(Cells(tab, r.key, r.fields))
      BY <2>1, CellsType
    <2>3. Result(tab, r) = [row |-> Cells(tab, r.key, r.fields)]
      BY <1>1 DEF Result
    <2> QED  BY <2>2, <2>3 DEF IsResult
  <1>2. CASE r.op = "s"
    <2> DEFINE rows == [k \in ScanKeys(tab, r.key, r.len) |-> ScanRow(tab, k, r.fields)]
    <2>1. Result(tab, r) = [rows |-> rows]
      BY <1>2 DEF Result
    <2>2. ASSUME NEW k \in DOMAIN rows PROVE k \in Keys /\ IsScanRow(rows[k])
      <3>1. k \in Present(tab)
        BY DEF ScanKeys
      <3>2. IsCells(Cells(tab, k, r.fields))
        BY <3>1, CellsType
      <3>3. Padding(r.fields) \in Nat
        <4>1. r.fields \in FieldLists
          BY <1>2 DEF Request
        <4>2. \A S \in SUBSET Names : Cardinality(S) \in Nat
          BY KVAssumption, FS_Subset, FS_CardinalityType
        <4> QED  BY <4>1, <4>2, KVAssumption DEF Padding, FieldLists
      <3> QED  BY <3>1, <3>2, <3>3 DEF IsScanRow, ScanRow, Present
    <2> HIDE DEF rows
    <2> QED  BY <2>1, <2>2 DEF IsResult
  <1>3. CASE r.op \notin Queries
    BY <1>3, NoDataIsResult DEF Result, Queries
  <1> QED  BY <1>1, <1>2, <1>3 DEF Queries
=============================================================================
