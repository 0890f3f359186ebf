----------------------------- MODULE MCSerializer -----------------------------
(***************************************************************************)
(* A small instance of Serializer for TLC: words of two two-bit bytes, and *)
(* the messages of the back ends with short strings.                       *)
(***************************************************************************)
EXTENDS Serializer

Str(s) == [t |-> "str", v |-> s]
Num(n) == [t |-> "int", v |-> n]
Vec(s) == [t |-> "vec", v |-> s]
Pair(a, b) == [t |-> "pair", v |-> <<a, b>>]

TStr == [t |-> "str"]
TInt == [t |-> "int"]
TVec(T) == [t |-> "vec", of |-> T]
TPair(A, B) == [t |-> "pair", of |-> <<A, B>>]
KVPair == TPair(TStr, TStr)

\* Key, scan length and fields of a scan.
ScanCall(fields) ==
    [parts |-> <<Str(<<1, 2>>), Num(2), Vec(fields)>>, types |-> <<TStr, TInt, TVec(TStr)>>]

\* Key and values of an insertion.
InsertCall(values) ==
    [parts |-> <<Str(<<3>>), Vec(values)>>, types |-> <<TStr, TVec(KVPair)>>]

\* The records of a scan.
ScanResult(rows) ==
    [parts |-> <<Vec(rows)>>, types |-> <<TVec(TVec(KVPair))>>]

\* The tables of CreateSchema.
Schema(tables) ==
    [parts |-> <<Vec(tables)>>, types |-> <<TVec(TPair(TStr, TVec(TStr)))>>]

MCMessages ==
    {ScanCall(<<>>), ScanCall(<<Str(<<3>>), Str(<<>>)>>),
     InsertCall(<<Pair(Str(<<1>>), Str(<<0, 2>>))>>),
     ScanResult(<<Vec(<<>>), Vec(<<Pair(Str(<<1>>), Str(<<2>>))>>)>>),
     Schema(<<Pair(Str(<<2>>), Vec(<<Str(<<3>>)>>))>>)}

\* Every value of a message with its type, and the values that it is made of.
RECURSIVE Within(_, _)
Within(x, T) ==
    {<<x, T>>} \cup
    CASE x.t = "vec" -> UNION {Within(x.v[i], T.of) : i \in DOMAIN x.v}
      [] x.t = "pair" -> UNION {Within(x.v[i], T.of[i]) : i \in DOMAIN x.v}
      [] OTHER -> {}

MCTyped ==
    UNION {UNION {Within(m.parts[i], m.types[i]) : i \in DOMAIN m.parts} : m \in MCMessages}

\* Every window of the address space.
MCWindows ==
    {w \in [start : 0 .. Word - 1, len : 0 .. Word - 1] : w.start + w.len <= Word}
=============================================================================
