------------------------------- MODULE MCYcsbc -------------------------------
(***************************************************************************)
(* Small instances of Ycsbc for TLC.                                       *)
(***************************************************************************)
EXTENDS Ycsbc

\* Hashed record numbers: one to one, in no particular order.
Hashed(n) == (5 * n + 3) % 17

AllOperations == Operations
ReadsAndInserts == {"READ", "INSERT"}

FourCpus == <<0, 1, 2, 3>>
=============================================================================
