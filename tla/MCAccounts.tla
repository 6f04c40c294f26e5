----------------------------- MODULE MCAccounts -----------------------------
(* Accounts for TLC: calls, names, writers and variables are               *)
(* interchangeable, and only safety is checked.                            *)
EXTENDS Accounts, TLC

Interchangeable ==
  Permutations(Signups) \cup Permutations(Names) \cup Permutations(Writers) \cup Permutations(Variables)
=============================================================================
