----------------------------- MODULE MCAccounts -----------------------------
(* Accounts with calls that can change places.                             *)
EXTENDS Accounts, TLC

CONSTANTS c1, c2

MCCalls == {c1, c2}
Interchangeable == Permutations(MCCalls)
=============================================================================
