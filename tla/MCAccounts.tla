------------------------------ MODULE MCAccounts ------------------------------
(* Small instances of the account service for TLC. *)
EXTENDS AccountsProperties, TLC

CONSTANTS alice, bob, r1, r2

RequestSymmetry == Permutations(Requests)
BothSymmetry == Permutations(Requests) \cup Permutations(Users)
=============================================================================
