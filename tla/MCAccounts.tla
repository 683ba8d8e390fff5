----------------------------- MODULE MCAccounts -----------------------------
(* Threads and workers are alike for the model checking of Accounts.       *)
EXTENDS Accounts, TLC

Symmetry == Permutations(Thread) \cup Permutations(Worker)
=============================================================================
