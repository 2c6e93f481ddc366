----------------------------- MODULE MCAccounts -----------------------------
(* Small instances of Accounts.                                            *)
EXTENDS Accounts, TLC

\* A job with a negative instance opens no request; two others tell jobs apart.
MCInstances == {-1, 1}

Symmetry == Permutations(Threads) \cup Permutations(Nicks) \cup Permutations(Names)
=============================================================================
