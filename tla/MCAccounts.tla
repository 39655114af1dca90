------------------------------ MODULE MCAccounts ------------------------------
EXTENDS Preferences, TLC

\* Requests, and addresses, are interchangeable.
Symmetry == Permutations(Requests) \cup Permutations(Emails)

=============================================================================
