-------------------------------- MODULE MCLinks --------------------------------
EXTENDS Links, TLC

\* Requests are interchangeable: the specification names none of them.
RequestSymmetry == Permutations(Requests)

=============================================================================
