-------------------------------- MODULE MCItems --------------------------------
(* Small instances of Items.  Requests are interchangeable.               *)
EXTENDS Items, TLC

RequestSymmetry == Permutations(Requests)

=============================================================================
