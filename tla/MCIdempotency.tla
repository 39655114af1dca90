----------------------------- MODULE MCIdempotency -----------------------------
(* A small instance of Idempotency: one account or two, one key, two bodies *)
(* and three requests, which are interchangeable.                           *)
EXTENDS Idempotency, TLC

RequestSymmetry == Permutations(Requests)

=============================================================================
