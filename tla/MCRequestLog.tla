----------------------------- MODULE MCRequestLog -----------------------------
EXTENDS RequestLog, TLC

Keep == [j \in Jobs |-> 0]
RequestSymmetry == Permutations(Requests)

=============================================================================
