-------------------------------- MODULE MCJobs --------------------------------
EXTENDS Jobs

Keep == [j \in Jobs |-> IF j = "expire-tokens" THEN 0 ELSE 1]

\* Two log rows that age out at the next instant, and a token that has.
MCTables == {[j \in Jobs |-> {[at |-> 0, id |-> i] : i \in IF j = "expire-tokens" THEN {1} ELSE Ids}]}

MCInit == InitWith(1, MCTables)
MCSpec == MCInit /\ [][Next]_vars /\ Fairness

=============================================================================
