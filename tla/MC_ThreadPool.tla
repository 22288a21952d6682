--------------------------- MODULE MC_ThreadPool ---------------------------
EXTENDS ThreadPool

\* Two queues, two keys with opposite orders.
MCKeyShuffle == [k \in Keys |-> IF k = "a" THEN [q \in Queues |-> q]
                                ELSE [q \in Queues |-> NumQueues + 1 - q]]
=============================================================================
