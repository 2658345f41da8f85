----------------------- MODULE MC_PartitionAllocator -----------------------
EXTENDS PartitionAllocator

MC_Part == {"db", "user", "tx"}

\* Partitions with a one-id gap between them.
MC_GapStart == [p \in MC_Part |-> CASE p = "db" -> 0 [] p = "user" -> 3 [] p = "tx" -> 6]
MC_GapEnd   == [p \in MC_Part |-> MC_GapStart[p] + 2]

\* Contiguous partitions: each one starts where the previous one ends.
MC_ContiguousStart == [p \in MC_Part |-> CASE p = "db" -> 0 [] p = "user" -> 2 [] p = "tx" -> 4]
MC_ContiguousEnd   == [p \in MC_Part |-> MC_ContiguousStart[p] + 2]
=============================================================================
