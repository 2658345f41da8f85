------------------------- MODULE PartitionAllocator -------------------------
(***************************************************************************)
(* Causetid allocation across transactions and restarts.                   *)
(*                                                                         *)
(* A transaction works on a copy of the connection's partition map         *)
(* (transact takes it by value and hands the next map back on success).   *)
(* PartitionMap::allocate_causetids advances a partition's cursor; the ids *)
(* reach the store only when the transaction commits, as the e of its      *)
(* datoms in timelined_transactions.  After a restart the map is rebuilt   *)
(* by read_partition_map from known_parts and the `parts` view, whose      *)
(* CASE (create_current_partition_view) attributes each logged e to the    *)
(* first partition, by ascending end, with e <= end.                       *)
(*                                                                         *)
(* Partition itself is not under src/: following spec.md it is the         *)
(* half-open range [start, end) with a cursor, and allocation stays inside *)
(* it.                                                                     *)
(***************************************************************************)
EXTENDS Integers, FiniteSets, FiniteSetsExt

CONSTANTS
    Part,        \* partition names (known_parts.part)
    Start, End,  \* Part -> Int, the half-open range of each
    MaxAlloc,    \* largest n asked of allocate_causetids at once
    Null

ASSUME \A p \in Part : Start[p] < End[p]
ASSUME \A p, q \in Part : p # q =>
         (End[p] <= Start[q] \/ End[q] <= Start[p])      \* disjoint
ASSUME MaxAlloc \in Nat \ {0}

Ids == UNION {Start[p]..(End[p] - 1) : p \in Part}

VARIABLES
    partitionMap,  \* the connection's map: Part -> next id to allocate
    txMap,         \* the map of the open transaction, or Null
    pending,       \* ids allocated by the open transaction
    log            \* e values committed to timelined_transactions

vars == <<partitionMap, txMap, pending, log>>

(***************************************************************************)
(* The `parts` view: the CASE WHEN e <= end THEN part ... over known_parts *)
(* ORDER BY end ASC, and max(e) + 1 AS idx per part.                       *)
(***************************************************************************)
PartOf(e) ==
    LET fits == {p \in Part : e <= End[p]}
    IN  IF fits = {} THEN Null
        ELSE CHOOSE p \in fits : \A q \in fits : End[p] <= End[q]

\* Mutant: idx read as max(e) instead of max(e) + 1.
PartsIdxNoIncrement(p) == Max({e \in log : PartOf(e) = p})

PartsIdx(p) == Max({e \in log : PartOf(e) = p}) + 1

(***************************************************************************)
(* read_partition_map: the inner join with `parts` gives idx for a part    *)
(* with logged ids, the second half of the UNION gives start for one       *)
(* without.                                                                *)
(***************************************************************************)
ReadPartitionMap ==
    [p \in Part |-> IF \E e \in log : PartOf(e) = p THEN PartsIdx(p) ELSE Start[p]]

Init ==
    /\ partitionMap = Start
    /\ txMap = Null
    /\ pending = {}
    /\ log = {}

BeginTransaction ==
    /\ txMap = Null
    /\ txMap' = partitionMap
    /\ UNCHANGED <<partitionMap, pending, log>>

\* Mutant: no check that the range stays inside the partition.
AllocateCausetidsUnbounded(p, n) ==
    /\ txMap # Null
    /\ txMap' = [txMap EXCEPT ![p] = @ + n]
    /\ pending' = pending \cup (txMap[p]..(txMap[p] + n - 1))
    /\ UNCHANGED <<partitionMap, log>>

(***************************************************************************)
(* PartitionMap::allocate_causetids(p, n): the range [cursor, cursor + n)  *)
(* of the open transaction's map.                                          *)
(***************************************************************************)
AllocateCausetids(p, n) ==
    /\ txMap # Null
    /\ txMap[p] + n <= End[p]
    /\ txMap' = [txMap EXCEPT ![p] = @ + n]
    /\ pending' = pending \cup (txMap[p]..(txMap[p] + n - 1))
    /\ UNCHANGED <<partitionMap, log>>

\* The allocated ids are written as e; the connection adopts the next map.
CommitTransaction ==
    /\ txMap # Null
    /\ log' = log \cup pending
    /\ partitionMap' = txMap
    /\ txMap' = Null
    /\ pending' = {}

\* Any error: the SQLite transaction rolls back, the map is dropped.
AbortTransaction ==
    /\ txMap # Null
    /\ txMap' = Null
    /\ pending' = {}
    /\ UNCHANGED <<partitionMap, log>>

\* A crash or a reopen: only the committed log survives.
Restart ==
    /\ partitionMap' = ReadPartitionMap
    /\ txMap' = Null
    /\ pending' = {}
    /\ UNCHANGED log

Next ==
    \/ BeginTransaction
    \/ \E p \in Part, n \in 1..MaxAlloc : AllocateCausetids(p, n)
    \/ CommitTransaction
    \/ AbortTransaction
    \/ Restart

Spec == Init /\ [][Next]_vars

-----------------------------------------------------------------------------
TypeOK ==
    /\ partitionMap \in [Part -> Int]
    /\ \A p \in Part : Start[p] <= partitionMap[p] /\ partitionMap[p] <= End[p]
    /\ txMap = Null \/ \A p \in Part : Start[p] <= txMap[p] /\ txMap[p] <= End[p]
    /\ pending \subseteq Ids
    /\ log \subseteq Ids

(***************************************************************************)
(* A causetid is never issued twice: what the open transaction allocated   *)
(* is not already the e of a committed datom, across any sequence of       *)
(* commits, aborted transactions and restarts that rebuild the map from   *)
(* the `parts` view (spec.md: "globally unique once allocated").           *)
(***************************************************************************)
FreshCausetids ==
    pending \cap log = {}
=============================================================================
