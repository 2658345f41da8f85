------------------------------ MODULE TxStore ------------------------------
(***************************************************************************)
(* What the transactor promises (spec.md 3, 4.5, 7, 8): a valid batch is   *)
(* applied atomically with set semantics -- a retraction removes exactly   *)
(* the retracted triple, an assertion on a cardinality-one attribute       *)
(* replaces the entity's previous value -- and the transaction log gains   *)
(* exactly the net change, stamped with a fresh transaction id.  A         *)
(* transaction that fails leaves datoms and the log as they were.          *)
(***************************************************************************)
EXTENDS Causets

CONSTANT MaxTx          \* the last transaction id handed out

VARIABLES datoms,       \* the current facts (the datoms table)
          transactions, \* the log (the timelined_transactions table)
          txId          \* the id the next transaction will get

vars == <<datoms, transactions, txId>>

LogEntry == [e : Entity, a : Attr, v : Value, tx : Nat, added : BOOLEAN]

\* The current facts after applying batch b to D.
Apply(D, b) ==
    LET retracted == {Triple(t) : t \in {u \in b : ~u.added}}
        replaced  == {d \in D : \E t \in b : /\ t.added /\ t.a \in CardOne
                                              /\ t.e = d[1] /\ t.a = d[2]
                                              /\ t.v # d[3]}
        asserted  == {Triple(t) : t \in {u \in b : u.added}}
    IN  (D \ (retracted \cup replaced)) \cup asserted

\* The log entries of a transaction that takes D to D2.
NetChange(D, D2, tx) ==
    {[e |-> d[1], a |-> d[2], v |-> d[3], tx |-> tx, added |-> TRUE]  : d \in D2 \ D}
    \cup
    {[e |-> d[1], a |-> d[2], v |-> d[3], tx |-> tx, added |-> FALSE] : d \in D \ D2}

Init == datoms = {} /\ transactions = {} /\ txId = 1

\* Applies batch b under the transaction id txId.
Transact(b) ==
    LET D2 == Apply(datoms, b) IN
    /\ Valid(b)
    /\ UniqueValueHolds(D2)
    /\ datoms' = D2
    /\ transactions' = transactions \cup NetChange(datoms, D2, txId)

\* Every committed transaction consumes the next transaction id.
Next ==
    /\ txId <= MaxTx
    /\ txId' = txId + 1
    /\ \E b \in Batches : Transact(b)

Spec == Init /\ [][Next]_vars
=============================================================================
