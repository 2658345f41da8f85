--------------------------- MODULE TxApplication ---------------------------
(***************************************************************************)
(* The SQLite storage pipeline that applies one reduced transaction        *)
(* (einsteindb.rs): begin_tx_application creates the temp tables,           *)
(* insert_non_fts_searches stages the terms into exact_searches or          *)
(* inexact_searches, materialize_einstai_transaction runs search() into     *)
(* search_results and update_datoms() against datoms, and                   *)
(* commit_einstai_transaction runs insert_transaction() into the log.  The  *)
(* whole pipeline runs inside one SQLite transaction, rolled back on error. *)
(***************************************************************************)
EXTENDS Causets

CONSTANTS MaxTx,      \* the last transaction id handed out
          Metadata,   \* attributes of causetids::METADATA_SQL_LIST
          Null        \* SQL NULL (a LEFT JOIN that found no datom)

VARIABLES datoms,          \* table datoms, a row named by its (e, a, v)
          transactions,    \* table timelined_transactions
          txId,            \* tx id the partition map hands the next transaction
          phase,           \* how far the pipeline has got
          batch,           \* the reduced terms of the running transaction
          exactSearches,   \* temp.exact_searches
          inexactSearches, \* temp.inexact_searches
          searchResults,   \* temp.search_results
          before           \* datoms when the SQLite transaction began

vars == <<datoms, transactions, txId, phase, batch, exactSearches,
          inexactSearches, searchResults, before>>

Phase == {"idle", "begun", "exact", "inexact", "materialized", "failed"}
SearchType == {"many", "one"}   \* the search_type column's two strings
Row == [e : Entity, a : Attr, v0 : Value, added : BOOLEAN, stype : SearchType,
        rid : Datom \cup {Null}, v : Value \cup {Null}]

-----------------------------------------------------------------------------
(* Routing of reduced terms to the two search kinds (tx.rs): an assertion   *)
(* on a cardinality-one attribute is looked up by (e, a) only, so that it   *)
(* finds the value it replaces; every other term by its full (e, a, v).     *)
ExactRoute(t) == ~(t.added /\ t.a \in CardOne)

\* Faulty variant: the old value column reads datoms.e instead of datoms.v.
SearchRowWrongColumn(t, stype, d) ==
    [e |-> t.e, a |-> t.a, v0 |-> t.v, added |-> t.added, stype |-> stype,
     rid |-> d, v |-> IF d = Null THEN Null ELSE d[1]]

\* One row of search(): the staged term t joined with datom d, or with NULLs.
SearchRow(t, stype, d) ==
    [e |-> t.e, a |-> t.a, v0 |-> t.v, added |-> t.added, stype |-> stype,
     rid |-> d, v |-> IF d = Null THEN Null ELSE d[3]]

\* Faulty variant: the exact join forgets its (tag, v) condition.
ExactMatchOnEA(t, d) == d[1] = t.e /\ d[2] = t.a

ExactMatch(t, d) == d = Triple(t)
InexactMatch(t, d) == d[1] = t.e /\ d[2] = t.a

\* staged LEFT JOIN datoms, on (e, a, tag, v) for the exact searches and on
\* (e, a) for the inexact ones.
LeftJoin(staged, stype) ==
    UNION {LET hits == {d \in datoms : IF stype = "many" THEN ExactMatch(t, d)
                                                         ELSE InexactMatch(t, d)}
           IN  IF hits = {} THEN {SearchRow(t, stype, Null)}
                            ELSE {SearchRow(t, stype, d) : d \in hits}
           : t \in staged}

\* search(): exact searches joined on (e, a, tag, v), UNION ALL inexact ones
\* joined on (e, a).
Search == LeftJoin(exactSearches, "many") \cup LeftJoin(inexactSearches, "one")

\* WHERE clause of the rows that assert a datom not already present.
AddCond(r) == r.added /\ (r.rid = Null \/ (r.rid # Null /\ r.v0 # r.v))

\* Faulty variant: a cardinality-one assertion does not replace the old value.
RetractCondNoReplace(r) == r.rid # Null /\ ~r.added

\* WHERE clause of the rows whose found datom is retracted or replaced.
RetractCond(r) ==
    /\ r.rid # Null
    /\ \/ ~r.added
       \/ r.added /\ r.stype = "one" /\ r.v0 # r.v

\* Faulty variant: an assertion found unchanged is still reported as added.
ResolvedAddedNoValueCheck(rows) ==
    {[e |-> r.e, a |-> r.a, v |-> r.v0, added |-> TRUE] :
        r \in {x \in rows : x.a \in Metadata /\ x.added}}
    \cup {[e |-> r.e, a |-> r.a, v |-> r.v, added |-> FALSE] :
        r \in {x \in rows : /\ x.a \in Metadata /\ x.rid # Null
                            /\ \/ ~x.added
                               \/ x.added /\ x.stype = "one" /\ x.v0 # x.v}}

(***************************************************************************)
(* resolved_spacetime_assertions: the UNION of the metadata datoms the     *)
(* materialized transaction adds (v0) and retracts (the found v), read     *)
(* from temp.search_results by its own copy of the WHERE clauses.          *)
(***************************************************************************)
ResolvedSpacetimeAssertions(rows) ==
    {[e |-> r.e, a |-> r.a, v |-> r.v0, added |-> TRUE] :
        r \in {x \in rows : /\ x.a \in Metadata /\ x.added
                            /\ x.rid = Null \/ (x.rid # Null /\ x.v0 # x.v)}}
    \cup {[e |-> r.e, a |-> r.a, v |-> r.v, added |-> FALSE] :
        r \in {x \in rows : /\ x.a \in Metadata /\ x.rid # Null
                            /\ \/ ~x.added
                               \/ x.added /\ x.stype = "one" /\ x.v0 # x.v}}

\* committed_spacetime_assertions(conn, tx): the metadata rows of the log.
CommittedSpacetimeAssertions(T, tx) ==
    {[e |-> t.e, a |-> t.a, v |-> t.v, added |-> t.added] :
        t \in {u \in T : u.tx = tx /\ u.a \in Metadata}}

-----------------------------------------------------------------------------
Init ==
    /\ datoms = {} /\ transactions = {} /\ txId = 1
    /\ phase = "idle" /\ batch = {} /\ before = {}
    /\ exactSearches = {} /\ inexactSearches = {} /\ searchResults = {}

\* The Constraint Validator rejects the batch: nothing reaches storage.
Reject(b) ==
    /\ phase = "idle"
    /\ ~Valid(b)
    /\ UNCHANGED vars

\* begin_tx_application: drop and recreate the three temp tables.
BeginTxApplication(b) ==
    /\ phase = "idle"
    /\ txId <= MaxTx
    /\ Valid(b)
    /\ batch' = b
    /\ before' = datoms
    /\ exactSearches' = {} /\ inexactSearches' = {} /\ searchResults' = {}
    /\ phase' = "begun"
    /\ UNCHANGED <<datoms, transactions, txId>>

\* insert_non_fts_searches(non_fts_many, SearchType::Exact).
InsertExactSearches ==
    /\ phase = "begun"
    /\ exactSearches' = {t \in batch : ExactRoute(t)}
    /\ phase' = "exact"
    /\ UNCHANGED <<datoms, transactions, txId, batch, inexactSearches,
                   searchResults, before>>

\* insert_non_fts_searches(non_fts_one, SearchType::Inexact).
InsertInexactSearches ==
    /\ phase = "exact"
    /\ inexactSearches' = {t \in batch : ~ExactRoute(t)}
    /\ phase' = "inexact"
    /\ UNCHANGED <<datoms, transactions, txId, batch, exactSearches,
                   searchResults, before>>

\* materialize_einstai_transaction: search() then update_datoms(), whose
\* DELETE runs before its INSERT; the INSERT fails on a unique index.
MaterializeEinstaiTransaction ==
    LET rows    == Search
        kept    == datoms \ {r.rid : r \in {x \in rows : RetractCond(x)}}
        added   == {<<r.e, r.a, r.v0>> : r \in {x \in rows : AddCond(x)}}
        clashes == added \cap kept # {} \/ ~UniqueValueHolds(kept \cup added)
    IN
    /\ phase = "inexact"
    /\ searchResults' = rows
    /\ \/ /\ ~clashes
          /\ datoms' = kept \cup added
          /\ phase' = "materialized"
       \/ /\ clashes
          /\ datoms' = kept
          /\ phase' = "failed"
    /\ UNCHANGED <<transactions, txId, batch, exactSearches, inexactSearches,
                   before>>

\* commit_einstai_transaction: insert_transaction(); the tx id is used up.
CommitEinstaiTransaction ==
    /\ phase = "materialized"
    /\ transactions' = transactions
          \cup {[e |-> r.e, a |-> r.a, v |-> r.v0, tx |-> txId, added |-> TRUE]
                  : r \in {x \in searchResults : AddCond(x)}}
          \cup {[e |-> r.e, a |-> r.a, v |-> r.v, tx |-> txId, added |-> FALSE]
                  : r \in {x \in searchResults : RetractCond(x)}}
    /\ txId' = txId + 1
    /\ phase' = "idle"
    /\ UNCHANGED <<datoms, batch, exactSearches, inexactSearches,
                   searchResults, before>>

\* A storage error aborts the SQLite transaction, undoing every statement.
Rollback ==
    /\ phase = "failed"
    /\ datoms' = before
    /\ phase' = "idle"
    /\ UNCHANGED <<transactions, txId, batch, exactSearches, inexactSearches,
                   searchResults, before>>

Next ==
    \/ \E b \in Batches : Reject(b) \/ BeginTxApplication(b)
    \/ InsertExactSearches
    \/ InsertInexactSearches
    \/ MaterializeEinstaiTransaction
    \/ CommitEinstaiTransaction
    \/ Rollback

Spec == Init /\ [][Next]_vars

-----------------------------------------------------------------------------
TypeOK ==
    /\ datoms \subseteq Datom
    /\ transactions \subseteq [e : Entity, a : Attr, v : Value, tx : 1..MaxTx,
                                added : BOOLEAN]
    /\ txId \in 1..MaxTx + 1
    /\ phase \in Phase
    /\ batch \subseteq Term /\ before \subseteq Datom
    /\ exactSearches \subseteq Term /\ inexactSearches \subseteq Term
    /\ searchResults \subseteq Row

\* The two temp unique indexes created by begin_tx_application, which the
\* comments there call a net for transactor bugs ("the failure is opaque"),
\* never fire: inexact_searches_unique on (e0, a0) WHERE added0 = 1, and
\* search_results_unique on (e0, a0, v0, value_type_tag0).  Breaking them
\* takes a store left in a bad state by an earlier transaction.
SafetyNetsHold ==
    /\ \A t1, t2 \in inexactSearches :
          t1.added /\ t2.added /\ t1.e = t2.e /\ t1.a = t2.a => t1 = t2
    /\ \A r1, r2 \in searchResults :
          r1.e = r2.e /\ r1.a = r2.a /\ r1.v0 = r2.v0 => r1 = r2

(***************************************************************************)
(* The spacetime changes the transactor computes before the commit, from   *)
(* search_results, are the metadata datoms insert_transaction then writes  *)
(* to the log under the transaction's id -- what                           *)
(* committed_spacetime_assertions reads back.  The two are separate SQL    *)
(* statements; if they disagreed, the schema and idents the connection     *)
(* adopts would not be the ones its log records.                           *)
(***************************************************************************)
SpacetimeReportMatchesLog ==
    [][CommitEinstaiTransaction =>
         CommittedSpacetimeAssertions(transactions', txId)
           = ResolvedSpacetimeAssertions(searchResults)]_vars

\* The facts a reader of the committed database sees: the SQLite
\* transaction's own writes are invisible until it ends.
committedDatoms == IF phase = "idle" THEN datoms ELSE before

\* The pipeline implements the abstract store: seen at the commit points,
\* the SQL of search(), update_datoms() and insert_transaction() applies
\* every valid batch with set semantics and logs exactly the net change, and
\* a failing transaction changes nothing.
Store == INSTANCE TxStore WITH datoms <- committedDatoms
StoreSpec == Store!Spec
=============================================================================
