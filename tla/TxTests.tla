------------------------------ MODULE TxTests ------------------------------
(***************************************************************************)
(* The transaction tests of einsteindb.rs replayed through the storage     *)
(* pipeline of TxApplication.  Each test is a script of transactions;     *)
(* each step names the reduced terms the transactor hands to storage, and  *)
(* what the test asserts afterwards: success or an error, the datoms, and  *)
(* the last transaction's log entries (without the ?tx :txInstant datom,   *)
(* which the pipeline model does not write).  Keywords, strings and longs  *)
(* are written as strings; entities keep their numbers.                    *)
(***************************************************************************)
EXTENDS TxApplication, Sequences

VARIABLES test,    \* the test being replayed
          step,    \* index of the script step in progress
          result   \* "ok" or "err": the outcome of the step just finished

txVars == <<test, step, result>>

Add(e, a, v)     == [e |-> e, a |-> a, v |-> v, added |-> TRUE]
Retract(e, a, v) == [e |-> e, a |-> a, v |-> v, added |-> FALSE]

\* A step that succeeds, with the datoms and last transaction it asserts
\* (Null where the test asserts nothing).
Ok(b, D, L) == [batch |-> b, ok |-> TRUE, datoms |-> D, log |-> L]
Err(b)      == [batch |-> b, ok |-> FALSE, datoms |-> Null, log |-> Null]

\* run_test_add: :schema/version is cardinality one, :schema/attribute many.
TestAdd == <<
    Ok({Add(100, "version", "1"), Add(101, "version", "2")},
       {<<100, "version", "1">>, <<101, "version", "2">>},
       {Add(100, "version", "1"), Add(101, "version", "2")}),
    Ok({Add(200, "attribute", "100"), Add(200, "attribute", "101")},
       {<<100, "version", "1">>, <<101, "version", "2">>,
        <<200, "attribute", "100">>, <<200, "attribute", "101">>},
       {Add(200, "attribute", "100"), Add(200, "attribute", "101")}),
    Ok({Add(100, "version", "11"), Add(101, "version", "22")},
       {<<100, "version", "11">>, <<101, "version", "22">>,
        <<200, "attribute", "100">>, <<200, "attribute", "101">>},
       {Retract(100, "version", "1"), Add(100, "version", "11"),
        Retract(101, "version", "2"), Add(101, "version", "22")}),
    Ok({Add(100, "version", "11"), Add(101, "version", "22")},
       {<<100, "version", "11">>, <<101, "version", "22">>,
        <<200, "attribute", "100">>, <<200, "attribute", "101">>},
       {}),
    Ok({Add(200, "attribute", "100"), Add(200, "attribute", "101")},
       {<<100, "version", "11">>, <<101, "version", "22">>,
        <<200, "attribute", "100">>, <<200, "attribute", "101">>},
       {}) >>

\* test_retract.
TestRetract == <<
    Ok({Add(100, "version", "1"), Add(101, "version", "2")},
       {<<100, "version", "1">>, <<101, "version", "2">>},
       {Add(100, "version", "1"), Add(101, "version", "2")}),
    Ok({Add(200, "attribute", "100"), Add(200, "attribute", "101")},
       {<<100, "version", "1">>, <<101, "version", "2">>,
        <<200, "attribute", "100">>, <<200, "attribute", "101">>},
       {Add(200, "attribute", "100"), Add(200, "attribute", "101")}),
    Ok({Retract(100, "version", "1")},
       {<<101, "version", "2">>,
        <<200, "attribute", "100">>, <<200, "attribute", "101">>},
       {Retract(100, "version", "1")}),
    Ok({Retract(200, "attribute", "100")},
       {<<101, "version", "2">>, <<200, "attribute", "101">>},
       {Retract(200, "attribute", "100")}),
    Ok({Retract(100, "version", "1"), Retract(200, "attribute", "100")},
       {<<101, "version", "2">>, <<200, "attribute", "101">>},
       {}) >>

\* test_cardinality_constraints: :test/one is attribute 200, :test/many 201.
\* Repeated terms reach storage once: the transactor treats input as a set.
TestCardinalityConstraints == <<
    Ok({Add(200, "ident", ":test/one"), Add(200, "valueType", ":type/long"),
        Add(200, "cardinality", ":cardinality/one"),
        Add(201, "ident", ":test/many"), Add(201, "valueType", ":type/long"),
        Add(201, "cardinality", ":cardinality/many")}, Null, Null),
    Ok({Add(100, "one", "1"), Add(100, "many", "2")}, Null, Null),
    Ok({Retract(100, "one", "1"), Retract(100, "many", "2")}, Null, Null),
    Err({Add(100, "one", "3"), Add(100, "one", "4")}),
    Ok({Add(100, "many", "5"), Add(100, "many", "6")}, Null, Null),
    Err({Add(100, "one", "7"), Retract(100, "one", "7"),
         Add(100, "many", "8"), Retract(100, "many", "8")}) >>

\* test_einsteineinsteindb_double_retraction_issue_818: :test/ident is a
\* cardinality-one unique-identity attribute; asserting a new value and
\* retracting the old one in the same transaction retracts it once.
SchemaOf818 ==
    {<<100, "ident", ":test/ident">>, <<100, "valueType", ":type/string">>,
     <<100, "cardinality", ":cardinality/one">>,
     <<100, "unique", ":unique/identity">>, <<100, "index", "true">>}

TestDoubleRetraction == <<
    Ok({Add(d[1], d[2], d[3]) : d \in SchemaOf818}, SchemaOf818, Null),
    Ok({Add(200, "test_ident", "Oi")}, Null, Null),
    Ok({Add(200, "test_ident", "Ai!"), Retract(200, "test_ident", "Oi")},
       SchemaOf818 \cup {<<200, "test_ident", "Ai!">>},
       {Add(200, "test_ident", "Ai!"), Retract(200, "test_ident", "Oi")}) >>

\* test_einsteineinsteindb_ident: :name/Ivan and :name/Petr in entity
\* position are resolved to 100 by the transactor before storage.
TestIdent == <<
    Ok({Add(100, "ident", ":name/Ivan")}, {<<100, "ident", ":name/Ivan">>},
       {Add(100, "ident", ":name/Ivan")}),
    Ok({Add(100, "ident", ":name/Ivan")}, {<<100, "ident", ":name/Ivan">>}, {}),
    Ok({Add(100, "ident", ":name/Petr")}, {<<100, "ident", ":name/Petr">>},
       {Retract(100, "ident", ":name/Ivan"), Add(100, "ident", ":name/Petr")}),
    Ok({Add(101, "ident", ":name/Ivan")},
       {<<100, "ident", ":name/Petr">>, <<101, "ident", ":name/Ivan">>},
       {Add(101, "ident", ":name/Ivan")}),
    Ok({Retract(100, "ident", ":name/Petr")}, {<<101, "ident", ":name/Ivan">>},
       Null) >>

Tests == [add |-> TestAdd, ident |-> TestIdent, retract |-> TestRetract,
          cardinality |-> TestCardinalityConstraints,
          issue818 |-> TestDoubleRetraction]

Script == Tests[test]

\* The log entries of the last committed transaction, without their tx.
LastTransaction ==
    {[e |-> t.e, a |-> t.a, v |-> t.v, added |-> t.added] :
        t \in {u \in transactions : u.tx = txId - 1}}

-----------------------------------------------------------------------------
ReplayInit ==
    /\ Init
    /\ test \in DOMAIN Tests
    /\ step = 1
    /\ result = Null

\* assert_transact! hands the step's terms to the transactor.
RunStep ==
    /\ step <= Len(Script)
    /\ \/ /\ Reject(Script[step].batch)
          /\ step' = step + 1 /\ result' = "err"
       \/ /\ BeginTxApplication(Script[step].batch)
          /\ UNCHANGED <<step, result>>
    /\ UNCHANGED test

\* The pipeline's own steps; the script moves on when the transaction ends.
Pipeline ==
    /\ \/ InsertExactSearches \/ InsertInexactSearches
       \/ MaterializeEinstaiTransaction
    /\ UNCHANGED txVars

Finish ==
    /\ \/ CommitEinstaiTransaction /\ result' = "ok"
       \/ Rollback /\ result' = "err"
    /\ step' = step + 1
    /\ UNCHANGED test

ReplayNext == RunStep \/ Pipeline \/ Finish

ReplaySpec == ReplayInit /\ [][ReplayNext]_<<vars, txVars>>

-----------------------------------------------------------------------------
(***************************************************************************)
(* Every assertion of the replayed tests holds: after each step the        *)
(* transaction succeeded or failed as assert_transact! expects, and        *)
(* conn.datoms() and conn.last_transaction() are what the test matches     *)
(* them against.  This ties the SQL of search(), update_datoms() and       *)
(* insert_transaction() in the model to the behaviour the repository's     *)
(* tests pin down.                                                         *)
(***************************************************************************)
TestsPass ==
    phase = "idle" /\ step > 1 =>
        LET s == Script[step - 1] IN
        /\ result = IF s.ok THEN "ok" ELSE "err"
        /\ s.datoms # Null => datoms = s.datoms
        /\ s.log # Null => LastTransaction = s.log
=============================================================================
