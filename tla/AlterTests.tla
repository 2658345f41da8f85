----------------------------- MODULE AlterTests -----------------------------
(***************************************************************************)
(* The schema-alteration tests of einsteindb.rs replayed through           *)
(* SchemaAlteration.  Each test installs one attribute (the installation   *)
(* is the replay's initial state) and then runs a script of transactions   *)
(* on it: data assertions [e a v], and alterations of its cardinality,     *)
(* uniqueness, index, value type or fulltext flag.  After each step the    *)
(* replay holds what the test asserts: success or the error kind, the      *)
(* attribute's datoms, and the characteristics the schema reports.         *)
(*                                                                         *)
(* A data transaction of several assertions on the attribute, all of which *)
(* the test expects to succeed, is replayed as one transaction per         *)
(* assertion; the datoms of the install transaction, which belong to other *)
(* attributes, are not part of SchemaAlteration's state.                   *)
(***************************************************************************)
EXTENDS SchemaAlteration, Sequences

VARIABLES test,   \* the test being replayed
          step    \* index of the next script step

testVars == <<test, step>>

Attr(vt, many, u, ix, ft) ==
    [value_type |-> vt, multival |-> many, unique |-> u, index |-> ix, fulltext |-> ft, component |-> FALSE]

\* The characteristics an alteration asserts (u = "none" is the retraction
\* of :unique); the rest are left unset.
Ch(r) == [f \in DOMAIN DefaultAttr |->
            IF f \in DOMAIN r THEN r[f] ELSE Unset]

\* Steps: a data assertion expected to succeed, or an alteration with its
\* expected result; datoms and attr are what the test checks afterwards.
Data(e, v, D)  == [op |-> "assert", e |-> e, v |-> v, expect |-> "ok", datoms |-> D, attr |-> Null]
AlterTo(r, res, at) ==
    [op |-> "alter", ch |-> Ch(r), expect |-> res, datoms |-> Null, attr |-> at]

\* test_einsteineinsteindb_alter: :test/solitonid is a keyword, cardinality one.
TestAlter == [installed |-> Attr("keyword", FALSE, "none", FALSE, FALSE),
  script |-> <<
    AlterTo([value_type |-> "long"], "BadSchemaAssertion", Null),
    AlterTo([multival |-> TRUE], "ok",
            [value_type |-> "keyword", multival |-> TRUE, fulltext |-> FALSE]),
    Data(101, "value1", Null),
    Data(101, "value2", {<<101, "value1">>, <<101, "value2">>}) >>]

\* test_einsteineinsteindb_alter_cardinality: a long, cardinality one.
TestAlterCardinality == [installed |-> Attr("long", FALSE, "none", FALSE, FALSE),
  script |-> <<
    Data(200, "1", Null),
    AlterTo([multival |-> TRUE], "ok", Null),
    Data(200, "2", {<<200, "1">>, <<200, "2">>}),
    AlterTo([multival |-> FALSE], "SchemaAlterationFailed", Null) >>]

\* test_einsteineinsteindb_alter_unique_value.
TestAlterUniqueValue == [installed |-> Attr("long", FALSE, "none", FALSE, FALSE),
  script |-> <<
    Data(200, "1", Null),
    Data(201, "1", Null),
    AlterTo([unique |-> "value"], "SchemaAlterationFailed", Null),
    AlterTo([unique |-> "identity"], "SchemaAlterationFailed", Null),
    Data(201, "2", {<<200, "1">>, <<201, "2">>}),
    AlterTo([index |-> TRUE, unique |-> "value"], "ok", Null),
    AlterTo([unique |-> "none"], "ok", [unique |-> "none"]),
    Data(121, "1", Null),
    Data(221, "2", {<<200, "1">>, <<201, "2">>, <<121, "1">>, <<221, "2">>}) >>]

\* test_einsteineinsteindb_alter_fulltext, attribute 222 (the retraction of
\* :fulltext on 111 is refused by the spacetime module, not under src/).
TestAlterFulltext == [installed |-> Attr("string", FALSE, "none", TRUE, FALSE),
  script |-> <<
    AlterTo([fulltext |-> TRUE], "BadSchemaAssertion", [fulltext |-> FALSE]) >>]

Tests == [alter |-> TestAlter, cardinality |-> TestAlterCardinality,
          unique_value |-> TestAlterUniqueValue, fulltext |-> TestAlterFulltext]

Script == Tests[test].script

Pairs(R) == {<<r.e, r.v>> : r \in R}

-----------------------------------------------------------------------------
\* The install transaction: a valid attribute with no datoms yet.
ReplayInit ==
    /\ test \in DOMAIN Tests
    /\ attribute = Tests[test].installed
    /\ ValidAttr(attribute)
    /\ datoms = {}
    /\ lastAlter = Null
    /\ lastInstall = Null
    /\ step = 1

\* assert_transact! runs the next step of the script.
RunStep ==
    /\ step <= Len(Script)
    /\ LET s == Script[step] IN
       IF s.op = "assert" THEN Assert(s.e, s.v) ELSE Alter(s.ch)
    /\ step' = step + 1
    /\ UNCHANGED test

\* The run that checks the tests also explores every behaviour of the model
\* from an empty attribute (test = Free), as SchemaAlteration's Spec does.
Free == "any"

TestInit ==
    \/ ReplayInit
    \/ Init /\ test = Free /\ step = 1

TestNext ==
    \/ test = Free /\ Next /\ UNCHANGED testVars
    \/ test # Free /\ RunStep

TestSpec == TestInit /\ [][TestNext]_<<vars, testVars>>

-----------------------------------------------------------------------------
(***************************************************************************)
(* Every assertion of the replayed alteration tests holds: each alteration *)
(* ends as the test expects (accepted, BadSchemaAssertion from             *)
(* validate_alter_Attr or validate, SchemaAlterationFailed from            *)
(* update_spacetime's checks, in that order), each data assertion is       *)
(* stored, and the datoms and schema characteristics are those the test    *)
(* matches.  This ties AttrBuilder::mutate and the flag rewriting of       *)
(* update_spacetime, as modelled, to the behaviour the tests pin down.     *)
(***************************************************************************)
AlterTestsPass ==
    test # Free /\ step > 1 =>
        LET s == Script[step - 1] IN
        /\ s.op = "alter" => lastAlter.result = s.expect
        /\ s.op = "assert" => <<s.e, s.v>> \in Pairs(datoms)
        /\ s.datoms # Null => Pairs(datoms) = s.datoms
        /\ s.attr # Null => \A f \in DOMAIN s.attr : attribute[f] = s.attr[f]
=============================================================================
