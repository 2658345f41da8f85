------------------------------ MODULE MC_Schema ------------------------------
(***************************************************************************)
(* The schema registry checked in one run: alteration of an attribute and  *)
(* its data with the replayed alteration tests (AlterTests), validation of *)
(* the attribute map with its unit tests (AttrValidation), and idents and  *)
(* type checking (SchemaIdents).  Each behaviour exercises one of them     *)
(* (part); the others keep their initial state.                            *)
(***************************************************************************)
CONSTANTS Null, Unset, e1, e2, k1, k2

VARIABLES part,
          attribute, datoms, lastAlter, lastInstall,
          alterTest, alterStep,                                 \* AlterTests
          validationTest, validationStep, attrMap, causetidMap,
          pending, result,                                      \* AttrValidation
          identDatoms, identsTable, schema, typed               \* SchemaIdents

\* Two entities and two values for the unconstrained alterations; the
\* replayed tests bring their own entities and values.
AT == INSTANCE AlterTests WITH Entity <- {200, 201}, Value <- {"1", "2"},
        test <- alterTest, step <- alterStep

AV == INSTANCE AttrValidation WITH test <- validationTest, step <- validationStep

\* Two entities and two keywords: enough to rename, re-use and swap idents;
\* a long that is also a causetid, so Long -> Ref coercion meets an entity.
SI == INSTANCE SchemaIdents WITH Entity <- {e1, e2}, Keyword <- {k1, k2},
        Longs <- {e1}

atVars == <<attribute, datoms, lastAlter, lastInstall, alterTest, alterStep>>
avVars == <<validationTest, validationStep, attrMap, causetidMap, pending, result>>
siVars == <<identDatoms, identsTable, schema, typed>>
vars == <<part, atVars, avVars, siVars>>

\* A part no behaviour exercises sits in one initial state: a replayed test
\* before its first step.
Init ==
    /\ part \in {"alter", "validation", "idents"}
    /\ AT!TestInit /\ AV!Init /\ SI!Init
    /\ part # "alter" => alterTest = "fulltext"
    /\ part # "validation" => validationTest = "success"

Next ==
    \/ part = "alter" /\ AT!TestNext /\ UNCHANGED <<part, avVars, siVars>>
    \/ part = "validation" /\ AV!Next /\ UNCHANGED <<part, atVars, siVars>>
    \/ part = "idents" /\ SI!Next /\ UNCHANGED <<part, atVars, avVars>>

Spec == Init /\ [][Next]_vars

-----------------------------------------------------------------------------
\* SchemaIdents' type invariant.
TypeOK == SI!TypeOK

\* Uniqueness holds of an attribute's data through data transactions and
\* alterations (see SchemaAlteration).
UniqueEnforced == AT!UniqueEnforced

\* Cardinality one holds of the data through data transactions and
\* many-to-one alterations (see SchemaAlteration).
CardinalityOneHolds == AT!CardinalityOneHolds

\* The flag columns of the attribute's rows agree with its schema through
\* installs, data transactions and alterations (see SchemaAlteration).
FlagsMatchSchema == AT!FlagsMatchSchema

\* An alteration keeps the characteristics it does not assert: mutate on a
\* builder from to_modify_Attr (see SchemaAlteration).
AlterKeepsUnasserted ==
    [][lastAlter' # Null /\ lastAlter'.result = "ok" =>
         \A f \in lastAlter'.unset : attribute'[f] = attribute[f]]_vars

\* The alteration tests of einsteindb.rs get what they assert (AlterTests).
AlterTestsPass == AT!AlterTestsPass

\* validate_Attr_map accepts exactly the schemas that keep spec.md's
\* attribute invariants, in any iteration order (AttrValidation).
ValidationAsSpecified == AV!ValidationAsSpecified

\* The validation tests of causetx.rs get what they assert (AttrValidation).
ValidationTestsPass == AV!ValidationTestsPass

\* A keyword coerced to a Ref names its entity and reads back as itself
\* (SchemaIdents).
KeywordRefRoundTrip == SI!KeywordRefRoundTrip

\* Reopening the store rebuilds the schema the connection had (SchemaIdents).
ReopenKeepsSchema == [][SI!Reopen => schema' = schema]_vars
=============================================================================
