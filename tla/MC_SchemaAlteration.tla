------------------------ MODULE MC_SchemaAlteration -------------------------
EXTENDS AlterTests

\* Two entities and two values for the unconstrained behaviours; the
\* replayed tests bring their own entities and values.
MC_Entity == {200, 201}
MC_Value == {"1", "2"}
=============================================================================
