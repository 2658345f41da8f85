---------------------------- MODULE SchemaIdents ----------------------------
(***************************************************************************)
(* Idents and the schema built from them.                                  *)
(*                                                                         *)
(* An ident is a datom [e :einsteineinsteindb/solitonid k]: the attribute  *)
(* is cardinality one and unique identity, so a transaction that gives e a *)
(* new keyword replaces its old one and one that gives k to a second       *)
(* entity fails on idx_datoms_unique_value.  update_spacetime keeps the    *)
(* idents table a copy of those datoms, refreshed when the spacetime       *)
(* report says idents were altered.  On open, read_einsteineinsteindb      *)
(* reads the idents table into a SolitonidMap (keyword -> causetid) and    *)
(* Schema::from_ident_map_and_Attr_map inverts it into the causetid map;   *)
(* both are HashMap collects, where a repeated key keeps whichever row    *)
(* came last.  Schema::to_typed_value coerces an EDN value to an          *)
(* attribute's value type, resolving a keyword through require_CausetID.   *)
(***************************************************************************)
EXTENDS Naturals, FiniteSets

CONSTANTS
    Entity,    \* causetids that may carry an ident
    Keyword,   \* keywords that may be idents
    Longs,     \* longs an EDN value may hold
    Null

VARIABLES
    identDatoms,  \* the [e :solitonid k] datoms, as <<e, k>>
    identsTable,  \* the idents materialized view, as <<e, k>>
    schema,       \* the connection's Schema: [ident : k -> e, causetid : e -> k]
    typed         \* the last to_typed_value call and its result, or Null

vars == <<identDatoms, identsTable, schema, typed>>

ValueType == {"Ref", "Long", "Keyword", "String", "Boolean"}

\* EDN values: a vector is one from_edn_value does not recognise.
EdnValue == [kind : {"Long"}, x : Longs] \cup [kind : {"Keyword"}, x : Keyword]
              \cup [kind : {"Boolean"}, x : BOOLEAN] \cup [kind : {"Vector"}, x : {Null}]

TV(t, x) == [type |-> t, x |-> x]
BadValuePair          == [error |-> "BadValuePair"]
UnrecognizedCausetID  == [error |-> "UnrecognizedCausetID"]

\* TypedValue::from_edn_value: None (Null) for EDN with no typed value.
FromEdnValue(v) == IF v.kind = "Vector" THEN Null ELSE TV(v.kind, v.x)

-----------------------------------------------------------------------------
(* The maps a HashMap collect can build from rows of (key, value) pairs:   *)
(* one entry per key, holding the value of one of that key's rows.         *)
Collects(rows) ==
    LET keys == {r[1] : r \in rows}
    IN  {m \in [keys -> {r[2] : r \in rows}] : \A k \in keys : <<k, m[k]>> \in rows}

\* read_ident_map: the rows (keyword, e) of the idents view.
ReadIdentMaps(T) == Collects({<<r[2], r[1]>> : r \in T})

\* from_ident_map_and_Attr_map: ident_map.iter().map(|(k, v)| (v, k)).collect().
FromIdentMap(m) ==
    {[ident |-> m, causetid |-> c] : c \in Collects({<<m[k], k>> : k \in DOMAIN m})}

\* Every schema read_einsteineinsteindb can open on the idents view T.
SchemasOf(T) == UNION {FromIdentMap(m) : m \in ReadIdentMaps(T)}

\* SchemaBuilding::require_CausetID and require_ident.
RequireCausetID(s, k) == IF k \in DOMAIN s.ident THEN s.ident[k] ELSE UnrecognizedCausetID
RequireIdent(s, e)    == IF e \in DOMAIN s.causetid THEN s.causetid[e] ELSE UnrecognizedCausetID

\* Mutant: the later `impl SchemaTypeChecking for TypedValue`, which hands
\* back any value asked for as a Ref unchanged.
ToTypedValueRefClone(s, v, vt) ==
    LET tv == FromEdnValue(v) IN
    CASE tv = Null                                -> BadValuePair
      [] vt = "Ref"                               -> tv
      [] OTHER                                    -> BadValuePair

(***************************************************************************)
(* Schema::to_typed_value: the exact arms, Long and Keyword coerced to a   *)
(* Ref, and BadValuePair for the rest and for unrecognised EDN.  EDN has   *)
(* no Ref, so (Ref, Ref) never arises.                                      *)
(***************************************************************************)
ToTypedValue(s, v, vt) ==
    LET tv == FromEdnValue(v) IN
    CASE tv = Null                                -> BadValuePair
      [] tv.type = vt                             -> tv
      [] vt = "Ref" /\ tv.type = "Long"           -> TV("Ref", tv.x)
      [] vt = "Ref" /\ tv.type = "Keyword"        ->
            LET e == RequireCausetID(s, tv.x)
            IN  IF e = UnrecognizedCausetID THEN e ELSE TV("Ref", e)
      [] OTHER                                    -> BadValuePair

-----------------------------------------------------------------------------
\* Mutant: an assertion adds the new keyword without replacing e's old one.
AssertIdentNoReplace(D, e, k) == D \cup {<<e, k>>}

\* An assertion on the cardinality-one :solitonid: the inexact search finds
\* e's old ident and update_datoms replaces it.
AssertIdent(D, e, k) == {d \in D : d[1] # e} \cup {<<e, k>>}

\* idx_datoms_unique_value: no keyword is the ident of two entities.
UniqueIdents(D) == \A d1, d2 \in D : d1[2] = d2[2] => d1 = d2

\* Mutant: the idents view refreshed only when attributes change.
RefreshIdentsOnAttrChange(T, D, D2) == T

\* update_spacetime: DELETE FROM idents and copy the ident datoms back when
\* the report's idents_altered is not empty.
RefreshIdents(T, D, D2) == IF D2 # D THEN D2 ELSE T

Init ==
    /\ identDatoms = {}
    /\ identsTable = {}
    /\ schema \in SchemasOf({})
    /\ typed = Null

(***************************************************************************)
(* One transaction asserting or retracting [e :solitonid k]: on success    *)
(* the datoms change, update_spacetime refreshes the idents view and the   *)
(* connection adopts the new schema; a unique-index failure rolls back.    *)
(***************************************************************************)
TransactIdent(e, k, added) ==
    LET D2 == IF added THEN AssertIdent(identDatoms, e, k)
                       ELSE identDatoms \ {<<e, k>>}
    IN
    /\ UniqueIdents(D2)
    /\ identDatoms' = D2
    /\ identsTable' = RefreshIdents(identsTable, identDatoms, D2)
    /\ schema' \in SchemasOf(D2)
    /\ typed' = Null

\* read_einsteineinsteindb: reopening builds the schema from the idents view.
Reopen ==
    /\ schema' \in SchemasOf(identsTable)
    /\ typed' = Null
    /\ UNCHANGED <<identDatoms, identsTable>>

\* A term's value is type-checked against its attribute's value type.
TypeCheck(v, vt) ==
    /\ typed' = [value |-> v, vt |-> vt, out |-> ToTypedValue(schema, v, vt)]
    /\ UNCHANGED <<identDatoms, identsTable, schema>>

Next ==
    \/ \E e \in Entity, k \in Keyword, added \in BOOLEAN : TransactIdent(e, k, added)
    \/ Reopen
    \/ \E v \in EdnValue, vt \in ValueType : TypeCheck(v, vt)

Spec == Init /\ [][Next]_vars

-----------------------------------------------------------------------------
TypeOK ==
    /\ identDatoms \subseteq Entity \X Keyword
    /\ identsTable \subseteq Entity \X Keyword
    /\ \E ks \in SUBSET Keyword, es \in SUBSET Entity :
          schema.ident \in [ks -> Entity] /\ schema.causetid \in [es -> Keyword]
    /\ \/ typed = Null
       \/ typed.out \in {BadValuePair, UnrecognizedCausetID}
       \/ /\ typed.out.type = typed.vt
          /\ typed.vt = "Ref" => typed.out.x \in Entity
          /\ typed.vt # "Ref" => typed.out = FromEdnValue(typed.value)

(***************************************************************************)
(* A keyword that to_typed_value would coerce to a Ref names the entity    *)
(* whose ident that keyword is in the datoms, and require_ident of that    *)
(* Ref gives the keyword back -- whatever renames, re-uses and retractions *)
(* of idents came before and whether the schema was built in memory or     *)
(* read back from the idents view.  It needs the cardinality-one           *)
(* replacement and the uniqueness of idents, because both maps of the      *)
(* schema come from HashMap collects that keep one of several rows.        *)
(***************************************************************************)
KeywordRefRoundTrip ==
    \A k \in Keyword :
        LET out == ToTypedValue(schema, [kind |-> "Keyword", x |-> k], "Ref")
        IN  "type" \in DOMAIN out /\ out.type = "Ref" =>
                /\ <<out.x, k>> \in identDatoms
                /\ RequireIdent(schema, out.x) = k

(***************************************************************************)
(* Reopening the store does not change the schema: what                    *)
(* read_einsteineinsteindb builds from the idents view is the schema the   *)
(* connection had, so an ident renamed or retracted before a restart stays *)
(* renamed or retracted after it.                                          *)
(***************************************************************************)
ReopenKeepsSchema == [][Reopen => schema' = schema]_vars
=============================================================================
