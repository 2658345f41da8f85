-------------------------- MODULE SchemaAlteration --------------------------
(***************************************************************************)
(* One attribute of the schema, its datoms, and the three ways they        *)
(* change: the install of the attribute (an AttrBuilder's setters, build   *)
(* and validate, causetx.rs); data transactions, whose new rows take       *)
(* their index_avet and unique_value flags from the attribute              *)
(* (update_datoms expands flags0); and schema alterations:                 *)
(* validate_alter_Attr and mutate on the AttrBuilder, then                 *)
(* update_spacetime (einsteindb.rs), which rewrites the flags of the       *)
(* attribute's existing rows and refuses unsafe narrowings.  Every kind    *)
(* of transaction is all-or-nothing.  :db/noHistory is left out: mutate    *)
(* handles it as it handles :db/isComponent, and nothing under src reads   *)
(* it.                                                                     *)
(***************************************************************************)
EXTENDS Naturals

CONSTANTS Entity, Value,
          Unset,     \* an AttrBuilder field that is None
          Null       \* no attribute installed yet; no transaction of a kind yet

UniqueKind == {"none", "value", "identity"}   \* Option<Unique>
ValueType == {"long", "string", "keyword", "ref"}

Attribute == [value_type : ValueType, multival : BOOLEAN, unique : UniqueKind,
              index : BOOLEAN, fulltext : BOOLEAN, component : BOOLEAN]

\* A row of datoms for this attribute, with the two flag columns it carries.
Row == [e : Entity, v : Value, index_avet : BOOLEAN, unique_value : BOOLEAN]

\* The characteristics a schema transaction asserts ("none" for unique is
\* non_unique()), as its setters leave them on an AttrBuilder.
Change == [multival : BOOLEAN \cup {Unset}, unique : UniqueKind \cup {Unset},
           index : BOOLEAN \cup {Unset}, value_type : ValueType \cup {Unset},
           fulltext : BOOLEAN \cup {Unset}, component : BOOLEAN \cup {Unset}]

\* Nothing here tells a keyword attribute from a long one: the installs
\* explored use long for both.
InstallChange == {ch \in Change : ch.value_type # "keyword"}

\* An alteration's value type and fulltext matter only as set or not, and
\* validate_alter_Attr refuses either: one value of each stands for all.
AlterChange == {ch \in Change : <<ch.value_type, ch.fulltext>> \in
                  {<<Unset, Unset>>, <<"long", Unset>>, <<Unset, TRUE>>}}

VARIABLES attribute,   \* the attribute in the schema, or Null
          datoms,      \* its rows of the datoms table
          lastAlter,   \* the alteration just tried: how it ended, the
                       \* uniqueness and cardinality it asked for, and the
                       \* characteristics it left unset; else Null
          lastInstall  \* the install just tried: builder kind, input, result;
                       \* else Null

vars == <<attribute, datoms, lastAlter, lastInstall>>

-----------------------------------------------------------------------------
\* AttrValidation::validate.
ValidAttr(at) ==
    /\ at.unique # "none" => at.index
    /\ at.fulltext => at.value_type = "string"
    /\ at.fulltext => at.index
    /\ at.component => at.value_type = "ref"

(***************************************************************************)
(* AttrBuilder::default() or helpful(), then the setters of the asserted   *)
(* characteristics in the transaction's order.  A setter sets its own      *)
(* field, except that on a helpful builder unique(Identity) and            *)
(* fulltext(true) also set index to Some(true), which an index(false)      *)
(* called after them undoes: the builders any order can leave.             *)
(***************************************************************************)
SetCharacteristics(ch, helpful) ==
    LET flips == helpful /\ (ch.unique = "identity" \/ ch.fulltext = TRUE)
    IN  {[ch EXCEPT !.index = i] :
            i \in IF ~flips THEN {ch.index}
                  ELSE IF ch.index = Unset THEN {TRUE} ELSE {ch.index, TRUE}}

\* AttrBuilder::build: the builder's fields over Attr::default().
DefaultAttr == [value_type |-> "ref", multival |-> FALSE, unique |-> "none",
                index |-> FALSE, fulltext |-> FALSE, component |-> FALSE]

Build(b) == [f \in DOMAIN DefaultAttr |-> IF b[f] = Unset THEN DefaultAttr[f] ELSE b[f]]

\* AttrBuilder::validate_install_Attr.
ValidInstall(b) == b.value_type # Unset

\* Mutant: to_modify_Attr without the copy of unique.
ModifyBuilderNoUnique(at, ch) ==
    [ch EXCEPT !.multival  = IF ch.multival = Unset THEN at.multival ELSE @,
               !.component = IF ch.component = Unset THEN at.component ELSE @]

\* AttrBuilder::to_modify_Attr copies multival, unique and component from the
\* attribute; the asserted characteristics are then set on it (the builder
\* is not helpful).
ModifyBuilder(at, ch) ==
    [ch EXCEPT !.multival  = IF ch.multival = Unset THEN at.multival ELSE @,
               !.unique    = IF ch.unique = Unset THEN at.unique ELSE @,
               !.component = IF ch.component = Unset THEN at.component ELSE @]

\* AttrBuilder::validate_alter_Attr.
ValidAlter(b) == b.value_type = Unset /\ b.fulltext = Unset

\* Faulty variant: a change of uniqueness is applied but not reported.
AlterationsNoUnique(b, at) ==
    {x \in {"Cardinality", "Index", "IsComponent"} :
        CASE x = "Cardinality" -> b.multival # Unset /\ b.multival # at.multival
          [] x = "Index"       -> b.index # Unset /\ b.index # at.index
          [] x = "IsComponent" -> b.component # Unset /\ b.component # at.component}

\* Faulty variant: a change of index is applied but not reported.
AlterationsNoIndex(b, at) ==
    {x \in {"Cardinality", "Unique", "IsComponent"} :
        CASE x = "Cardinality" -> b.multival # Unset /\ b.multival # at.multival
          [] x = "Unique"      -> IF b.unique # Unset THEN b.unique # at.unique
                                                      ELSE at.unique # "none"
          [] x = "IsComponent" -> b.component # Unset /\ b.component # at.component}

\* The AttrAlterations AttrBuilder::mutate reports (order is not observable:
\* any failure aborts the whole transaction).
Alterations(b, at) ==
    {x \in {"Cardinality", "Unique", "Index", "IsComponent"} :
        CASE x = "Cardinality" -> b.multival # Unset /\ b.multival # at.multival
          [] x = "Unique"      -> IF b.unique # Unset THEN b.unique # at.unique
                                                      ELSE at.unique # "none"
          [] x = "Index"       -> b.index # Unset /\ b.index # at.index
          [] x = "IsComponent" -> b.component # Unset /\ b.component # at.component}

\* The attribute AttrBuilder::mutate leaves behind.
Mutate(b, at) ==
    [at EXCEPT !.multival   = IF b.multival # Unset THEN b.multival ELSE @,
               !.unique     = IF b.unique # Unset THEN b.unique ELSE "none",
               !.index      = IF b.index # Unset THEN b.index ELSE @,
               !.component  = IF b.component # Unset THEN b.component ELSE @]

\* Attribute::flags() as expanded into a new row by update_datoms.
NewRow(at, e, v) ==
    [e |-> e, v |-> v, index_avet |-> at.index, unique_value |-> at.unique # "none"]

\* idx_datoms_unique_value, a partial index over the rows whose unique_value
\* flag is set.
UniqueIndexHolds(R) ==
    \A r1, r2 \in R : r1.unique_value /\ r2.unique_value /\ r1.v = r2.v
                        => r1.e = r2.e

\* Faulty variant: the narrowing check is skipped.
CardinalityStmtSkipped(R) == FALSE

\* cardinality_stmt: SELECT EXISTS (...) yields exactly one row, 0 or 1, so
\* `rows.next().is_some()` holds whatever the datoms are.
CardinalityStmtHasRow(R) == TRUE

\* The characteristics mutate may change.
Mutable == {"multival", "unique", "index", "component"}

-----------------------------------------------------------------------------
Init ==
    /\ attribute = Null
    /\ datoms = {}
    /\ lastAlter = Null
    /\ lastInstall = Null

(***************************************************************************)
(* A schema transaction installing the attribute: its characteristics set  *)
(* on a default() or a helpful() builder, validate_install_Attr, build,    *)
(* then the new schema validated.  A failure aborts the transaction.       *)
(***************************************************************************)
Install(ch, helpful) ==
    /\ attribute = Null
    /\ \E b \in SetCharacteristics(ch, helpful) :
         LET at     == Build(b)
             result == IF ValidInstall(b) /\ ValidAttr(at) THEN "ok"
                       ELSE "BadSchemaAssertion"
         IN  /\ lastInstall' = [helpful |-> helpful, ch |-> ch, result |-> result]
             /\ attribute' = IF result = "ok" THEN at ELSE attribute
    /\ lastAlter' = Null
    /\ UNCHANGED datoms

\* Faulty variant: uniqueness checked on the rows before the insert.
AssertCheckBeforeInsert(e, v) ==
    LET kept == IF attribute.multival THEN datoms
                ELSE {r \in datoms : r.e # e \/ r.v = v}
        R2   == IF \E r \in kept : r.e = e /\ r.v = v THEN kept
                ELSE kept \cup {NewRow(attribute, e, v)}
    IN
    /\ attribute # Null
    /\ datoms' = IF UniqueIndexHolds(kept) THEN R2 ELSE datoms
    /\ lastInstall' = Null /\ lastAlter' = Null
    /\ UNCHANGED attribute

\* A data transaction asserting [e a v]; on a cardinality-one attribute the
\* entity's other value is replaced.  Fails on the unique_value index.
Assert(e, v) ==
    LET kept == IF attribute.multival THEN datoms
                ELSE {r \in datoms : r.e # e \/ r.v = v}
        R2   == IF \E r \in kept : r.e = e /\ r.v = v THEN kept
                ELSE kept \cup {NewRow(attribute, e, v)}
    IN
    /\ attribute # Null
    /\ datoms' = IF UniqueIndexHolds(R2) THEN R2 ELSE datoms
    /\ lastInstall' = Null /\ lastAlter' = Null
    /\ UNCHANGED attribute

\* A data transaction retracting [e a v]; a no-op when it is absent.
Retract(e, v) ==
    /\ attribute # Null
    /\ datoms' = {r \in datoms : r.e # e \/ r.v # v}
    /\ lastInstall' = Null /\ lastAlter' = Null
    /\ UNCHANGED attribute

\* A schema alteration: validate_alter_Attr, mutate, then update_spacetime
\* walks the alterations: Index rewrites index_avet, Unique rewrites
\* unique_value (failing on the index), Cardinality to one runs
\* cardinality_stmt; finally the new schema is validated.
Alter(ch) ==
    LET b    == ModifyBuilder(attribute, ch)
        alts == Alterations(b, attribute)
        new  == Mutate(b, attribute)
        R2   == {[r EXCEPT
                    !.index_avet   = IF "Index" \in alts THEN new.index ELSE @,
                    !.unique_value = IF "Unique" \in alts THEN new.unique # "none"
                                                          ELSE @]
                 : r \in datoms}
        result ==
          CASE ~ValidAlter(b) -> "BadSchemaAssertion"
            [] "Unique" \in alts /\ ~UniqueIndexHolds(R2) -> "SchemaAlterationFailed"
            [] "Cardinality" \in alts /\ ~new.multival
                 /\ CardinalityStmtHasRow(datoms)         -> "SchemaAlterationFailed"
            [] ~ValidAttr(new)                            -> "BadSchemaAssertion"
            [] OTHER                                      -> "ok"
    IN
    /\ attribute # Null
    /\ lastInstall' = Null
    /\ lastAlter' = [result |-> result, unique |-> new.unique, multival |-> new.multival,
                     unset |-> {f \in Mutable : ch[f] = Unset}]
    /\ IF result = "ok" THEN attribute' = new /\ datoms' = R2
                        ELSE UNCHANGED <<attribute, datoms>>

Next ==
    \/ \E ch \in InstallChange, helpful \in BOOLEAN : Install(ch, helpful)
    \/ \E e \in Entity, v \in Value : Assert(e, v) \/ Retract(e, v)
    \/ \E ch \in AlterChange : Alter(ch)

Spec == Init /\ [][Next]_vars

-----------------------------------------------------------------------------
TypeOK ==
    /\ attribute \in Attribute \cup {Null}
    /\ datoms \subseteq Row
    /\ lastAlter \in [unique : UniqueKind, multival : BOOLEAN, unset : SUBSET Mutable,
                      result : {"ok", "BadSchemaAssertion", "SchemaAlterationFailed"}]
                     \cup {Null}
    /\ lastInstall \in [helpful : BOOLEAN, ch : Change,
                        result : {"ok", "BadSchemaAssertion"}] \cup {Null}

\* Some entity holds two distinct values (what cardinality_stmt asks).
CardinalityConflict(R) == \E r1, r2 \in R : r1.e = r2.e /\ r1.v # r2.v

\* Two entities hold the same value.
UniquenessConflict(R) == \E r1, r2 \in R : r1.v = r2.v /\ r1.e # r2.e

\* :unique holds of the data: once an attribute is unique, by installation or
\* by alteration, no two entities share a value.  The unique_value index only
\* covers rows whose flag is set, so this needs update_spacetime to have
\* rewritten the flags of every older row.
UniqueEnforced == attribute # Null /\ attribute.unique # "none" => ~UniquenessConflict(datoms)

\* :cardinality/one holds of the data, through data transactions (which
\* replace the old value) and many-to-one alterations.
CardinalityOneHolds == attribute # Null /\ ~attribute.multival => ~CardinalityConflict(datoms)

(***************************************************************************)
(* An alteration changes only what it asserts (spec.md 4.1: mutate         *)
(* "applies only the mutable fields"): cardinality, uniqueness, index and  *)
(* component left unset by the transaction keep their values.  mutate      *)
(* resets unique to None when the builder has no unique, so this rests on  *)
(* to_modify_Attr copying unique into every alteration's builder.          *)
(***************************************************************************)
AlterKeepsUnasserted ==
    [][lastAlter' # Null /\ lastAlter'.result = "ok" =>
         \A f \in lastAlter'.unset : attribute'[f] = attribute[f]]_vars

\* spec.md 4.6 and 8: a many-to-one or a uniqueness alteration is refused with
\* SchemaAlterationFailed only when the existing data would break the narrowed
\* constraint (a failed alteration leaves attribute and datoms as they were).
AlterationRefusedOnlyOnConflict ==
    lastAlter # Null /\ lastAlter.result = "SchemaAlterationFailed" =>
        \/ /\ lastAlter.unique \notin {"none", attribute.unique}
           /\ UniquenessConflict(datoms)
        \/ /\ attribute.multival /\ ~lastAlter.multival
           /\ CardinalityConflict(datoms)

(***************************************************************************)
(* The flag columns of every row agree with the schema: index_avet with    *)
(* :index and unique_value with :unique, through installs, data            *)
(* transactions and any sequence of alterations.  A new row takes the      *)
(* flags from Attribute::flags(); an old one only gets them if mutate      *)
(* reports the alteration and update_spacetime rewrites the column, and    *)
(* the avet and unique indexes read nothing else.                          *)
(***************************************************************************)
FlagsMatchSchema ==
    attribute # Null =>
        \A r \in datoms : /\ r.index_avet = attribute.index
                          /\ r.unique_value = (attribute.unique # "none")
=============================================================================
