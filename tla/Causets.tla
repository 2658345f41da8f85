------------------------------ MODULE Causets ------------------------------
(***************************************************************************)
(* Shared vocabulary of the transactor: datom triples, the elementary      *)
(* add/retract terms a reduced transaction consists of, and the batch-level *)
(* checks of the Constraint Validator (spec.md 4.4) that every batch passes *)
(* before it reaches the Storage Adapter.                                  *)
(***************************************************************************)
EXTENDS Naturals, FiniteSets, FiniteSetsExt

CONSTANTS
    Entity,           \* causetids used as entities
    Attr,             \* attribute causetids
    Value,            \* typed values (one value type; tags are not told apart)
    CardOne,          \* attributes declared :cardinality/one
    UniqueValueAttr,  \* attributes whose datoms carry the unique_value flag
    MaxTerms          \* largest number of terms in one transaction

ASSUME CardOne \subseteq Attr /\ UniqueValueAttr \subseteq Attr
ASSUME MaxTerms \in Nat \ {0}

\* A row of the datoms table, identified by its (e, a, v) (index eavt is unique).
Datom == Entity \X Attr \X Value

\* A reduced term (e, a, attribute, typed_value, added) as passed to the storage
\* layer.
Term == [e : Entity, a : Attr, v : Value, added : BOOLEAN]

Triple(t) == <<t.e, t.a, t.v>>

\* The transactor treats its input as a set: repeated terms are unified.
Batches == UNION {kSubset(k, Term) : k \in 1..MaxTerms}

\* CardinalityOneAddConflict: two distinct values asserted for one
\* (entity, cardinality-one attribute).
CardinalityOneAddConflict(b) ==
    \E t1, t2 \in b : /\ t1.added /\ t2.added
                      /\ t1.e = t2.e /\ t1.a = t2.a /\ t1.a \in CardOne
                      /\ t1.v # t2.v

\* AddRetractConflict: the same triple both asserted and retracted.
AddRetractConflict(b) ==
    \E t1, t2 \in b : t1.added /\ ~t2.added /\ Triple(t1) = Triple(t2)

Valid(b) == ~CardinalityOneAddConflict(b) /\ ~AddRetractConflict(b)

\* The partial index idx_datoms_unique_value on (a, value_type_tag, v).
UniqueValueHolds(D) ==
    \A d1, d2 \in D : d1[2] \in UniqueValueAttr /\ d1[2] = d2[2] /\ d1[3] = d2[3]
                        => d1 = d2
=============================================================================
