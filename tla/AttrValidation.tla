--------------------------- MODULE AttrValidation ---------------------------
(***************************************************************************)
(* Schema validation (causetx.rs): AttrValidation::validate checks one     *)
(* attribute's declaration rule by rule and bails with the first rule it   *)
(* breaks; validate_Attr_map walks the attribute map, a HashMap in no      *)
(* fixed order, and returns the first error through `?`, naming the        *)
(* attribute by its ident or, without one, by its causetid.                *)
(*                                                                         *)
(* The unit tests of causetx.rs build a schema with add_Attr and validate  *)
(* it; they are replayed as scripts, next to a run over every map of two   *)
(* attributes.  The error message is abstracted to the rule and the name.  *)
(***************************************************************************)
EXTENDS Naturals, Sequences

CONSTANT Null

ValueType  == {"Boolean", "Long", "Ref", "String"}
UniqueKind == {"none", "value", "identity"}

Attr == [value_type : ValueType, multival : BOOLEAN, unique : UniqueKind,
         index : BOOLEAN, fulltext : BOOLEAN, component : BOOLEAN,
         no_history : BOOLEAN]

\* The rules, in the order validate checks them.
Rules == <<"UniqueValueNoIndex", "UniqueIdentityNoIndex", "FulltextNotString",
           "FulltextNoIndex", "ComponentNotRef">>

\* The attribute invariants of spec.md (section 3, Attribute): the rule r,
\* stated on its own, is broken by at.
Broken(r, at) ==
    CASE r = "UniqueValueNoIndex"    -> at.unique = "value" /\ ~at.index
      [] r = "UniqueIdentityNoIndex" -> at.unique = "identity" /\ ~at.index
      [] r = "FulltextNotString"     -> at.fulltext /\ at.value_type # "String"
      [] r = "FulltextNoIndex"       -> at.fulltext /\ ~at.index
      [] r = "ComponentNotRef"       -> at.component /\ at.value_type # "Ref"

\* Faulty variant: validate without its isComponent rule.
ValidateNoComponent(at) ==
    CASE at.unique = "value" /\ ~at.index       -> "UniqueValueNoIndex"
      [] at.unique = "identity" /\ ~at.index    -> "UniqueIdentityNoIndex"
      [] at.fulltext /\ at.value_type # "String" -> "FulltextNotString"
      [] at.fulltext /\ ~at.index               -> "FulltextNoIndex"
      [] OTHER                                  -> "ok"

\* AttrValidation::validate: the rule of the first bail!, or "ok".
Validate(at) ==
    CASE at.unique = "value" /\ ~at.index       -> "UniqueValueNoIndex"
      [] at.unique = "identity" /\ ~at.index    -> "UniqueIdentityNoIndex"
      [] at.fulltext /\ at.value_type # "String" -> "FulltextNotString"
      [] at.fulltext /\ ~at.index               -> "FulltextNoIndex"
      [] at.component /\ at.value_type # "Ref"  -> "ComponentNotRef"
      [] OTHER                                  -> "ok"

\* add_Attr's Attr literals: the fields every test leaves false.
A(vt, ix, ft, u, comp) ==
    [value_type |-> vt, multival |-> FALSE, unique |-> u, index |-> ix,
     fulltext |-> ft, component |-> comp, no_history |-> FALSE]

Err(rule, name) == [rule |-> rule, name |-> name]
Ok == Err("ok", Null)

\* The tests: the add_Attr calls (causetid, ident, attribute) and the
\* result validate_Attr_map must give.
Tests == [
  success |-> [adds |-> <<
      <<97, ":foo/bar", A("Boolean", FALSE, FALSE, "none", FALSE)>>,
      <<98, ":foo/baz", A("Long", TRUE, FALSE, "value", FALSE)>>,
      <<99, ":foo/bat", A("Ref", TRUE, FALSE, "identity", FALSE)>>,
      <<100, ":foo/bak", A("Ref", FALSE, FALSE, "none", TRUE)>>,
      <<101, ":foo/bap", A("String", TRUE, TRUE, "none", FALSE)>> >>,
    expect |-> Ok],
  unique_value |-> [adds |-> <<<<99, ":foo/bar", A("Boolean", FALSE, FALSE, "value", FALSE)>>>>,
    expect |-> Err("UniqueValueNoIndex", [ident |-> ":foo/bar"])],
  unique_identity |-> [adds |-> <<<<99, ":foo/bar", A("Long", FALSE, FALSE, "identity", FALSE)>>>>,
    expect |-> Err("UniqueIdentityNoIndex", [ident |-> ":foo/bar"])],
  component |-> [adds |-> <<<<99, ":foo/bar", A("Boolean", FALSE, FALSE, "none", TRUE)>>>>,
    expect |-> Err("ComponentNotRef", [ident |-> ":foo/bar"])],
  fulltext_index |-> [adds |-> <<<<99, ":foo/bar", A("String", FALSE, TRUE, "none", FALSE)>>>>,
    expect |-> Err("FulltextNoIndex", [ident |-> ":foo/bar"])],
  fulltext_string |-> [adds |-> <<<<99, ":foo/bar", A("Long", TRUE, TRUE, "none", FALSE)>>>>,
    expect |-> Err("FulltextNotString", [ident |-> ":foo/bar"])] ]

Free == "any"

-----------------------------------------------------------------------------
VARIABLES
    test,       \* the test being replayed, or Free
    step,       \* the next add_Attr call of the test
    attrMap,    \* Schema.Attr_map: causetid -> Attr
    causetidMap,\* Schema.CausetID_map: causetid -> ident
    pending,    \* the causetids validate_Attr_map has still to visit, or Null
    result      \* Null until validate_Attr_map returns: Ok or an Err

vars == <<test, step, attrMap, causetidMap, pending, result>>

\* HashMap::insert: the new entry, or a new value for the key.
Insert(m, k, x) == [y \in DOMAIN m \cup {k} |-> IF y = k THEN x ELSE m[y]]

\* Faulty variant: the error names the causetid even when it has an ident.
IdentOfCausetid(c) == [causetid |-> c]

\* The ident closure of validate_Attr_map: the ident, else the causetid.
IdentOf(c) == IF c \in DOMAIN causetidMap THEN [ident |-> causetidMap[c]] ELSE [causetid |-> c]

Init ==
    \/ /\ test \in DOMAIN Tests
       /\ attrMap = <<>> /\ causetidMap = <<>>
    \* Any map of two attributes, without idents (no_history and
    \* multival are read by no rule and stay false).
    \/ /\ test = Free
       /\ attrMap \in [{97, 98} -> {at \in Attr : ~at.multival /\ ~at.no_history}]
       /\ causetidMap = <<>>
    /\ step = 1
    /\ pending = Null
    /\ result = Null

\* add_Attr: the ident in both maps, the attribute in Attr_map.
AddAttr ==
    /\ test # Free
    /\ step <= Len(Tests[test].adds)
    /\ LET a == Tests[test].adds[step] IN
       /\ attrMap' = Insert(attrMap, a[1], a[3])
       /\ causetidMap' = Insert(causetidMap, a[1], a[2])
    /\ step' = step + 1
    /\ UNCHANGED <<test, pending, result>>

\* validate_Attr_map starts its `for` over the map.
ValidateAttrMap ==
    /\ IF test = Free THEN TRUE ELSE step > Len(Tests[test].adds)
    /\ pending = Null
    /\ pending' = DOMAIN attrMap
    /\ UNCHANGED <<test, step, attrMap, causetidMap, result>>

\* One iteration, on whichever entry the HashMap yields next: `?` returns
\* the first error; the loop ends in Ok(()) after the last entry.
ValidateEntry(c) ==
    /\ result = Null
    /\ LET r == Validate(attrMap[c]) IN
       IF r # "ok"
          THEN result' = Err(r, IdentOf(c)) /\ pending' = {}
          ELSE /\ pending' = pending \ {c}
               /\ result' = IF pending' = {} THEN Ok ELSE Null
    /\ UNCHANGED <<test, step, attrMap, causetidMap>>

Next ==
    \/ AddAttr
    \/ ValidateAttrMap
    \/ \E c \in IF pending = Null THEN {} ELSE pending : ValidateEntry(c)

Spec == Init /\ [][Next]_vars

-----------------------------------------------------------------------------
(***************************************************************************)
(* validate_Attr_map accepts a schema exactly when every attribute keeps   *)
(* the invariants of spec.md, and when it refuses one the error names an  *)
(* attribute of the map and a rule that attribute breaks -- in whatever    *)
(* order the HashMap yields the attributes, and whichever of several       *)
(* broken rules validate reaches first.                                    *)
(***************************************************************************)
ValidationAsSpecified ==
    result # Null =>
        IF result = Ok
        THEN \A c \in DOMAIN attrMap, i \in DOMAIN Rules : ~Broken(Rules[i], attrMap[c])
        ELSE \E c \in DOMAIN attrMap :
                /\ IdentOf(c) = result.name
                /\ Broken(result.rule, attrMap[c])

(***************************************************************************)
(* Every validation test of causetx.rs gets the result it asserts,         *)
(* invalid_schema_fulltext_index_not_string included (it has no #[test]    *)
(* attribute, so cargo never runs it).                                     *)
(***************************************************************************)
ValidationTestsPass ==
    test # Free /\ result # Null => result = Tests[test].expect
=============================================================================
