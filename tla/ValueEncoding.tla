--------------------------- MODULE ValueEncoding ---------------------------
(***************************************************************************)
(* The TypedSQLValue conversions of einsteindb.rs: a TypedValue to and     *)
(* from the (SQLite value, value_type_tag) pair stored in the v and        *)
(* value_type_tag columns, and to and from an EML value.                   *)
(*                                                                         *)
(* A SQLite value is a record of its storage class and its payload.  Text  *)
(* is a sequence of characters over a small alphabet that contains the two *)
(* keyword separators, so that a string can spell a keyword.  An Instant  *)
(* is a count of ticks of 1/SubMicros microsecond, finer than what         *)
(* to_micros keeps.  NaN is one of the Doubles: SQLite binds a NaN double  *)
(* as NULL.                                                                *)
(***************************************************************************)
EXTENDS Integers, Sequences, FiniteSets, SequencesExt

CONSTANTS
    Refs, Longs,             \* i64 payloads
    Instants,                \* instants, in ticks of 1/SubMicros microsecond
    SubMicros,               \* ticks per microsecond
    Doubles,                 \* model values standing for f64s
    NaN,                     \* the one of them that is a NaN
    Char,                    \* text alphabet, contains ":" and "/"
    Strings,                 \* texts of String values
    Names,                   \* non-empty separator-free texts
    Uuids,                   \* 16-byte sequences
    Null

ASSUME {":", "/"} \subseteq Char
ASSUME NaN \in Doubles /\ SubMicros \in Nat \ {0}
ASSUME Strings \subseteq Seq(Char)
ASSUME \A n \in Names : n # <<>> /\ \A i \in DOMAIN n : n[i] \notin {":", "/"}

TypeName == {"Ref", "Boolean", "Instant", "Long", "Double", "String",
             "Uuid", "Keyword"}

Keywords == [ns : Names, name : Names]

Payload(t) ==
    CASE t = "Ref"     -> Refs     [] t = "Boolean" -> BOOLEAN
      [] t = "Instant" -> Instants [] t = "Long"    -> Longs
      [] t = "Double"  -> Doubles  [] t = "String"  -> Strings
      [] t = "Uuid"    -> Uuids    [] t = "Keyword" -> Keywords

TypedValue == UNION {[type : {t}, x : Payload(t)] : t \in TypeName}

TV(t, x) == [type |-> t, x |-> x]
Sql(c, x) == [class |-> c, x |-> x]
Eml(k, x) == [kind |-> k, x |-> x]

BadSQLValuePair == [error |-> "BadSQLValuePair"]
BadKeyword      == [error |-> "NotANamespacedKeyword"]
\* The insert of a NULL v0 refused by SQLite.
NotNullConstraint == [error |-> "NOT NULL constraint failed"]

(***************************************************************************)
(* Keyword's Display (":ns/name") and to_namespaced_keyword, which splits  *)
(* on ':' and '/' and accepts exactly ("", ns, name) with both parts       *)
(* non-empty.                                                              *)
(***************************************************************************)
\* Mutant: Display without the leading colon.
KeywordTextNoColon(k) == k.ns \o <<"/">> \o k.name

KeywordText(k) == <<":">> \o k.ns \o <<"/">> \o k.name

Separators(t) == {i \in DOMAIN t : t[i] \in {":", "/"}}

\* Mutant: the name taken from the separator on, not after it.
ToNamespacedKeywordKeepSlash(t) ==
    LET sep == Separators(t)
        p   == IF Cardinality(sep) = 2 THEN Max(sep) ELSE 0
    IN  IF /\ Cardinality(sep) = 2 /\ 1 \in sep
           /\ 2 < p /\ p < Len(t)
        THEN TV("Keyword", [ns |-> SubSeq(t, 2, p - 1), name |-> SubSeq(t, p, Len(t))])
        ELSE BadKeyword

ToNamespacedKeyword(t) ==
    LET sep == Separators(t)
        p   == IF Cardinality(sep) = 2 THEN Max(sep) ELSE 0
    IN  IF /\ Cardinality(sep) = 2 /\ 1 \in sep
           /\ 2 < p /\ p < Len(t)
        THEN TV("Keyword", [ns |-> SubSeq(t, 2, p - 1), name |-> SubSeq(t, p + 1, Len(t))])
        ELSE BadKeyword

(***************************************************************************)
(* chrono's to_micros: timestamp() * 10^6 + timestamp_subsec_micros(), the *)
(* floor of the instant in microseconds, before 1970 as after; from_micros *)
(* its inverse on whole microseconds.                                      *)
(***************************************************************************)
\* Mutant: the instant rounded to the nearest microsecond.
ToMicrosRounded(x) == (x + SubMicros \div 2) \div SubMicros

ToMicros(x) == x \div SubMicros

FromMicros(m) == m * SubMicros

(***************************************************************************)
(* to_sql_value_pair                                                        *)
(***************************************************************************)
ToSqlValuePair(v) ==
    CASE v.type = "Ref"     -> <<Sql("Integer", v.x), 0>>
      [] v.type = "Boolean" -> <<Sql("Integer", IF v.x THEN 1 ELSE 0), 1>>
      [] v.type = "Instant" -> <<Sql("Integer", ToMicros(v.x)), 4>>
      [] v.type = "Long"    -> <<Sql("Integer", v.x), 5>>
      [] v.type = "Double"  -> <<Sql("Real", v.x), 5>>
      [] v.type = "String"  -> <<Sql("Text", v.x), 10>>
      [] v.type = "Uuid"    -> <<Sql("Blob", v.x), 11>>
      [] v.type = "Keyword" -> <<Sql("Text", KeywordText(v.x)), 13>>

(***************************************************************************)
(* from_sql_value_pair: the match on (tag, storage class); any other pair  *)
(* is BadSQLValuePair, and so is a blob that is not 16 bytes.              *)
(***************************************************************************)
FromSqlValuePair(val, tag) ==
    CASE tag = 0 /\ val.class = "Integer"  -> TV("Ref", val.x)
      [] tag = 1 /\ val.class = "Integer"  -> TV("Boolean", val.x # 0)
      [] tag = 4 /\ val.class = "Integer"  -> TV("Instant", FromMicros(val.x))
      [] tag = 5 /\ val.class = "Integer"  -> TV("Long", val.x)
      [] tag = 5 /\ val.class = "Real"     -> TV("Double", val.x)
      [] tag = 10 /\ val.class = "Text"    -> TV("String", val.x)
      [] tag = 11 /\ val.class = "Blob"    ->
            IF Len(val.x) = 16 THEN TV("Uuid", val.x) ELSE BadSQLValuePair
      [] tag = 13 /\ val.class = "Text"    -> ToNamespacedKeyword(val.x)
      [] OTHER                             -> BadSQLValuePair

(***************************************************************************)
(* to_einsteinml_value_pair and from_einsteinml_value.  EML has no Ref:   *)
(* a Ref is written as an Integer, and an Integer reads back as a Long.    *)
(***************************************************************************)
\* Mutant: an Instant written as the Integer of its microseconds.
ToEinsteinmlValuePairInstantAsInteger(v) ==
    LET kind == CASE v.type \in {"Ref", "Long", "Instant"} -> "Integer"
                  [] v.type = "Double"          -> "Float"
                  [] v.type = "String"          -> "Text"
                  [] OTHER                      -> v.type
    IN  <<Eml(kind, v.x), v.type>>

ToEinsteinmlValuePair(v) ==
    LET kind == CASE v.type \in {"Ref", "Long"} -> "Integer"
                  [] v.type = "Double"          -> "Float"
                  [] v.type = "String"          -> "Text"
                  [] OTHER                      -> v.type
    IN  <<Eml(kind, v.x), v.type>>

FromEinsteinmlValue(e) ==
    CASE e.kind = "Integer" -> TV("Long", e.x)
      [] e.kind = "Float"   -> TV("Double", e.x)
      [] e.kind = "Text"    -> TV("String", e.x)
      [] e.kind \in {"Boolean", "Instant", "Uuid", "Keyword"} -> TV(e.kind, e.x)
      [] OTHER              -> Null

(***************************************************************************)
(* sqlite3_bind_double stores a NaN as NULL; every other bound value keeps *)
(* its class.  The search tables' v0 column, where a transacted value is   *)
(* first inserted, is declared NOT NULL.                                   *)
(***************************************************************************)
SqliteBind(val) == IF val.class = "Real" /\ val.x = NaN THEN Sql("Null", Null) ELSE val

\* Mutant: a v0 column declared without NOT NULL.
VNullable == FALSE

VNotNull == TRUE

\* The value an insert of to_sql_value_pair(v) leaves in the row, or the
\* constraint failure that refuses it.
StoreValuePair(v) ==
    LET pair  == ToSqlValuePair(v)
        bound == SqliteBind(pair[1])
    IN  IF bound.class = "Null" /\ VNotNull THEN NotNullConstraint ELSE [val |-> bound, tag |-> pair[2]]

-----------------------------------------------------------------------------
(***************************************************************************)
(* One value's round trips.  `value` is the TypedValue a caller holds;     *)
(* `row` the v0 and value_type_tag0 its to_sql_value_pair was inserted as *)
(* (or the refusal), `fromRow` what from_sql_value_pair read back;        *)
(* `eml` and `fromEml` the same through the EML form.                     *)
(***************************************************************************)
VARIABLES value, row, fromRow, eml, fromEml

vars == <<value, row, fromRow, eml, fromEml>>

Init == value = Null /\ row = Null /\ fromRow = Null /\ eml = Null /\ fromEml = Null

\* A caller takes up a value; the earlier conversions are forgotten.
Hold(v) ==
    /\ value' = v
    /\ row' = Null /\ fromRow' = Null /\ eml' = Null /\ fromEml' = Null

ToSql ==
    /\ value # Null /\ row = Null
    /\ row' = StoreValuePair(value)
    /\ UNCHANGED <<value, fromRow, eml, fromEml>>

FromSql ==
    /\ row \notin {Null, NotNullConstraint} /\ fromRow = Null
    /\ fromRow' = FromSqlValuePair(row.val, row.tag)
    /\ UNCHANGED <<value, row, eml, fromEml>>

ToEinsteinml ==
    /\ value # Null /\ eml = Null
    /\ eml' = ToEinsteinmlValuePair(value)
    /\ UNCHANGED <<value, row, fromRow, fromEml>>

FromEinsteinml ==
    /\ eml # Null /\ fromEml = Null
    /\ fromEml' = FromEinsteinmlValue(eml[1])
    /\ UNCHANGED <<value, row, fromRow, eml>>

Next ==
    \/ \E v \in TypedValue : Hold(v)
    \/ ToSql \/ FromSql \/ ToEinsteinml \/ FromEinsteinml

Spec == Init /\ [][Next]_vars
-----------------------------------------------------------------------------
\* Membership tests field by field, the payload's set chosen by the tag.
IsTypedValue(v) == v.type \in TypeName /\ v.x \in Payload(v.type)

IsSqlValue(r) ==
    CASE r.class = "Integer" -> r.x \in Int
      [] r.class = "Real"    -> r.x \in Doubles
      [] r.class = "Text"    -> r.x \in Seq(Char)
      [] r.class = "Blob"    -> r.x \in Uuids
      [] r.class = "Null"    -> r.x = Null
      [] OTHER               -> FALSE

IsEmlValue(e) ==
    CASE e.kind \in {"Integer", "Instant"} -> e.x \in Int
      [] e.kind = "Float"   -> e.x \in Doubles
      [] e.kind = "Text"    -> e.x \in Seq(Char)
      [] e.kind \in {"Boolean", "Uuid", "Keyword"} -> e.x \in Payload(e.kind)
      [] OTHER              -> FALSE

TypeOK ==
    /\ value = Null \/ IsTypedValue(value)
    /\ row \in {Null, NotNullConstraint} \/ (IsSqlValue(row.val) /\ row.tag \in {0, 1, 4, 5, 10, 11, 13})
    /\ fromRow \in {Null, BadSQLValuePair, BadKeyword} \/ IsTypedValue(fromRow)
    /\ eml = Null \/ (IsEmlValue(eml[1]) /\ eml[2] \in TypeName)
    /\ fromEml = Null \/ IsTypedValue(fromEml)

(***************************************************************************)
(* Every TypedValue written by to_sql_value_pair is read back by           *)
(* from_sql_value_pair as itself.  Long and Double share tag 5 and String  *)
(* and Keyword share the Text class, so this needs the storage class, the  *)
(* tag and the keyword text to separate them between them; a string that   *)
(* spells a keyword stays a string.  A NaN never reaches a row: its insert *)
(* is refused, rather than read back as a BadSQLValuePair.  Instants are   *)
(* the exception, see below.                                               *)
(***************************************************************************)
SqlRoundTrip ==
    fromRow # Null /\ value.type # "Instant" => fromRow = value

(***************************************************************************)
(* An Instant comes back from the store as the whole microsecond at or     *)
(* before it: to_micros drops the sub-microsecond part, towards the past   *)
(* also for instants before 1970, and never moves an instant forward.      *)
(***************************************************************************)
InstantsReadBackFloored ==
    fromRow # Null /\ value.type = "Instant" =>
        /\ fromRow.type = "Instant"
        /\ fromRow.x <= value.x /\ value.x < fromRow.x + SubMicros

(***************************************************************************)
(* The EML round trip from_einsteinml_value(to_einsteinml_value_pair(v).0) *)
(* loses information, as its doc comment warns, but only for Ref, which    *)
(* comes back as the Long of the same number; the ValueType half of the    *)
(* pair always names v's type.                                             *)
(***************************************************************************)
EmlLosesOnlyRefs ==
    /\ eml # Null => eml[2] = value.type
    /\ fromEml # Null =>
         fromEml = IF value.type = "Ref" THEN TV("Long", value.x) ELSE value
=============================================================================
