--------------------------- MODULE RecordDecoding ---------------------------
(***************************************************************************)
(* The v1-compatible transfer of causet_record column payloads             *)
(* (src/src/causet_closed_timeline.rs): decode_causet_record_u64/i64 read a *)
(* little-endian integer of 1, 2, 4 or 8 bytes, and                        *)
(* write_causet_record_as_datum picks a datum flag and a decoding from the *)
(* column's field type.  A written datum is modelled as a record of its    *)
(* flag and its payload; the flag bytes themselves are left abstract.      *)
(*                                                                         *)
(* The record encoder that produced the payload is not in this repository. *)
(* RecordEncoding below is the reference it is checked against: an integer *)
(* is stored in the narrowest of 1, 2, 4, 8 bytes that holds it, two's     *)
(* complement for a signed column.                                         *)
(***************************************************************************)
EXTENDS Integers, Sequences, SequencesExt

CONSTANTS
    Records,      \* raw payloads fed to the transfer, byte sequences
    IntSample,    \* column values stored through RecordEncoding
    MaxWidth,     \* widest encoding enumerated (TLC integers stop at 2^31)
    Null,
    InvalidDataType  \* Error::InvalidDataType

Byte == 0..255

ASSUME Records \subseteq Seq(Byte)
ASSUME IntSample \subseteq Int /\ Null \notin Int /\ InvalidDataType \notin Int
ASSUME MaxWidth \in {1, 2}

\* FieldTypeTp, grouped by the arm of the match that handles it.
IntTypes      == {"Tiny", "Short", "Int24", "Long", "LongLong"}
FloatTypes    == {"Float", "Double"}
BytesTypes    == {"VarChar", "VarString", "String", "TinyBlob", "MediumBlob",
                  "LongBlob", "Blob"}
UnsignedTypes == {"Date", "DateTime", "Timestamp", "Enum", "Bit", "Set"}
FieldTypes    == IntTypes \cup FloatTypes \cup BytesTypes \cup UnsignedTypes
                   \cup {"Year", "Duration", "NewDecimal", "JSON", "Null",
                         "Geometry"}

(***************************************************************************)
(* NumberCodec::decode_u*_le: the bytes as an unsigned little-endian       *)
(* number.                                                                 *)
(***************************************************************************)
DecodeLe(v) == FoldRight(LAMBDA b, acc : b + 256 * acc, v, 0)

\* `x as iW` for an unsigned W-bit x: the two's complement reading.
AsSigned(x, w) == IF x >= 2^(w - 1) THEN x - 2^w ELSE x

DecodeCausetRecordU64(v) ==
    IF Len(v) \in {1, 2, 4, 8} THEN DecodeLe(v) ELSE InvalidDataType

\* Mutant: the `as i8`/`as i16` casts dropped (zero- instead of sign-extension).
DecodeCausetRecordI64NoCast(v) ==
    IF Len(v) \in {1, 2, 4, 8} THEN DecodeLe(v) ELSE InvalidDataType

DecodeCausetRecordI64(v) ==
    IF Len(v) \in {1, 2, 4, 8} THEN AsSigned(DecodeLe(v), 8 * Len(v))
                               ELSE InvalidDataType

\* Mutant: the `?` dropped, so the decode error is written as a payload.
DatumOfNoErrorCheck(flag, n) == [flag |-> flag, val |-> n]

\* write_datum_u64 / write_datum_i64 / the duration arm, after the `?`.
DatumOf(flag, n) ==
    IF n = InvalidDataType THEN InvalidDataType ELSE [flag |-> flag, val |-> n]

(***************************************************************************)
(* write_causet_record_as_datum(src, ft): the datum written for payload    *)
(* src of a column of type ft, or the error it returns.                    *)
(***************************************************************************)
WriteCausetRecordAsDatum(src, ft, unsigned) ==
    CASE ft \in IntTypes /\ unsigned -> DatumOf("Uint", DecodeCausetRecordU64(src))
      [] ft \in IntTypes /\ ~unsigned -> DatumOf("Int", DecodeCausetRecordI64(src))
      [] ft \in FloatTypes         -> [flag |-> "Float", val |-> src]
      [] ft \in BytesTypes         -> [flag |-> "CompactBytes", val |-> src]
      [] ft \in UnsignedTypes      -> DatumOf("Uint", DecodeCausetRecordU64(src))
      [] ft = "Year"               -> DatumOf("Int", DecodeCausetRecordI64(src))
      [] ft = "Duration"           -> DatumOf("Duration", DecodeCausetRecordI64(src))
      [] ft = "NewDecimal"         -> [flag |-> "Decimal", val |-> src]
      [] ft = "JSON"               -> [flag |-> "Json", val |-> src]
      [] ft = "Null"               -> [flag |-> "Nil", val |-> Null]
      [] OTHER                     -> InvalidDataType

(***************************************************************************)
(* Reference: the record encoder's view of a column.  Date-like columns    *)
(* are packed unsigned, Year and Duration signed, integer columns follow   *)
(* their unsigned flag.                                                    *)
(***************************************************************************)
StoredUnsigned(ft, unsigned) ==
    ft \in UnsignedTypes \/ (ft \in IntTypes /\ unsigned)

NumericTypes == IntTypes \cup UnsignedTypes \cup {"Year", "Duration"}

Fits(n, signed, k) ==
    IF signed THEN -(2^(8*k - 1)) <= n /\ n < 2^(8*k - 1)
              ELSE 0 <= n /\ n < 2^(8*k)

\* The narrowest width, tried in order.
Width(n, signed) ==
    CASE Fits(n, signed, 1) -> 1
      [] Fits(n, signed, 2) -> 2
      [] Fits(n, signed, 4) -> 4
      [] OTHER              -> 8

RecordEncoding(n, signed) ==
    LET k == Width(n, signed)
        u == IF n < 0 THEN n + 2^(8*k) ELSE n
    IN  [i \in 1..k |-> (u \div 2^(8*(i - 1))) % 256]

\* One transfer: a payload, the column's type and flag, and the integer the
\* payload encodes when it came from RecordEncoding (Null for a raw one).
EncodedColumns ==
    {c \in IntSample \X NumericTypes \X BOOLEAN :
        Fits(c[1], ~StoredUnsigned(c[2], c[3]), MaxWidth)}

Inputs ==
    { [src |-> RecordEncoding(c[1], ~StoredUnsigned(c[2], c[3])), ft |-> c[2],
       unsigned |-> c[3], value |-> c[1]] : c \in EncodedColumns }
      \cup
    { [src |-> s, ft |-> ft, unsigned |-> u, value |-> Null] :
          s \in Records, ft \in FieldTypes, u \in BOOLEAN }

VARIABLES input, out

vars == <<input, out>>

Init == input = Null /\ out = Null

Transfer(in) ==
    /\ input' = in
    /\ out' = WriteCausetRecordAsDatum(in.src, in.ft, in.unsigned)

Next == \E in \in Inputs : Transfer(in)

Spec == Init /\ [][Next]_vars

-----------------------------------------------------------------------------
TypeOK ==
    /\ input \in Inputs \cup {Null}
    /\ \/ out \in {Null, InvalidDataType}
       \/ out.flag \in {"Int", "Uint", "Duration"} /\ out.val \in Int
       \/ out.flag \in {"Float", "CompactBytes", "Decimal", "Json"} /\ out.val \in Seq(Byte)
       \/ out.flag = "Nil" /\ out.val = Null

(***************************************************************************)
(* A column value written by the record encoder comes out of               *)
(* write_causet_record_as_datum as the same number, under the flag of its  *)
(* signedness, whatever its width and sign: the u64/i64 choice of the      *)
(* match, the `as i8`/`as i16` casts and the byte order together.          *)
(***************************************************************************)
IntegerColumnsRoundTrip ==
    input # Null /\ input.value # Null =>
        /\ out # InvalidDataType
        /\ out.val = input.value
        /\ out.flag \in (IF StoredUnsigned(input.ft, input.unsigned)
                          THEN {"Uint"} ELSE {"Int", "Duration"})
=============================================================================
