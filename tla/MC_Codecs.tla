------------------------------ MODULE MC_Codecs ------------------------------
(***************************************************************************)
(* The two value codecs checked in one run: each behaviour exercises one   *)
(* of them (part), the other keeps its initial state.                      *)
(***************************************************************************)
EXTENDS Integers

CONSTANTS Null, InvalidDataType, d1, NaN

VARIABLES part,
          value, row, fromRow, eml, fromEml,   \* ValueEncoding
          rdInput, rdOut                       \* RecordDecoding

MC_Char == {":", "/", "a"}
\* Every text of up to 4 characters: includes ":a/a", the text of the
\* keyword :a/a, and the malformed ones.
MC_Strings == UNION {[1..n -> MC_Char] : n \in 0..4}
MC_Names == {<<"a">>, <<"a", "a">>}
MC_Uuids == {[i \in 1..16 |-> 0], [i \in 1..16 |-> 255]}
\* Instants in half microseconds, whole and half ones on both sides of 1970;
\* the range holds the floor of each of them.
MC_Instants == -4..1
\* i64 payloads around zero, both signs; the same numbers as the instants,
\* so that an instant read as an integer is still a Long of the model.
MC_Longs == MC_Instants

\* Every width-1 and width-2 boundary, both signs.
MC_IntSample == {-32768, -129, -128, -1, 0, 1, 127, 128, 255, 256, 32767,
                 32768, 65535}
\* Raw payloads: bytes at the sign and carry boundaries in widths 1 and 2,
\* and lengths the decoders refuse.
MC_Bytes == {0, 1, 127, 128, 255}
MC_Records == {<<b>> : b \in MC_Bytes}
                \cup {<<lo, hi>> : lo \in MC_Bytes, hi \in MC_Bytes}
                \cup {<<>>, <<0, 0, 0>>, <<255, 255, 255>>}

VE == INSTANCE ValueEncoding WITH Refs <- {0, 1}, Longs <- MC_Longs,
        Instants <- MC_Instants, SubMicros <- 2, Doubles <- {d1, NaN}, Char <- MC_Char,
        Strings <- MC_Strings, Names <- MC_Names, Uuids <- MC_Uuids
RD == INSTANCE RecordDecoding WITH Records <- MC_Records,
        IntSample <- MC_IntSample, MaxWidth <- 2, input <- rdInput, out <- rdOut

vars == <<part, value, row, fromRow, eml, fromEml, rdInput, rdOut>>

Init == part \in {"value", "record"} /\ VE!Init /\ RD!Init

Next ==
    \/ part = "value" /\ VE!Next /\ UNCHANGED <<part, rdInput, rdOut>>
    \/ part = "record" /\ RD!Next /\ UNCHANGED <<part, value, row, fromRow, eml, fromEml>>

Spec == Init /\ [][Next]_vars

-----------------------------------------------------------------------------
\* Both codecs' type invariants.
TypeOK == VE!TypeOK /\ RD!TypeOK

\* ValueEncoding: every typed value survives to_sql_value_pair followed by
\* from_sql_value_pair (see ValueEncoding).
SqlRoundTrip == VE!SqlRoundTrip

\* ValueEncoding: an instant reads back floored to its microsecond.
InstantsReadBackFloored == VE!InstantsReadBackFloored

\* ValueEncoding: the EinsteinML pair loses nothing but a Ref's type.
EmlLosesOnlyRefs == VE!EmlLosesOnlyRefs

\* RecordDecoding: integer columns decode to the value they encode.
IntegerColumnsRoundTrip == RD!IntegerColumnsRoundTrip
=============================================================================
