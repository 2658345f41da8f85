--------------------------- MODULE FulltextStore ----------------------------
(***************************************************************************)
(* What insert_fts_searches promises the transactor (spec.md 4.5 and 8),   *)
(* with the chunks, searchids and triggers of FulltextInterning left out:  *)
(* a call either fails and changes nothing, or in one step interns every   *)
(* string of its terms -- a string keeps the rowid it already has, a new   *)
(* one gets a rowid no other string has -- and stages, for each term in    *)
(* order, the rowid of its own string.                                     *)
(***************************************************************************)
EXTENDS Naturals, Sequences, SequencesExt

CONSTANTS Text,      \* the strings
          Term,      \* the values a full-text term may carry, strings among them
          RowIds     \* rowids fulltext_values may give a string

VARIABLES values,    \* the interned strings: string -> rowid
          input,     \* the terms of the running or the last call
          busy,      \* a call is running
          staged     \* the rowids the last call's search rows store, in order

vars == <<values, input, busy, staged>>

Init == values = <<>> /\ input = <<>> /\ busy = FALSE /\ staged = <<>>

\* A transaction hands a list of full-text terms to storage.
Begin ==
    /\ ~busy
    /\ busy' = TRUE /\ input' \in Seq(Term) /\ staged' = <<>>
    /\ UNCHANGED values

\* Every term is a string: all are interned and staged at once.
Commit ==
    /\ busy
    /\ Range(input) \subseteq Text
    /\ values' \in {v \in [DOMAIN values \cup Range(input) -> RowIds] :
                      /\ \A t \in DOMAIN values : v[t] = values[t]
                      /\ IsInjective(v)}
    /\ staged' = [i \in DOMAIN input |-> values'[input[i]]]
    /\ busy' = FALSE
    /\ UNCHANGED input

\* The call fails: nothing it did remains.
Abort ==
    /\ busy
    /\ busy' = FALSE /\ staged' = <<>>
    /\ UNCHANGED <<values, input>>

Next == Begin \/ Commit \/ Abort

Spec == Init /\ [][Next]_vars
=============================================================================
