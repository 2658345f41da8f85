----------------------------- MODULE MC_Staging -----------------------------
(***************************************************************************)
(* The two ways the transactor stages search rows, checked in one run:     *)
(* insert_fts_searches (FulltextInterning) and the batched statements of   *)
(* resolve_avs and insert_non_fts_searches (SearchBatching).  Each         *)
(* behaviour exercises one of them (part); the other keeps its initial     *)
(* state.                                                                  *)
(***************************************************************************)
CONSTANTS Null, NonString, e1, e2, a1, v1, v2

VARIABLES part,
          fulltextValues, input, chunkNo, seen, outerSearchid, ftsSearches,
          status, failure, before,                    \* FulltextInterning
          store, searches, staged, last               \* SearchBatching

\* SQLITE_LIMIT_VARIABLE_NUMBER 13 for insert_fts_searches: chunks of two
\* terms, so a list of up to four spans chunks.
FI == INSTANCE FulltextInterning WITH Text <- {"t1", "t2"}, MaxVars <- 13,
        MaxLen <- 4, searches <- ftsSearches

\* SQLITE_LIMIT_VARIABLE_NUMBER 7 for SearchBatching: resolve_avs and
\* insert_non_fts_searches both cut chunks of one, so slices of two span
\* two chunks (and 4 * 1 and 6 * 1 stay under the limit).
SB == INSTANCE SearchBatching WITH E <- {e1, e2}, A <- {a1}, V <- {v1, v2},
        MaxVars <- 7, MaxAvs <- 2, MaxCausets <- 2

fiVars == <<fulltextValues, input, chunkNo, seen, outerSearchid, ftsSearches,
            status, failure, before>>
sbVars == <<store, searches, staged, last>>
vars == <<part, fiVars, sbVars>>

Init == part \in {"fts", "batching"} /\ FI!Init /\ SB!Init

Next ==
    \/ part = "fts" /\ FI!Next /\ UNCHANGED <<part, sbVars>>
    \/ part = "batching" /\ SB!Next /\ UNCHANGED <<part, fiVars>>

Spec == Init /\ [][Next]_vars

-----------------------------------------------------------------------------
\* FulltextInterning's type invariant.
TypeOK == FI!TypeOK

\* insert_fts_searches: every staged search row's value is the rowid of a
\* fulltext_values row holding the row's own text (see FulltextInterning).
SearchesResolveToOwnText == FI!SearchesResolveToOwnText

\* insert_fts_searches: a string is stored once in fulltext_values.
FulltextValuesInterned == FI!FulltextValuesInterned

\* insert_fts_searches with the transaction's rollback implements the atomic
\* interning of FulltextStore (see FulltextInterning).
FulltextStoreSpec == FI!FulltextStoreSpec

\* resolve_avs: the map holds exactly the asserted pairs of avs, each with
\* the e of one of its assertions (see SearchBatching).
ResolveAvsAsDocumented == SB!ResolveAvsAsDocumented

\* insert_non_fts_searches stages every causet in order and refuses only an
\* inexact batch asserting one (e, a) twice (see SearchBatching).
InsertStagesAll == SB!InsertStagesAll
=============================================================================
