------------------------- MODULE FulltextInterning --------------------------
(***************************************************************************)
(* insert_fts_searches (einsteindb.rs): the full-text terms of a            *)
(* transaction are staged chunk by chunk.  Each new string of the call gets *)
(* a fresh searchid (outer_searchid, from 2001) and is written through     *)
(* fulltext_values_view, whose INSTEAD OF triggers either stamp the        *)
(* searchid on the existing row with that text or insert a new row.  Each  *)
(* search row then stores (SELECT rowid FROM fulltext_values WHERE         *)
(* searchid = ?) as its value.  Strings met again in the same call reuse   *)
(* the searchid remembered in `seen`, across chunks.  At the end every     *)
(* searchid is set back to NULL.  Any error aborts the SQLite transaction. *)
(***************************************************************************)
EXTENDS Naturals, Sequences, SequencesExt, FiniteSets

CONSTANTS Text,       \* the strings
          NonString,  \* a value of another type asserted on the attribute
          Null,       \* SQL NULL
          MaxVars,    \* SQLITE_LIMIT_VARIABLE_NUMBER
          MaxLen      \* longest list of full-text terms in one call

ASSUME MaxVars \in Nat /\ MaxLen \in Nat \ {0}

BindingsPerStatement == 6
FirstSearchid == 2000

\* causets.into_iter().chunks(max_vars / bindings_per_statement)
ChunkSize == MaxVars \div BindingsPerStatement
ASSUME ChunkSize > 0     \* itertools refuses a chunk size of 0

Inputs == SeqOf(Text \cup {NonString}, MaxLen) \ {<<>>}

NumChunks(in) == (Len(in) + ChunkSize - 1) \div ChunkSize

Chunk(in, k) ==
    SubSeq(in, (k - 1) * ChunkSize + 1,
           IF k * ChunkSize < Len(in) THEN k * ChunkSize ELSE Len(in))

Searchid == FirstSearchid + 1 .. FirstSearchid + MaxLen
FtsRow == [text : Text, searchid : Searchid \cup {Null}]
Failure == {"none", "WrongTypeValueForFtsAssertion", "FtsInsertionFailed",
            "TooManyValues", "FtsInsertionIntoTempSearchTableFailed"}

VARIABLES fulltextValues, \* fulltext_values, the row at index i has rowid i
          input,          \* the causets of the running call
          chunkNo,        \* the chunk being staged
          seen,           \* string -> searchid, for this call
          outerSearchid,
          searches,       \* staged search rows: text asserted, v0 stored
          status,         \* "idle", "running" or "failed"
          failure,
          before          \* fulltext_values when the SQLite transaction began

vars == <<fulltextValues, input, chunkNo, seen, outerSearchid, searches,
          status, failure, before>>

-----------------------------------------------------------------------------
\* Faulty variant: seen remembers the searchid before it is incremented.
BlockStepStaleId(acc, t) ==
    IF t \in DOMAIN acc.seen
    THEN [acc EXCEPT !.block = Append(@, <<t, acc.seen[t]>>)]
    ELSE LET sid == acc.outer + 1 IN
         [seen |-> acc.seen @@ (t :> acc.outer), outer |-> sid,
          strings |-> Append(acc.strings, <<t, sid>>),
          block |-> Append(acc.block, <<t, sid>>)]

\* The block of one chunk: each string either reuses its seen searchid or
\* takes the next one, counted in string_count and remembered in seen.
BlockStep(acc, t) ==
    IF t \in DOMAIN acc.seen
    THEN [acc EXCEPT !.block = Append(@, <<t, acc.seen[t]>>)]
    ELSE LET sid == acc.outer + 1 IN
         [seen |-> acc.seen @@ (t :> sid), outer |-> sid,
          strings |-> Append(acc.strings, <<t, sid>>),
          block |-> Append(acc.block, <<t, sid>>)]

Block(c) ==
    FoldLeft(BlockStep, [seen |-> seen, outer |-> outerSearchid,
                         strings |-> <<>>, block |-> <<>>], c)

\* Faulty variant: no replace trigger, every string gets a new row.
ViewInsertNoReplace(fv, ts) == Append(fv, [text |-> ts[1], searchid |-> ts[2]])

\* INSERT INTO fulltext_values_view of one (text, searchid): the
\* replace_fulltext_searchid and insert_fulltext_searchid triggers.
ViewInsert(fv, ts) ==
    IF \E i \in DOMAIN fv : fv[i].text = ts[1]
    THEN [i \in DOMAIN fv |->
            IF fv[i].text = ts[1] THEN [fv[i] EXCEPT !.searchid = ts[2]] ELSE fv[i]]
    ELSE Append(fv, [text |-> ts[1], searchid |-> ts[2]])

\* (SELECT rowid FROM fulltext_values WHERE searchid = ?)
RowidOf(fv, sid) ==
    LET i == SelectInSeq(fv, LAMBDA r : r.searchid = sid) IN
    IF i = 0 THEN Null ELSE i

\* repeat_values asserts tuples >= 1: a chunk with no new string has no
\* VALUES to insert.
FtsValuesOk(stringCount) == stringCount >= 1

-----------------------------------------------------------------------------
Init ==
    /\ fulltextValues = <<>> /\ before = <<>>
    /\ input = <<>> /\ chunkNo = 0 /\ seen = <<>> /\ outerSearchid = FirstSearchid
    /\ searches = <<>> /\ status = "idle" /\ failure = "none"

\* A transaction stages a list of full-text terms.
Start(in) ==
    /\ status = "idle"
    /\ input' = in /\ chunkNo' = 1
    /\ seen' = <<>> /\ outerSearchid' = FirstSearchid
    /\ searches' = <<>> /\ before' = fulltextValues
    /\ status' = "running" /\ failure' = "none"
    /\ UNCHANGED fulltextValues

\* One pass of the chunks closure: the block, the fulltext_values_view
\* INSERT, the bindings assertion, and the INSERT of the search rows.
StageChunk ==
    LET c    == Chunk(input, chunkNo)
        blk  == Block(c)
        fv2  == FoldLeft(ViewInsert, fulltextValues, blk.strings)
        rows == [i \in DOMAIN blk.block |->
                   [text |-> blk.block[i][1], v0 |-> RowidOf(fv2, blk.block[i][2])]]
        fail ==
          CASE \E i \in DOMAIN c : c[i] = NonString -> "WrongTypeValueForFtsAssertion"
            [] ~FtsValuesOk(Len(blk.strings))     -> "FtsInsertionFailed"
            [] ~(BindingsPerStatement * Len(c) < MaxVars) -> "TooManyValues"
            [] \E i \in DOMAIN rows : rows[i].v0 = Null
                 -> "FtsInsertionIntoTempSearchTableFailed"
            [] OTHER -> "none"
    IN
    /\ status = "running"
    /\ chunkNo <= NumChunks(input)
    /\ IF fail = "none"
       THEN /\ fulltextValues' = fv2 /\ seen' = blk.seen
            /\ outerSearchid' = blk.outer
            /\ searches' = searches \o rows
            /\ chunkNo' = chunkNo + 1
            /\ UNCHANGED <<status, failure>>
       ELSE /\ status' = "failed" /\ failure' = fail
            /\ UNCHANGED <<fulltextValues, seen, outerSearchid, searches, chunkNo>>
    /\ UNCHANGED <<input, before>>

\* Faulty variant: the searchids are left in place.
FinishNoCleanup ==
    /\ status = "running"
    /\ chunkNo > NumChunks(input)
    /\ status' = "idle"
    /\ UNCHANGED <<fulltextValues, input, chunkNo, seen, outerSearchid, searches,
                   failure, before>>

\* After the last chunk: UPDATE fulltext_values SET searchid = NULL.
Finish ==
    /\ status = "running"
    /\ chunkNo > NumChunks(input)
    /\ fulltextValues' = [i \in DOMAIN fulltextValues |->
                            [fulltextValues[i] EXCEPT !.searchid = Null]]
    /\ status' = "idle"
    /\ UNCHANGED <<input, chunkNo, seen, outerSearchid, searches, failure, before>>

\* Faulty variant: the failed call's rows survive (its error not
\* propagated, the transaction committed).
RollbackKeepsValues ==
    /\ status = "failed"
    /\ searches' = <<>>
    /\ status' = "idle"
    /\ UNCHANGED <<fulltextValues, input, chunkNo, seen, outerSearchid, failure, before>>

\* The error reaches the caller and the SQLite transaction is rolled back.
Rollback ==
    /\ status = "failed"
    /\ fulltextValues' = before /\ searches' = <<>>
    /\ status' = "idle"
    /\ UNCHANGED <<input, chunkNo, seen, outerSearchid, failure, before>>

Next == (\E in \in Inputs : Start(in)) \/ StageChunk \/ Finish \/ Rollback

Spec == Init /\ [][Next]_vars

-----------------------------------------------------------------------------
(***************************************************************************)
(* The refinement mapping to FulltextStore.  Until a call ends, the store  *)
(* is the fulltext_values of the transaction's start; the rowid of a       *)
(* string is the index of its row; the staged rowids are the v0 of the     *)
(* search rows once the call has returned.                                 *)
(***************************************************************************)
RowidsOf(fv) ==
    [t \in {fv[i].text : i \in DOMAIN fv} |-> CHOOSE i \in DOMAIN fv : fv[i].text = t]

Store == INSTANCE FulltextStore
           WITH values <- RowidsOf(IF status = "idle" THEN fulltextValues ELSE before),
                busy   <- status # "idle",
                staged <- IF status = "idle" THEN [i \in DOMAIN searches |-> searches[i].v0]
                                             ELSE <<>>,
                Term   <- Text \cup {NonString},
                RowIds <- 1..Cardinality(Text)

TypeOK ==
    /\ fulltextValues \in Seq(FtsRow) /\ before \in Seq(FtsRow)
    /\ input \in Inputs \cup {<<>>}
    /\ chunkNo \in 0..MaxLen + 1
    /\ DOMAIN seen \subseteq Text /\ \A t \in DOMAIN seen : seen[t] \in Searchid
    /\ outerSearchid \in {FirstSearchid} \cup Searchid
    /\ searches \in Seq([text : Text, v0 : Nat \cup {Null}])
    /\ status \in {"idle", "running", "failed"} /\ failure \in Failure

\* Every staged search row stores the rowid of the fulltext_values row that
\* holds its own string, whether the string was new in its chunk, met in an
\* earlier chunk of the call (seen), or already stored by an earlier
\* transaction.  A wrong or stale searchid would point a datom at another
\* string.
SearchesResolveToOwnText ==
    \A i \in DOMAIN searches :
        /\ searches[i].v0 \in DOMAIN fulltextValues
        /\ fulltextValues[searches[i].v0].text = searches[i].text

\* spec.md 8, full-text value reuse: a string is stored once in
\* fulltext_values however many datoms and transactions assert it.
FulltextValuesInterned ==
    \A i, j \in DOMAIN fulltextValues :
        fulltextValues[i].text = fulltextValues[j].text => i = j

(***************************************************************************)
(* insert_fts_searches, with the transaction's rollback, implements        *)
(* FulltextStore: a call is all or nothing; a string keeps its rowid       *)
(* across calls and a new string gets one no other string has; every      *)
(* search row stores the rowid of its own string.  It takes the triggers,  *)
(* the per-call seen map, the searchid clean-up of every call and the      *)
(* rollback together.                                                      *)
(***************************************************************************)
FulltextStoreSpec == Store!Spec

\* A list of full-text terms is refused only when one of its values is not
\* a string (WrongTypeValueForFtsAssertion); spec.md 4.5 has every string
\* interned and staged.
OnlyNonStringsRefused ==
    status = "failed" => failure = "WrongTypeValueForFtsAssertion"
=============================================================================
