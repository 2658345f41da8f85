--------------------------- MODULE SearchBatching ---------------------------
(***************************************************************************)
(* The two batched statements of einstaiStoring for SQLite (einsteindb.rs) *)
(* that bind one parameter per value: resolve_avs, which looks [a v]       *)
(* lookup-refs up in all_datoms, and insert_non_fts_searches, which stages *)
(* reduced causets in temp.exact_searches or temp.inexact_searches.        *)
(*                                                                         *)
(* Both cut their input with itertools chunks(max_vars / bindings), where  *)
(* max_vars is the connection's SQLITE_LIMIT_VARIABLE_NUMBER, and assert   *)
(* bindings * count < max_vars before preparing each chunk's statement.    *)
(* resolve_avs tags the i-th pair of the whole input with search_id        *)
(* 2000 + i and maps the (search_id, e) rows back through avs[search_id -  *)
(* 2000] into a HashMap.  Values are model values; their SQL encoding is   *)
(* ValueEncoding's subject.                                                *)
(***************************************************************************)
EXTENDS Naturals, Sequences, SequencesExt, FiniteSets

CONSTANTS
    E, A, V,      \* causetids, attributes and values
    MaxVars,      \* SQLITE_LIMIT_VARIABLE_NUMBER
    MaxAvs,       \* longest avs slice
    MaxCausets,   \* longest causets slice
    Null

ASSUME MaxVars \div 6 > 0    \* itertools refuses a chunk size of 0

AVPair == A \X V
Causet == [e : E, a : A, v : V, added : BOOLEAN]
Panic  == "TooManyValues"     \* the assert! of both functions
Failed == "NonFtsInsertionIntoTempSearchTableFailed"

\* The 0-based positions of chunk j when n items are cut into pieces of k.
NumChunks(n, k) == (n + k - 1) \div k
ChunkIndices(n, k, j) == ((j - 1) * k) .. (IF j * k < n THEN j * k ELSE n) - 1

\* assert!(bindings_per_statement * count < max_vars) on every chunk.
ChunksFit(n, bindings) ==
    LET k == MaxVars \div bindings
    IN  \A j \in 1..NumChunks(n, k) : bindings * Cardinality(ChunkIndices(n, k, j)) < MaxVars

-----------------------------------------------------------------------------
InitialSearchId == 2000

\* Mutant: the position counted within the chunk, not in the whole slice.
SearchIdInChunk(i, k) == InitialSearchId + (i % k)

\* `initial_search_id + index`, index from avs.into_iter().enumerate().
SearchId(i, k) == InitialSearchId + i

(***************************************************************************)
(* resolve_avs: the rows (search_id, d.e) of every chunk's query, joining  *)
(* t(search_id, a, v, value_type_tag) with the index_avet datoms, mapped   *)
(* back to avs[search_id - 2000] and collected into a HashMap: every map   *)
(* the collect can build, one entry per pair, keeping one of its rows.     *)
(***************************************************************************)
ResolveAvs(store, avs) ==
    LET k    == MaxVars \div 4
        rows == UNION { { <<SearchId(i, k), d[1]>> :
                            d \in {x \in store : <<x[2], x[3]>> = avs[i + 1]} } :
                        i \in 0..Len(avs) - 1 }
        kv   == { <<avs[r[1] - InitialSearchId + 1], r[2]>> : r \in rows }
        keys == {p[1] : p \in kv}
    IN  { m \in [keys -> E] : \A p \in keys : <<p, m[p]>> \in kv }

(***************************************************************************)
(* insert_non_fts_searches: each chunk is one INSERT of (e0, a0, v0,       *)
(* value_type_tag0, added0, flags0) rows.  temp.inexact_searches has the   *)
(* unique index (e0, a0) WHERE added0 = 1, so a statement that would hold  *)
(* two assertions of one (e, a) fails and is rolled back on its own; the   *)
(* call returns that error and the chunks after it are never run.          *)
(***************************************************************************)
\* Mutant: the unique index without its WHERE added0 = 1.
InexactUniqueOkAllRows(t, type) ==
    type = "exact" \/
    \A i, j \in DOMAIN t : i # j => <<t[i].e, t[i].a>> # <<t[j].e, t[j].a>>

\* temp.inexact_searches_unique on the rows of table t.
InexactUniqueOk(t, type) ==
    type = "exact" \/
    \A i, j \in DOMAIN t :
        i # j /\ t[i].added /\ t[j].added => <<t[i].e, t[i].a>> # <<t[j].e, t[j].a>>

\* The table after the chunks j.. of cs, and the call's result.
RECURSIVE InsertChunks(_, _, _, _)
InsertChunks(table, cs, type, j) ==
    LET k    == MaxVars \div 6
        rows == SubSeq(cs, (j - 1) * k + 1, IF j * k < Len(cs) THEN j * k ELSE Len(cs))
    IN  IF j > NumChunks(Len(cs), k) THEN [table |-> table, out |-> "ok"]
        ELSE IF ~InexactUniqueOk(table \o rows, type)
             THEN [table |-> table, out |-> Failed]
             ELSE InsertChunks(table \o rows, cs, type, j + 1)

-----------------------------------------------------------------------------
VARIABLES
    store,     \* the index_avet datoms [e a v] of all_datoms
    searches,  \* search type -> the rows staged in that temp table, in order
    staged,    \* the search types staged in this transaction
    last       \* the last call: its kind, input and outcome

vars == <<store, searches, staged, last>>

Init ==
    /\ store \in SUBSET (E \X A \X V)
    /\ searches = [t \in {"exact", "inexact"} |-> <<>>]
    /\ staged = {}
    /\ last = Null

\* An error or a panic ends the transaction; the transactor stops there.
Aborted == last # Null /\ last.out \in {Panic, Failed}

\* begin_tx_application: DROP and CREATE the temp search tables.
BeginTxApplication ==
    /\ searches' = [t \in {"exact", "inexact"} |-> <<>>]
    /\ staged' = {}
    /\ last' = Null
    /\ UNCHANGED store

ResolveAvsCall(avs) ==
    /\ ~Aborted
    /\ last' = IF ChunksFit(Len(avs), 4)
               THEN [call |-> "resolve", avs |-> avs, out |-> "ok", maps |-> ResolveAvs(store, avs)]
               ELSE [call |-> "resolve", avs |-> avs, out |-> Panic, maps |-> {}]
    /\ UNCHANGED <<store, searches, staged>>

\* The transactor stages each search type once per transaction.
InsertNonFtsSearches(cs, type) ==
    /\ ~Aborted
    /\ type \notin staged
    /\ LET r == InsertChunks(searches[type], cs, type, 1) IN
       IF ChunksFit(Len(cs), 6)
          THEN /\ searches' = [searches EXCEPT ![type] = r.table]
               /\ last' = [call |-> "insert", cs |-> cs, type |-> type, out |-> r.out]
          ELSE /\ last' = [call |-> "insert", cs |-> cs, type |-> type, out |-> Panic]
               /\ UNCHANGED searches
    /\ staged' = staged \cup {type}
    /\ UNCHANGED store

Next ==
    \/ BeginTxApplication
    \/ \E avs \in BoundedSeq(AVPair, MaxAvs) : ResolveAvsCall(avs)
    \/ \E cs \in BoundedSeq(Causet, MaxCausets), type \in {"exact", "inexact"} :
          InsertNonFtsSearches(cs, type)

Spec == Init /\ [][Next]_vars

-----------------------------------------------------------------------------
Asserted(S) == {<<d[2], d[3]>> : d \in S}

(***************************************************************************)
(* resolve_avs keeps the promise of its doc comment (einstaiStoring): the  *)
(* keys of the map are exactly the pairs of avs that have an assertion     *)
(* [e a v] in the store, and each maps to the e of one such assertion --   *)
(* for slices cut into several chunks, whose rows come back tagged with    *)
(* search ids from one running count.                                      *)
(***************************************************************************)
ResolveAvsAsDocumented ==
    last # Null /\ last.call = "resolve" /\ last.out # Panic =>
        /\ last.maps # {}
        /\ \A m \in last.maps :
              /\ DOMAIN m = Range(last.avs) \cap Asserted(store)
              /\ \A p \in DOMAIN m : <<m[p], p[1], p[2]>> \in store

\* No two assertions of one (e, a) among the causets.
OneAssertionPerEA(cs) ==
    \A e \in E, a \in A :
        Cardinality({i \in DOMAIN cs : cs[i].e = e /\ cs[i].a = a /\ cs[i].added}) <= 1

(***************************************************************************)
(* insert_non_fts_searches stages every causet, chunk after chunk in       *)
(* order, and refuses a call only when it is an inexact one that asserts   *)
(* one (e, a) twice -- what the transactor's cardinality-one check must    *)
(* have caught; two retractions, or an assertion and a retraction, of one *)
(* (e, a) are staged.                                                      *)
(***************************************************************************)
InsertStagesAll ==
    last # Null /\ last.call = "insert" /\ last.out # Panic =>
        /\ last.out = "ok" <=> (last.type = "exact" \/ OneAssertionPerEA(last.cs))
        /\ last.out = "ok" => searches[last.type] = last.cs

(***************************************************************************)
(* No call panics on the assert! that bounds a statement's parameters:     *)
(* the chunk size max_vars / bindings_per_statement is meant to keep every *)
(* chunk's bindings under SQLITE_LIMIT_VARIABLE_NUMBER.                    *)
(***************************************************************************)
NoTooManyValues ==
    last # Null => last.out # Panic
=============================================================================
