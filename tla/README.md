# TLA+ models of the einsteindb transactor

This directory holds TLA+ models of the transaction core in `src/einsteindb`. The core takes a
reduced batch of add/retract terms and applies it to a SQLite fact store. It also changes the
schema that the batch is interpreted under. Each module below is translated from the Rust and SQL
of the repository. `PROJECT.json` maps every definition to the lines it models.

## The system

| Part | Code | State | Operations |
|---|---|---|---|
| Storage pipeline | `einsteindb.rs` 541-1018 | `datoms`, `timelined_transactions`, temp tables `exact_searches`, `inexact_searches`, `search_results` | `begin_tx_application`, `insert_non_fts_searches`, `insert_fts_searches`, `search`, `update_datoms` (materialize), `insert_transaction` (commit), `resolve_avs` |
| Schema registry | `causetx.rs` 92-345 | the attribute map | `validate`, `AttrBuilder` setters, `to_modify_Attr`, `validate_install_Attr`, `validate_alter_Attr`, `build`, `mutate` |
| Metadata synchronizer | `einsteindb.rs` 1091-1183 | `idents` and `schema` views, the `index_avet` and `unique_value` columns of datoms | `update_spacetime` |
| Full-text interning | `einsteindb.rs` 895-1007 | `fulltext_values`, the per-call `seen` map | `insert_fts_searches` |
| Partition allocator | `einsteindb.rs` 286-345, 464-535, 1185-1202 | the partition map, `known_parts`, the `parts` view | `allocate_causetids` |
| Value encoding | `einsteindb.rs` 371-450 | none | `to_sql_value_pair`, `from_sql_value_pair` |
| Store opening | `einsteindb.rs` 85-362 | the file's key, tables and `user_version` | `make_connection`, `change_encryption_key`, `ensure_current_version`, `create_current_version` |
| Idents and type checking | `causetx.rs` 292-345, `einsteindb.rs` 1091-1110 | the `idents` view, the connection's `Schema` | `read_ident_map`, `from_ident_map_and_Attr_map`, `to_typed_value` |
| Closed-timeline decoding | `src/src/causet_closed_timeline.rs` 65-108 | none | `collect_ordered_txs_to_move`, `decode_causet_record_*` |

The parts interact as follows. The transactor (outside `src/`) validates a batch. It then drives
the storage pipeline inside one SQLite transaction, in this order: begin, stage the searches,
materialize, commit. If the batch changed the schema, the transactor then calls `update_spacetime`.
That call rewrites the flag columns of the attribute's existing rows, or refuses the alteration.
New rows take their flags from the attribute as it is now (`flags0`, expanded by `update_datoms`).
Any error anywhere rolls the whole SQLite transaction back. There is a single writer, so
transactions do not interleave. What is hard is the multi-step SQL. A few statements must together
implement set semantics. Their unique indexes are the only guard against corrupt data. Some
outcomes depend on what earlier transactions and alterations left in the table.

## Modules

Components, one module each:

- `Causets`: the shared vocabulary.
  - datom triples, reduced terms, batches;
  - the Constraint Validator's batch checks: `CardinalityOneAddConflict` and
    `AddRetractConflict`. These are modelled from spec.md 4.4, because the checker is not under
    `src/`;
  - the `idx_datoms_unique_value` condition.
- `TxStore` (abstract): what a transaction promises.
  - A valid batch is applied with set semantics.
  - A retraction removes exactly its triple.
  - A cardinality-one assertion replaces the entity's old value.
  - The log gains exactly the net change, under a fresh tx id.
  - A transaction that fails is a stuttering step.
- `TxApplication`: the pipeline. `phase` records how far it has got.
  - `BeginTxApplication` empties the temp tables and snapshots `before`.
  - `InsertExactSearches` and `InsertInexactSearches` stage the terms.
  - `MaterializeEinstaiTransaction` runs `search()`, a LEFT JOIN of each staged term with datoms on
    (e,a,v) or on (e,a). It then runs `update_datoms()`: first the DELETE, then the INSERT. The
    INSERT fails on the unique indexes.
  - `CommitEinstaiTransaction` runs `insert_transaction()`, whose two INSERT ... SELECTs use the
    same WHERE clauses, `AddCond` and `RetractCond`.
  - `ResolvedSpacetimeAssertions` and `CommittedSpacetimeAssertions` are the two metadata queries.
    The first reads `search_results` before the commit; the second reads the log after it.
  - `Rollback` undoes a failed transaction.
  - `Reject` is the validator's error path.
  - `Store == INSTANCE TxStore WITH datoms <- committedDatoms` is the refinement mapping. The
    datoms a reader sees are `before` until the transaction ends.
- `SearchBatching`: the two batched statements that bind one parameter per value.
  - `ResolveAvsCall` is `resolve_avs`: `[a v]` lookup-refs in chunks of `max_vars/4`. Each pair
    gets `search_id = 2000 + i` across the whole input. The rows come back through a HashMap
    collect, modelled as every map that collect can build.
  - `InsertNonFtsSearches` is `insert_non_fts_searches`: chunks of `max_vars/6`. The unique index
    of `temp.inexact_searches` fails a chunk, and the call stops there.
  - Both check the `bindings * count < max_vars` assertion on every chunk.
- `FulltextInterning`: one `insert_fts_searches` call per transaction, stepped one chunk at a
  time.
  - `Start` takes the list of terms. Only the value matters, so a term is a string or
    `NonString`.
  - `StageChunk` is the closure for one chunk:
    - `Block` folds over the chunk with `seen` and `outer_searchid`;
    - the strings that are new in this call go through the two INSTEAD OF triggers
      (`ViewInsert`: stamp the searchid on the existing row, or insert a row);
    - the `6*count < max_vars` assertion is checked;
    - each search row's value is `(SELECT rowid ... WHERE searchid = ?)` (`RowidOf`).
  - `Finish` clears the searchids.
  - `Rollback` undoes fulltext_values and the staged rows after any error.
  - `Store == INSTANCE FulltextStore WITH ...` is the refinement mapping: the interned strings
    are `before` while a call runs and `fulltext_values` once it has ended, a string's rowid is
    the index of its row (`RowidsOf`), and the staged rowids are the search rows' `v0`.
- `FulltextStore` (abstract): what `insert_fts_searches` promises. A call either fails and
  changes nothing (`Abort`), or in one step interns its strings and stages, for each term, the
  rowid of its own string (`Commit`). A string keeps its rowid; a new one gets a rowid no other
  string has.
- `SchemaAlteration`: one attribute and its rows, each row with its `index_avet` and
  `unique_value` flags. The attribute starts out not installed (`Null`).
  - `Install(ch, helpful)` is the install transaction. The characteristics `ch` are set on a
    `default()` or a `helpful()` builder. `SetCharacteristics` gives every builder that the
    setters can leave in some call order: on a helpful builder, `unique(Identity)` and
    `fulltext(true)` also set `index`, and an `index(false)` called after them undoes that.
    Then come `validate_install_Attr`, `build` over `Attr::default()`, and `validate`.
  - `Assert` and `Retract` are data transactions.
  - `Alter(ch)` follows the code in this order:
    1. build the builder with `to_modify_Attr` plus the asserted characteristics;
    2. `validate_alter_Attr`;
    3. `mutate`, which reports its `AttrAlteration`s;
    4. `update_spacetime`:
       - `Index` rewrites `index_avet`;
       - `Unique` rewrites `unique_value` and fails on the unique index;
       - `Cardinality` to one runs the `SELECT EXISTS` check;
    5. the new attribute is validated.

  Any failure leaves both the attribute and the rows unchanged. `lastInstall` and `lastAlter`
  record the transaction just tried, for the properties; the next transaction clears them.
  The attributes carry value type, cardinality, uniqueness, index, fulltext and `component`.
  `:db/noHistory` is left out: `mutate` treats it as it treats `component`, and nothing under
  `src/` reads it. The installs explored use `long` for `keyword` too, since nothing here tells
  them apart. An alteration's value type and fulltext are explored as set or unset, since
  `validate_alter_Attr` refuses any value of either.

  `helpful()` flips `index` for `unique(Identity)` but not for `unique(Value)`, although
  `validate` demands an index for both. A helpful install of `:unique/value` without `:index` is
  therefore refused. Its doc comment says it flips "relevant flags". `helpful()` has no caller
  under `src/`, so this is noted here and not given a run.
- `AttrValidation`: `validate` with its five rules, in code order. Also `validate_Attr_map`,
  which walks a HashMap and reports the first broken attribute by ident, or else by causetid.
  - `ValidateEntry(c)` is one step of that walk.
  - Every iteration order is a choice of the next entry.
  - `Broken` is the reference: the attribute invariants of spec.md.
- `SchemaIdents`: the `:einsteineinsteindb/solitonid` datoms and the schema built from them.
  - `TransactIdent` asserts or retracts an ident and refreshes the `idents` view. The schema is
    rebuilt from the datoms.
  - `Reopen` is `read_einsteineinsteindb`: `read_ident_map` and `from_ident_map_and_Attr_map`,
    two HashMap collects, as every map they can build.
  - `TypeCheck` is `Schema::to_typed_value`, with `require_CausetID` and `require_ident`.
- `ValueEncoding`: the four `TypedSQLValue` conversions as operators.
  - A SQLite value is its storage class and its payload.
  - Text is a sequence over `{":", "/", "a"}`, so a string can spell a keyword.
  - An Instant counts ticks of `1/SubMicros` microsecond, finer than storage keeps. `ToMicros`
    floors it, as chrono's `timestamp() * 10^6 + timestamp_subsec_micros()` does, and
    `FromMicros` multiplies back. Both traits are outside `src/`.
  - One Double is `NaN`. `SqliteBind` turns a NaN REAL into NULL, as `sqlite3_bind_double`
    does. `ToSql` is the insert into the search tables: `StoreValuePair` gives the refusal
    `NotNullConstraint` when the bound value is NULL and `v0` is NOT NULL (`VNotNull`).
  - `Hold` gives a caller a value. `ToSql`, `FromSql`, `ToEinsteinml` and `FromEinsteinml` apply
    one conversion each to what the previous step produced.
  - Keyword display and `to_namespaced_keyword` live outside `src/`. They are modelled from their
    documented behaviour: split on `:` and `/`, and accept exactly `("", ns, name)`.
- `RecordDecoding`: `decode_causet_record_u64/i64` and `write_causet_record_as_datum`.
  - `Transfer` writes one payload of one column type.
  - The datum is its flag and its payload.
  - `RecordEncoding` is the reference encoder (narrowest width, two's complement). The code is
    checked against it; it is not a model of code.
- `PartitionAllocator`: causetid allocation across transactions and restarts.
  - A transaction copies the connection's map (`BeginTransaction`) and allocates from the copy
    (`AllocateCausetids`).
  - `CommitTransaction` writes the ids as `e` and adopts the copy. `AbortTransaction` drops it.
  - `Restart` rebuilds the map with `ReadPartitionMap`, the `parts` view's
    `CASE WHEN e <= end` classification and `max(e) + 1`.
  - `Partition` is outside `src/` and follows spec.md: a half-open range with a cursor.
- `CausetidAllocator` (abstract): what the allocator promises in spec.md. Each partition has a
  committed cursor that only grows.
  - A transaction reserves ids at or above its own copy of the cursor (`Reserve`).
  - `Commit` issues the reserved ids and makes the copy the committed cursor.
  - `Abort` and `Restart` drop the reservation. `Restart` may move a cursor forward, never back.
  - In `MC_StoreOpen`, `CA == INSTANCE CausetidAllocator WITH next <- partitionMap,
    txNext <- txMap, reserved <- pending, issued <- log` is the refinement mapping.
- `ConnectionKeys`: the key pragmas of an encrypted connection.
  - `Open(k)` is `new_connection(_with_key)`. `ChangeEncryptionKey(k)` is the `PRAGMA rekey`.
  - `EscapeStringForPragma` doubles every quote.
  - `Literal` and `PragmaKey` read the string literal back the way SQLite's tokenizer does.
- `StoreBootstrap`: `ensure_current_version`, run by several processes on one file.
  - `GetUserVersion` is the read of `PRAGMA user_version`, outside any transaction.
  - `EnsureCurrentVersion` and `BeginExclusive` are the dispatch on what was read.
  - `CreateEmptyCurrentVersion` and `CreateCurrentVersion` are the EXCLUSIVE creation transaction.
  - `Crash` can happen at any point, and SQLite rolls the transaction back. `Retry` opens again.

Test replays. Each EXTENDS the module whose tests it replays. A test is a script: each step gives
the input and what the test asserts after it.

- `TxTests` replays five transaction tests of einsteindb.rs through the `TxApplication`
  pipeline: `run_test_add`, `test_retract`, `test_einsteineinsteindb_ident`,
  `test_..._double_retraction_issue_818` and `test_cardinality_constraints`.
- `FulltextTests` replays the five transactions of `test_einsteineinsteindb_fulltext` through
  `insert_fts_searches` (`FulltextInterning`). After each one it checks the `fulltext_values`
  rows the test matches and the rowid that each search row stores.
- `CipherTests` replays the four sqlcipher tests (`test_open_fail` and the others) through
  `ConnectionKeys`. Each test opens the encrypted fixture, or a new file, once, with the key the
  test passes.
- `AlterTests` replays `test_einsteineinsteindb_alter`, `_alter_cardinality`,
  `_alter_unique_value` and `_alter_fulltext` through `SchemaAlteration`. Its `Free` mode runs the
  unconstrained alteration model.
- `AttrValidation` carries the six validation tests of causetx.rs. They are replayed through
  `add_Attr` (`Insert`) and `validate_Attr_map`.

Model-checking modules. Several components are checked in one run by a sum composition, which
keeps the number of runs small:

- The MC module INSTANCEs each component with its constants, renaming clashing variables.
- A `part` variable, chosen in `Init`, says which component a behaviour runs.
- The components that are not running stay pinned to one initial state.

| MC module | Components |
|---|---|
| `MC_Schema` | `AlterTests` (with `SchemaAlteration`), `AttrValidation`, `SchemaIdents` |
| `MC_TxTests` | `TxTests`, `FulltextTests`, `CipherTests` |
| `MC_Codecs` | `ValueEncoding`, `RecordDecoding` |
| `MC_Staging` | `FulltextInterning`, `SearchBatching` |
| `MC_StoreOpen` | `ConnectionKeys`, `StoreBootstrap`, `PartitionAllocator` |

`MC_TxApplication` checks the pipeline on its own. The
other MC modules (`MC_FulltextInterning`, `MC_SearchBatching`, `MC_SchemaAlteration`,
`MC_PartitionAllocator`, `MC_StoreBootstrap`) give the constants of the violation runs.

## Runs

Passing runs:

| Run | Properties | States |
|---|---|---|
| `tx_pipeline` | `SafetyNetsHold`: the temp unique indexes, which the code's comments call an opaque net for transactor bugs, never fire. `StoreSpec`: the pipeline refines `TxStore`. `SpacetimeReportMatchesLog`: the metadata changes that the transactor adopts from `search_results` before the commit are the ones the log records. | 647k |
| `tx_tests` | `TestsPass`: every replayed transaction test gets the outcome, datoms and log it asserts. `FtsTestsPass`: the fulltext test's five transactions leave the `fulltext_values` rows and search rowids it matches. `CipherTestsPass`: each sqlcipher test opens, or fails to open, as it asserts. | 828 |
| `schema` | `UniqueEnforced` and `CardinalityOneHolds`, across any mix of an install, data transactions and alterations. `FlagsMatchSchema`: every row's `index_avet` and `unique_value` agree with the attribute's `:index` and `:unique`; older rows rely on `mutate` reporting each change. `AlterTestsPass`. `ValidationAsSpecified`: `validate_Attr_map` accepts exactly the schemas without a broken attribute, and names a real broken attribute, in every iteration order. `ValidationTestsPass`. `KeywordRefRoundTrip`: a keyword coerced to a Ref names its entity, and `require_ident` gives the keyword back. `ReopenKeepsSchema`: reopening rebuilds the schema the connection had. `AlterKeepsUnasserted` (spec.md 4.1): a successful alteration leaves every mutable characteristic it did not assert (cardinality, unique, index, component) as it was. | 70.6k |
| `codecs` | `SqlRoundTrip`: `from_sql_value_pair` reads back every value that `to_sql_value_pair` wrote. This includes a string that spells a keyword, and Long/Double on the shared tag 5. A NaN is refused by the NOT NULL `v0` column instead of being stored as a NULL that reads back as `BadSQLValuePair`. Instants are excluded. `InstantsReadBackFloored`: an instant reads back as the whole microsecond at or before it, also before 1970. `EmlLosesOnlyRefs`: the EML round trip loses only Ref, which comes back as a Long. `IntegerColumnsRoundTrip`: an integer stored by the reference encoder comes out of the v1 transfer unchanged. | 3.3k |
| `staging` | `SearchesResolveToOwnText` and `FulltextValuesInterned` (spec 8): every fulltext search row points at its own string, and no string is stored twice. `FulltextStoreSpec`: `insert_fts_searches` with the transaction's rollback refines `FulltextStore`, so a failed call leaves no string behind and a string keeps its rowid across calls. `ResolveAvsAsDocumented`: `resolve_avs` returns what its doc comment promises, across chunks. `InsertStagesAll`: `insert_non_fts_searches` stages every causet, and fails only on two assertions of one (e, a). | 743k |
| `store_open` | `EncryptedWithUserKey`: the file is encrypted with the key as the user typed it. `VersionMarksTables`: the V1 tables exist exactly when `user_version` is non-zero, through creation by several openers with crashes. `OpenOnCurrentStore`. `AllocatorSpec`: with a gap between partitions, the allocator refines `CausetidAllocator`. A commit adopts the transaction's cursors, and an abort or a crash loses only its reservation. The map that `read_partition_map` rebuilds never moves a cursor back, so no causetid is issued twice (`FreshCausetids` follows from this). | 483 |

Each `TypeOK` is the type invariant of one component of the run.

Violation runs. Each checks one property, and the Findings section below explains each result.

| Run | Property | Setting |
|---|---|---|
| `schema_narrowing` | `AlterationRefusedOnlyOnConflict` (spec.md 4.6/8) | as in `schema` |
| `fts_empty_values` | `OnlyNonStringsRefused` | `max_vars` = 13 |
| `fts_full_chunk` | `OnlyNonStringsRefused` | `max_vars` = 12 |
| `partition_contiguous` | `FreshCausetids` | contiguous half-open partitions |
| `store_bootstrap_race` | `NoCreateOverExistingStore` | two openers of a new file |
| `search_batching_limit` | `NoTooManyValues` | `max_vars` = 12 |

Bounds and why they are enough:

- `tx_pipeline` uses:
  - 2 entities and 2 values;
  - a cardinality-one attribute that is also unique, and a cardinality-many attribute;
  - batches of up to 2 terms;
  - 3 transactions.

  These bounds reach a card-one replacement, a retract plus re-assert in one batch, a unique-value
  clash (two entities, one value), and a store that two earlier transactions shaped for the third.
  A pipeline bug that corrupts the store, such as a missing replacement delete, needs three
  transactions to trip the temp indexes.
- The fulltext part of `staging` uses:
  - 2 strings;
  - lists of up to 4 terms;
  - `max_vars` = 13, which gives chunks of 2.

  The logic depends only on the chunk size and on `max_vars mod 6`, so a chunk of 2 stands for the
  real 166 (999 / 6) or 5461 (32766 / 6). With lists of 4 terms the model reaches a second chunk
  that reuses first-chunk strings, and a string interned by an earlier call.
- The batching part of `staging` uses `max_vars` = 7. That gives chunks of 1 for both functions,
  so two pairs or two causets already span two chunks. It also uses two entities, one attribute
  and two values.
- The alteration part of `schema` uses 2 entities and 2 values. It enumerates every install
  input on both kinds of builder, and every combination of asserted characteristics in an
  alteration.
- The validation part of `schema` checks every map of two attributes (97, 98), with every
  iteration order.
- The idents part of `schema` uses two entities and two keywords. That reaches renames, re-use of
  a retracted keyword, and clashes.
- The value-encoding part of `codecs` enumerates:
  - every text of up to 4 characters over `{":", "/", "a"}`, including `:a/a`, `::a`, `:a/` and
    `a/a`;
  - the four keywords with namespace and name in `{a, aa}`;
  - payloads around zero for the integer types;
  - instants `-4..1` in half microseconds (`SubMicros = 2`). These are whole and half
    microseconds on both sides of 1970, and the floor of each is in the range. Longs use the
    same numbers, so that an instant read as an integer is still a Long of the model;
  - the doubles `d1` and `NaN`, as model values.
- The record-decoding part of `codecs` uses:
  - the integers at every sign and carry boundary of widths 1 and 2;
  - the bytes 0, 1, 127, 128 and 255 in payloads of lengths 1 and 2;
  - payloads of lengths 0 and 3.

  Widths 4 and 8 are defined but not enumerated: TLC's integers stop at 2^31. The casts at those
  widths are the same code as at widths 1 and 2.
- `store_open` uses:
  - every key of up to 3 characters over a letter, the quote and `;`;
  - three openers, under symmetry, on a file found new, current (1) or later (2);
  - three partitions of two ids each, with allocations of 1 or 2 ids. That is enough to fill a
    partition, commit, abort and restart in any order.

There is no fairness and no liveness yet. The pipeline is straight-line code, so its "eventually"
properties say nothing beyond termination of the code. The openers of `StoreBootstrap` wait in
SQLite's busy handler, which gives no fairness.

## Findings

- `update_spacetime` (einsteindb.rs:1170) tests `rows.next().is_some()` on a `SELECT EXISTS`. That
  query always returns one row, so every many-to-one alteration is refused, even on an attribute
  with no data. The repository's test (einsteindb.rs:1805) checks only the refused case.
- `insert_fts_searches` (einsteindb.rs:965) fails when every string of a chunk already appeared
  earlier in the same call. `string_count` is then 0, and `repeat_values(2, 0)` leaves the
  `INSERT ... VALUES` empty. Asserting one string on more than `max_vars/6` entities in one
  transaction hits this.
- `insert_fts_searches` (einsteindb.rs:986) asserts `6*count < max_vars` on chunks of
  `max_vars/6`. A full chunk therefore panics whenever `max_vars` is a multiple of 6. SQLite 3.32
  and later default to 32766, which is such a multiple.
  - `insert_non_fts_searches` (:871) has the same assertion.
  - So does `resolve_avs` (:738), with 4.
- `create_current_partition_view` (einsteindb.rs:299) attributes a logged `e` to the first
  partition with `e <= end`. spec.md defines a partition as `[start, end)`. With contiguous
  partitions, the first id of a partition is credited to the previous one. After a restart,
  `read_partition_map` then gives that partition cursor = start, and the id is allocated a second
  time. The code would be right if `end` were inclusive. `Partition` is not in the repository, so
  the divergence is stated against the spec.
- `ensure_current_version` (einsteindb.rs:354) reads `user_version` outside the EXCLUSIVE
  transaction it then begins. Two openers of a new file both read 0. The second one's
  `CREATE TABLE` then fails on the store the first committed, instead of opening it.

## Not modelled, and why

- Connection pragmas other than the key (page size, journal mode): settings with no decision.
- The `read_*` view loaders other than `read_partition_map` and `read_ident_map`: SQL reads with
  no decision in them.
- The rebuild of the `schema` view. Its guard is simple: any installed or altered attribute, or any
  altered ident. The only reader of the view is `read_attribute_map`, which goes through
  `spacetime::update_attribute_map_from_causetid_triples`, and that is not under `src/`. Which
  builder it uses decides what a reopen sees, so a property would rest on a guess.
- `soliton_panic` observers. `lib.rs` calls the crate a skeleton to copy. `snapshot.rs` declares
  the same `impl Observable<T>` five times, so it does not build. `set` only assigns the value
  and calls every observer in order.
- `error.rs`: a code table.
- The Merkle/dedup prototype: excluded by spec.md and unfinished.
- The transactor itself (tempid resolution, upserts, term reduction) is not under `src/`. Only its
  validator checks and its routing of terms are modelled, from spec.md.
- `collect_ordered_txs_to_move`: it has no caller. `ClosedtimelikeConnection`: a struct with no
  methods.
- The code of chrono's `to_micros`/`from_micros` and of SQLite's NaN binding is not under `src/`.
  They are modelled from their documented behaviour. `from_micros` is taken as the exact inverse
  on whole microseconds.
- Serialize (without commit) mode of `CausetAction`: its callers are outside `src/`.
- `contains_causetid` (einsteindb.rs 1199-1201): a read-only query that hands each range to
  `Partition`, which is outside `src/`. No modelled operation calls it.
- The owner of SQLite's EXCLUSIVE lock in `StoreBootstrap` is kept only to model the busy begin and
  the rollback on drop. No property is stated about it, because such a property would only repeat
  the model's own lock bookkeeping.
