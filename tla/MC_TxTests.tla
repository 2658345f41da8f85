---------------------------- MODULE MC_TxTests -----------------------------
(***************************************************************************)
(* The replayed tests, checked in one run: the transaction tests through   *)
(* the TxApplication pipeline (part "tx"), test_einsteineinsteindb_        *)
(* fulltext through insert_fts_searches (part "fts"), and the sqlcipher    *)
(* tests through the key pragmas of ConnectionKeys (part "cipher").  The   *)
(* parts not running keep their initial state.                             *)
(***************************************************************************)
EXTENDS TxTests

CONSTANTS NonString, Plain

VARIABLES part,
          fulltextValues, input, chunkNo, seen, outerSearchid, searches,
          status, failure, ftBefore, ftStep,         \* FulltextTests
          fileKey, conn, userKey, cipherTest         \* CipherTests

\* The entities, attributes and values the replayed tests mention.
MC_Entity == {100, 101, 200, 201}
MC_Attr == {"version", "attribute", "ident", "valueType", "cardinality",
            "unique", "index", "one", "many", "test_ident"}
MC_Value == {"1", "2", "3", "4", "5", "6", "7", "8", "11", "22", "100", "101",
             "Oi", "Ai!", ":test/one", ":test/many", ":test/ident",
             ":type/long", ":type/string", ":cardinality/one",
             ":cardinality/many", ":unique/identity", "true",
             ":name/Ivan", ":name/Petr"}
\* Cardinality as the bootstrap schema and the tests' own attributes declare.
MC_CardOne == {"version", "ident", "valueType", "cardinality", "unique",
               "index", "one", "test_ident"}
\* :einsteineinsteindb/solitonid and :test/ident are unique identities.
MC_UniqueValueAttr == {"ident", "test_ident"}
\* The attributes of METADATA_SQL_LIST among them: the schema attributes.
MC_Metadata == {"ident", "valueType", "cardinality", "unique", "index"}

\* The fulltext test's strings; TestConn's SQLite has the default
\* SQLITE_LIMIT_VARIABLE_NUMBER of 999.
FT == INSTANCE FulltextTests WITH Text <- {"test this", "alternate thing", "other"},
        MaxVars <- 999, MaxLen <- 2, before <- ftBefore

\* The sqlcipher tests' keys, character by character.
CT == INSTANCE CipherTests WITH Keys <- {<<"k", "e", "y">>,
        <<"w", "r", "o", "n", "g", " ", "k", "e", "y">>,
        <<"h", "u", "n", "t", "e", "r", "2">>}

ctVars == <<fileKey, conn, userKey, cipherTest>>

ftVars == <<fulltextValues, input, chunkNo, seen, outerSearchid, searches,
            status, failure, ftBefore, ftStep>>

MCInit == part \in {"tx", "fts", "cipher"} /\ ReplayInit /\ FT!ReplayInit /\ CT!CipherInit

MCNext ==
    \/ part = "tx" /\ ReplayNext /\ UNCHANGED <<part, ftVars, ctVars>>
    \/ part = "fts" /\ FT!ReplayNext /\ UNCHANGED <<part, vars, txVars, ctVars>>
    \/ part = "cipher" /\ CT!RunCipherTest /\ UNCHANGED <<part, vars, txVars, ftVars>>

MCSpec == MCInit /\ [][MCNext]_<<part, vars, txVars, ftVars, ctVars>>

\* test_einsteineinsteindb_fulltext: no call fails, and fulltext_values
\* and the stored rowids are what the test matches (see FulltextTests).
FtsTestsPass == FT!FtsTestsPass

\* The sqlcipher tests: the fixture opens with its key and no other, and a
\* new file opens under the key that creates it (see CipherTests).
CipherTestsPass == CT!CipherTestsPass
=============================================================================
