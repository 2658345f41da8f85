----------------------------- MODULE CipherTests -----------------------------
(***************************************************************************)
(* The sqlcipher tests of einsteindb.rs replayed through ConnectionKeys.   *)
(* Each test opens one file once: the fixture v1encrypted.einsteineinsteindb, *)
(* encrypted with the key "key", or a new file.  test_open_fail expects    *)
(* the open itself to fail (error 26, not a database).  A key is the       *)
(* sequence of its characters.                                             *)
(***************************************************************************)
EXTENDS ConnectionKeys

VARIABLE cipherTest   \* the test being replayed

FixtureKey == <<"k", "e", "y">>
WrongKey   == <<"w", "r", "o", "n", "g", " ", "k", "e", "y">>
Hunter2    == <<"h", "u", "n", "t", "e", "r", "2">>

\* Each test: the file it opens (Null for a new one), the key it passes
\* (Plain for new_connection), and whether the open must succeed.
CipherTestCases ==
    [openable             |-> [file |-> FixtureKey, key |-> FixtureKey, ok |-> TRUE],
     requires_key         |-> [file |-> FixtureKey, key |-> Plain,      ok |-> FALSE],
     requires_correct_key |-> [file |-> FixtureKey, key |-> WrongKey,   ok |-> FALSE],
     some_transactions    |-> [file |-> Null,       key |-> Hunter2,    ok |-> TRUE]]

\* The fixture was created by a user who gave its key.
CipherInit ==
    /\ cipherTest \in DOMAIN CipherTestCases
    /\ fileKey = CipherTestCases[cipherTest].file
    /\ conn = "closed"
    /\ userKey = IF fileKey = Null THEN Plain ELSE fileKey

\* The test's one call of new_connection or new_connection_with_key.
RunCipherTest ==
    /\ conn = "closed"
    /\ Open(CipherTestCases[cipherTest].key)
    /\ UNCHANGED cipherTest

CipherSpec == CipherInit /\ [][RunCipherTest]_<<vars, cipherTest>>

-----------------------------------------------------------------------------
(***************************************************************************)
(* Each sqlcipher test gets the outcome it asserts: the fixture opens with *)
(* its own key and with no other (no key, a wrong key), and a new file     *)
(* opens under the key that creates it.                                    *)
(***************************************************************************)
CipherTestsPass ==
    conn # "closed" => (conn = "open" <=> CipherTestCases[cipherTest].ok)
=============================================================================
