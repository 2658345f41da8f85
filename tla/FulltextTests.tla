---------------------------- MODULE FulltextTests ----------------------------
(***************************************************************************)
(* test_einsteineinsteindb_fulltext (einsteindb.rs) replayed through       *)
(* insert_fts_searches.  Each of its five transactions hands the           *)
(* transactor's full-text terms to one call; the test then matches         *)
(* conn.fulltext_values() and the v column of conn.last_transaction(),     *)
(* the rowid each datom stores.  The ?tx :txInstant datom and the          *)
(* datoms of the other attributes are the pipeline's, not this call's.    *)
(***************************************************************************)
EXTENDS FulltextInterning

VARIABLE ftStep   \* index of the transaction in progress

(***************************************************************************)
(* The script: the string terms of each transaction, the fulltext_values   *)
(* rows the test expects afterwards (in rowid order), and the rowid it     *)
(* expects in the v column for each string of the transaction.  The third *)
(* transaction upserts "t" through :test/fulltext "alternate thing", so    *)
(* its second string is the only new one; the fifth retracts a datom,      *)
(* whose value goes through interning too.                                 *)
(***************************************************************************)
Step(terms, table, v) == [terms |-> terms, table |-> table, v |-> v]

FtsScript == <<
    Step(<<"test this">>, <<"test this">>, "test this" :> 1),
    Step(<<"alternate thing">>, <<"test this", "alternate thing">>,
         "alternate thing" :> 2),
    Step(<<"alternate thing", "other">>,
         <<"test this", "alternate thing", "other">>,
         ("alternate thing" :> 2) @@ ("other" :> 3)),
    Step(<<"alternate thing">>, <<"test this", "alternate thing", "other">>,
         "alternate thing" :> 2),
    Step(<<"alternate thing">>, <<"test this", "alternate thing", "other">>,
         "alternate thing" :> 2) >>

ReplayInit == Init /\ ftStep = 1

\* assert_transact! hands the step's terms to insert_fts_searches.
RunStep ==
    /\ ftStep <= Len(FtsScript)
    /\ Start(FtsScript[ftStep].terms)
    /\ UNCHANGED ftStep

\* The call's chunks; the script moves on when the call returns.
ReplayNext ==
    \/ RunStep
    \/ StageChunk /\ UNCHANGED ftStep
    \/ Finish /\ ftStep' = ftStep + 1

ReplaySpec == ReplayInit /\ [][ReplayNext]_<<vars, ftStep>>

-----------------------------------------------------------------------------
(***************************************************************************)
(* Every fulltext assertion of the test holds: no call fails, and after    *)
(* each transaction fulltext_values holds the strings in the rowid order   *)
(* the test matches, and every search row carries the rowid the test finds *)
(* in the datom's v column -- a reused string its old rowid, a new one the *)
(* next.                                                                   *)
(***************************************************************************)
FtsTestsPass ==
    /\ status # "failed"
    /\ status = "idle" /\ ftStep > 1 =>
         LET s == FtsScript[ftStep - 1] IN
         /\ [i \in DOMAIN fulltextValues |-> fulltextValues[i].text] = s.table
         /\ \A i \in DOMAIN searches : searches[i].v0 = s.v[searches[i].text]
=============================================================================
