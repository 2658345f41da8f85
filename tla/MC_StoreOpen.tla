---------------------------- MODULE MC_StoreOpen ----------------------------
(***************************************************************************)
(* Opening a store, checked part by part: the key pragmas of an encrypted  *)
(* connection (ConnectionKeys), several processes creating or reading one  *)
(* file (StoreBootstrap), and the partition map that the open reads back   *)
(* and each transaction advances (PartitionAllocator).  A behaviour runs   *)
(* one part; the others stay in their initial state.                       *)
(***************************************************************************)
EXTENDS Naturals, Sequences, SequencesExt, TLC

CONSTANTS Null, Plain, p1, p2, p3

VARIABLES
    part,
    fileKey, conn, userKey,                                      \* ConnectionKeys
    bootStore, writer, bootPending, pc, seen, reason,            \* StoreBootstrap
    partitionMap, txMap, pending, log                            \* PartitionAllocator

ckVars   == <<fileKey, conn, userKey>>
bootVars == <<bootStore, writer, bootPending, pc, seen, reason>>
paVars   == <<partitionMap, txMap, pending, log>>
vars     == <<part, fileKey, conn, userKey, bootStore, writer, bootPending, pc, seen,
              reason, partitionMap, txMap, pending, log>>

\* Every key of up to three characters over a letter, the quote and the
\* statement separator: quotes alone, doubled, leading and trailing.
MC_Keys == BoundedSeq({"a", "'", ";"}, 3) \ {<<>>}

\* Three openers of one file, found new, current, or from a later version.
MC_Proc     == {p1, p2, p3}
MC_Versions == {0, 1, 2}

\* The db, user and tx partitions with a one-id gap between them.
MC_Part     == {"db", "user", "tx"}
MC_GapStart == [p \in MC_Part |-> CASE p = "db" -> 0 [] p = "user" -> 3 [] p = "tx" -> 6]
MC_GapEnd   == [p \in MC_Part |-> MC_GapStart[p] + 2]

CK == INSTANCE ConnectionKeys WITH Keys <- MC_Keys

SB == INSTANCE StoreBootstrap
        WITH Proc <- MC_Proc, Versions <- MC_Versions,
             store <- bootStore, pending <- bootPending

PA == INSTANCE PartitionAllocator
        WITH Part <- MC_Part, Start <- MC_GapStart, End <- MC_GapEnd, MaxAlloc <- 2

\* The promise of spec.md, over the allocator's own state.
CA == INSTANCE CausetidAllocator
        WITH Part <- MC_Part, Start <- MC_GapStart, End <- MC_GapEnd,
             next <- partitionMap, txNext <- txMap, reserved <- pending, issued <- log

\* The openers run the same code.
Symm == Permutations(MC_Proc)

Init ==
    /\ part \in {"keys", "bootstrap", "partitions"}
    /\ CK!Init /\ SB!Init /\ PA!Init
    /\ part # "bootstrap" => bootStore = SB!File(FALSE, 0)

Next ==
    \/ part = "keys"       /\ CK!Next /\ UNCHANGED <<part, bootVars, paVars>>
    \/ part = "bootstrap"  /\ SB!Next /\ UNCHANGED <<part, ckVars, paVars>>
    \/ part = "partitions" /\ PA!Next /\ UNCHANGED <<part, ckVars, bootVars>>

Spec == Init /\ [][Next]_vars

-----------------------------------------------------------------------------
\* PartitionAllocator's type invariant: cursors stay inside their partitions.
TypeOK == PA!TypeOK

(***************************************************************************)
(* The store is encrypted with exactly the key its user gave: the quoting  *)
(* of escape_string_for_pragma survives SQLite's tokenizer for every key,  *)
(* through creations, rekeys and reopens.                                  *)
(***************************************************************************)
EncryptedWithUserKey == CK!EncryptedWithUserKey

(***************************************************************************)
(* The committed file is new or a store with its version marker: the V1    *)
(* tables exist exactly when user_version is not 0, whatever openers crash *)
(* in the middle of create_empty_current_version.                          *)
(***************************************************************************)
VersionMarksTables == SB!VersionMarksTables

(***************************************************************************)
(* An opener that is open works on a store of CURRENT_VERSION: the         *)
(* dispatch on user_version refuses every other version.                   *)
(***************************************************************************)
OpenOnCurrentStore == SB!OpenOnCurrentStore

(***************************************************************************)
(* The allocator keeps spec.md's promise (CausetidAllocator): a commit     *)
(* makes the transaction's cursors the connection's, an abort or a crash   *)
(* loses only its reservation, and the map read_partition_map rebuilds on  *)
(* a restart never moves a cursor back below an id handed out before.      *)
(***************************************************************************)
AllocatorSpec == CA!Spec
=============================================================================
