--------------------------- MODULE StoreBootstrap ---------------------------
(***************************************************************************)
(* Opening a store: ensure_current_version (einsteindb.rs) run by several  *)
(* processes on one file.                                                  *)
(*                                                                         *)
(* An opener reads PRAGMA user_version on its own connection, outside any  *)
(* transaction, and dispatches on it: 0 creates the store, CURRENT_VERSION *)
(* reads it, anything else is NotYetImplemented.  Creation runs in one     *)
(* EXCLUSIVE transaction: the V1 statements (CREATE TABLE ... without IF   *)
(* NOT EXISTS), set_user_version, the known_parts rows, the parts view and *)
(* the bootstrap transaction, then commit.  A failure, or the process      *)
(* dying, drops the transaction and SQLite rolls it back.  Readers see the *)
(* last committed file (WAL).                                              *)
(*                                                                         *)
(* The file is abstracted to whether the V1 tables exist and its           *)
(* user_version.                                                           *)
(***************************************************************************)
EXTENDS Naturals

CONSTANTS
    Proc,          \* processes opening the same file
    Versions,      \* user_version values a file may be found with
    Null

CURRENT_VERSION == 1

ASSUME {0, CURRENT_VERSION} \subseteq Versions

VARIABLES
    store,     \* the committed file: [tables : BOOLEAN, version : Versions]
    writer,    \* the process holding the EXCLUSIVE transaction, or Null
    pending,   \* the writer's uncommitted file, or Null
    pc,        \* each process's place in ensure_current_version
    seen,      \* the user_version each process read
    reason     \* why a process's open failed, or Null

vars == <<store, writer, pending, pc, seen, reason>>

File(t, v) == [tables |-> t, version |-> v]

\* A file as it may be found: new and empty, or made by this or a later
\* version of the code.
InitialFiles == {File(FALSE, 0)} \cup {File(TRUE, v) : v \in Versions \ {0}}

\* Mutant: the pragma written to another connection, outside the transaction.
SetUserVersionLost(s, v) == s

\* set_user_version: PRAGMA user_version = v, inside the caller's transaction.
SetUserVersion(s, v) == [s EXCEPT !.version = v]

(***************************************************************************)
(* The V1 statements on the transaction's view of the file: they create    *)
(* the tables, and CREATE TABLE datoms fails on a file that has them.      *)
(***************************************************************************)
V1Statements(s) == IF s.tables THEN Null ELSE [s EXCEPT !.tables = TRUE]

Fail(p, why) ==
    /\ pc' = [pc EXCEPT ![p] = "failed"]
    /\ reason' = [reason EXCEPT ![p] = why]

\* The transaction is dropped: SQLite rolls it back and frees the lock.
Release(p) ==
    /\ writer' = IF writer = p THEN Null ELSE writer
    /\ pending' = IF writer = p THEN Null ELSE pending

-----------------------------------------------------------------------------
Init ==
    /\ store \in InitialFiles
    /\ writer = Null
    /\ pending = Null
    /\ pc = [p \in Proc |-> "idle"]
    /\ seen = [p \in Proc |-> Null]
    /\ reason = [p \in Proc |-> Null]

\* get_user_version on the opener's connection: the committed value.
GetUserVersion(p) ==
    /\ pc[p] = "idle"
    /\ seen' = [seen EXCEPT ![p] = store.version]
    /\ pc' = [pc EXCEPT ![p] = "checked"]
    /\ UNCHANGED <<store, writer, pending, reason>>

\* Mutant: the match without the NotYetImplemented arm.
EnsureCurrentVersionAnyVersion(p) ==
    /\ pc[p] = "checked"
    /\ seen[p] # 0
    /\ pc' = [pc EXCEPT ![p] = "open"] /\ UNCHANGED reason
    /\ UNCHANGED <<store, writer, pending, seen>>

\* CURRENT_VERSION => read_einsteineinsteindb; any other non-zero version
\* => NotYetImplemented.
EnsureCurrentVersion(p) ==
    /\ pc[p] = "checked"
    /\ seen[p] # 0
    /\ IF seen[p] = CURRENT_VERSION
          THEN /\ pc' = [pc EXCEPT ![p] = "open"] /\ UNCHANGED reason
          ELSE Fail(p, "version")
    /\ UNCHANGED <<store, writer, pending, seen>>

(***************************************************************************)
(* 0 => create_current_version, whose create_empty_current_version begins  *)
(* the EXCLUSIVE transaction.  While another process holds it the begin    *)
(* waits in SQLite's busy handler, if the connection has one, or fails     *)
(* with SQLITE_BUSY: waiting is this action not being taken.               *)
(***************************************************************************)
BeginExclusive(p) ==
    /\ pc[p] = "checked"
    /\ seen[p] = 0
    /\ IF writer = Null
          THEN /\ writer' = p
               /\ pending' = store
               /\ pc' = [pc EXCEPT ![p] = "creating"]
               /\ UNCHANGED reason
          ELSE Fail(p, "busy") /\ UNCHANGED <<writer, pending>>
    /\ UNCHANGED <<store, seen>>

(***************************************************************************)
(* The rest of create_empty_current_version: the V1 statements and         *)
(* set_user_version(CURRENT_VERSION).  A statement that fails returns the  *)
(* error through `?` and the dropped transaction rolls back.               *)
(***************************************************************************)
CreateEmptyCurrentVersion(p) ==
    /\ pc[p] = "creating"
    /\ LET s == V1Statements(pending) IN
       IF s = Null
          THEN Fail(p, "exists") /\ Release(p)
          ELSE /\ pending' = SetUserVersion(s, CURRENT_VERSION)
               /\ pc' = [pc EXCEPT ![p] = "created"]
               /\ UNCHANGED <<writer, reason>>
    /\ UNCHANGED <<store, seen>>

\* create_current_version: known_parts, the parts view and the bootstrap
\* transaction in the same transaction, then tx.commit().
CreateCurrentVersion(p) ==
    /\ pc[p] = "created"
    /\ store' = pending
    /\ writer' = Null
    /\ pending' = Null
    /\ pc' = [pc EXCEPT ![p] = "open"]
    /\ UNCHANGED <<seen, reason>>

\* The process dies at any point: its connection and transaction go.
Crash(p) ==
    /\ pc[p] # "idle"
    /\ Release(p)
    /\ pc' = [pc EXCEPT ![p] = "idle"]
    /\ seen' = [seen EXCEPT ![p] = Null]
    /\ reason' = [reason EXCEPT ![p] = Null]
    /\ UNCHANGED store

\* The caller drops its connection, or retries after an error (spec.md:
\* retry is a caller policy), and opens again later.
Retry(p) ==
    /\ pc[p] \in {"open", "failed"}
    /\ pc' = [pc EXCEPT ![p] = "idle"]
    /\ seen' = [seen EXCEPT ![p] = Null]
    /\ reason' = [reason EXCEPT ![p] = Null]
    /\ UNCHANGED <<store, writer, pending>>

Next ==
    \E p \in Proc :
        \/ GetUserVersion(p)
        \/ EnsureCurrentVersion(p)
        \/ BeginExclusive(p)
        \/ CreateEmptyCurrentVersion(p)
        \/ CreateCurrentVersion(p)
        \/ Crash(p)
        \/ Retry(p)

Spec == Init /\ [][Next]_vars

-----------------------------------------------------------------------------
(***************************************************************************)
(* The committed file is either new or a store with its version marker:    *)
(* the V1 tables exist exactly when user_version is not 0, through any     *)
(* interleaving of openers and crashes in the middle of creation.  This is *)
(* what lets the next opener's dispatch on user_version be right.  It      *)
(* needs the statements and the pragma in the one transaction.            *)
(***************************************************************************)
VersionMarksTables ==
    store.tables <=> store.version # 0

(***************************************************************************)
(* An opener that is open works on a store of the current version, and a   *)
(* store it created is what it committed.                                  *)
(***************************************************************************)
OpenOnCurrentStore ==
    \A p \in Proc : pc[p] = "open" => store = File(TRUE, CURRENT_VERSION)

(***************************************************************************)
(* The version marker rejects only stores of an incompatible version       *)
(* (spec.md, "Schema version marker"): no opener fails because the store   *)
(* it set out to create already exists.                                    *)
(***************************************************************************)
NoCreateOverExistingStore ==
    \A p \in Proc : reason[p] # "exists"
=============================================================================
