--------------------------- MODULE ConnectionKeys ---------------------------
(***************************************************************************)
(* Opening an encrypted store (einsteindb.rs, sqlcipher builds).           *)
(*                                                                         *)
(* make_connection writes the caller's key into a batch of pragmas,        *)
(* PRAGMA key='<escaped key>'; followed by the cipher page size and the    *)
(* journal pragmas, and change_encryption_key writes PRAGMA rekey = '...'; *)
(* escape_string_for_pragma doubles every quote.  What SQLCipher gets is   *)
(* the string literal SQLite's tokenizer reads back out of that text.  The *)
(* journal_mode pragma reads the file, so a wrong key fails the open with  *)
(* error 26 (not a database).                                              *)
(*                                                                         *)
(* A key is a sequence over a small alphabet that holds the quote and the  *)
(* statement separator.                                                    *)
(***************************************************************************)
EXTENDS Naturals, Sequences, SequencesExt

CONSTANTS
    Keys,      \* keys a caller may pass
    Plain,     \* no key: new_connection, or a file that is not encrypted
    Null

VARIABLES
    fileKey,   \* Null (no file yet), Plain, or the key SQLCipher encrypted it with
    conn,      \* "closed", "open", or "failed" for the last failed open
    userKey    \* the key the caller last gave for this file (Plain for none)

vars == <<fileKey, conn, userKey>>

\* Mutant: the key written into the pragma unescaped.
EscapeNothing(s) == s

\* escape_string_for_pragma: s.replace("'", "''").
EscapeStringForPragma(s) ==
    FlattenSeq([i \in DOMAIN s |-> IF s[i] = "'" THEN <<"'", "'">> ELSE <<s[i]>>])

(***************************************************************************)
(* SQLite's tokenizer on the text after an opening quote: '' stands for a  *)
(* quote, a lone quote ends the literal.  The literal and what follows it, *)
(* or Null for an unterminated literal.                                    *)
(***************************************************************************)
RECURSIVE Literal(_, _)
Literal(t, acc) ==
    CASE t = <<>>                                  -> Null
      [] Head(t) = "'" /\ Len(t) > 1 /\ t[2] = "'" -> Literal(Tail(Tail(t)), Append(acc, "'"))
      [] Head(t) = "'"                             -> [lit |-> acc, rest |-> Tail(t)]
      [] OTHER                                     -> Literal(Tail(t), Append(acc, Head(t)))

\* The key SQLCipher receives from PRAGMA key='<text>'; -- Null when the
\* batch does not parse (the literal must be followed by the separator).
PragmaKey(text) ==
    LET l == Literal(text \o <<"'", ";">>, <<>>)
    IN  IF l # Null /\ l.rest = <<";">> THEN l.lit ELSE Null

\* make_connection's key pragma for key k (no pragma without a key).
KeyPragma(k) == IF k = Plain THEN Plain ELSE PragmaKey(EscapeStringForPragma(k))

-----------------------------------------------------------------------------
Init == fileKey = Null /\ conn = "closed" /\ userKey = Plain

\* Mutant: the file read (journal_mode) before PRAGMA key is applied.
OpenReadBeforeKey(k) ==
    LET key == KeyPragma(k) IN
    /\ conn # "open"
    /\ IF key # Null /\ fileKey = Null
          THEN /\ fileKey' = key /\ userKey' = k
               /\ conn' = "open"
          ELSE /\ conn' = IF key # Null /\ fileKey = Plain THEN "open" ELSE "failed"
               /\ UNCHANGED <<fileKey, userKey>>

(***************************************************************************)
(* new_connection (k = Plain) or new_connection_with_key: a fresh file is  *)
(* created under the key the pragma set; an existing one opens only if     *)
(* that key is the one it was encrypted with, else error 26.  A batch that *)
(* does not parse fails the open as well, with a syntax error.             *)
(***************************************************************************)
Open(k) ==
    LET key == KeyPragma(k) IN
    /\ conn # "open"
    /\ IF key # Null /\ fileKey = Null
          THEN /\ fileKey' = key /\ userKey' = k
               /\ conn' = "open"
          ELSE /\ conn' = IF key # Null /\ key = fileKey THEN "open" ELSE "failed"
               /\ UNCHANGED <<fileKey, userKey>>

\* change_encryption_key: PRAGMA rekey = '<escaped key>'; on an open
\* connection re-encrypts the file.
ChangeEncryptionKey(k) ==
    LET key == PragmaKey(EscapeStringForPragma(k)) IN
    /\ conn = "open"
    /\ key # Null
    /\ fileKey' = key /\ userKey' = k
    /\ UNCHANGED conn

Close ==
    /\ conn = "open"
    /\ conn' = "closed"
    /\ UNCHANGED <<fileKey, userKey>>

Next ==
    \/ \E k \in Keys \cup {Plain} : Open(k)
    \/ \E k \in Keys : ChangeEncryptionKey(k)
    \/ Close

Spec == Init /\ [][Next]_vars

-----------------------------------------------------------------------------
(***************************************************************************)
(* The store is encrypted with exactly the key its user gave, as they      *)
(* spelled it, through any sequence of creations, rekeys and reopens: the  *)
(* quoting of escape_string_for_pragma survives SQLite's tokenizer for     *)
(* every key, quotes and separators included, so the user can always open *)
(* the store again with the key they set.                                  *)
(***************************************************************************)
EncryptedWithUserKey ==
    fileKey # Null => fileKey = userKey
=============================================================================
