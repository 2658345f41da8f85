------------------------- MODULE CausetidAllocator -------------------------
(***************************************************************************)
(* What the partition allocator promises (spec.md 3, 5 and 7), with the    *)
(* `parts` view, known_parts and the ranges handed out by                  *)
(* allocate_causetids left out.  Each partition has a committed cursor     *)
(* that only grows; a transaction reserves ids at or above its own copy of *)
(* the cursor; a commit makes them issued and its cursor the committed     *)
(* one; an abort or a crash loses the reservation and nothing else.  A     *)
(* restart may move a cursor forward, never back.                          *)
(***************************************************************************)
EXTENDS Integers

CONSTANTS Part,        \* partition names
          Start, End,  \* Part -> Int, the half-open range of each
          Null

VARIABLES next,        \* committed cursor of each partition
          txNext,      \* the open transaction's cursors, or Null
          reserved,    \* ids the open transaction holds
          issued       \* ids of committed transactions

vars == <<next, txNext, reserved, issued>>

\* The values a cursor of p may take.
Cursor(p) == Start[p]..End[p]

Init ==
    /\ next = Start
    /\ txNext = Null
    /\ reserved = {}
    /\ issued = {}

Begin ==
    /\ txNext = Null
    /\ txNext' = next
    /\ UNCHANGED <<next, reserved, issued>>

\* Some ids of p at or above the transaction's cursor, which passes them.
Reserve(p, S) ==
    /\ txNext # Null
    /\ S # {} /\ S \subseteq txNext[p]..(End[p] - 1)
    /\ txNext' = [txNext EXCEPT ![p] = (CHOOSE m \in S : \A s \in S : s <= m) + 1]
    /\ reserved' = reserved \cup S
    /\ UNCHANGED <<next, issued>>

Commit ==
    /\ txNext # Null
    /\ issued' = issued \cup reserved
    /\ next' = txNext
    /\ txNext' = Null /\ reserved' = {}

Abort ==
    /\ txNext # Null
    /\ txNext' = Null /\ reserved' = {}
    /\ UNCHANGED <<next, issued>>

Restart ==
    /\ next' \in {f \in [Part -> Int] : \A p \in Part : f[p] \in next[p]..End[p]}
    /\ txNext' = Null /\ reserved' = {}
    /\ UNCHANGED issued

Next ==
    \/ Begin
    \/ \E p \in Part : \E S \in SUBSET Cursor(p) : Reserve(p, S)
    \/ Commit \/ Abort \/ Restart

Spec == Init /\ [][Next]_vars
=============================================================================
