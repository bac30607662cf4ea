--------------------------- MODULE IndexedLedger ---------------------------
(***************************************************************************)
(* What the indexer's database promises to those who read it, whoever      *)
(* writes it: the confirmed logs of a growing chain are applied one at a   *)
(* time in chain order, and the checkpoint only ever names a confirmed     *)
(* block up to which everything has been applied.  The checkpoint may move *)
(* back: a reader may not take it for a high-water mark.                   *)
(***************************************************************************)
EXTENDS Integers

CONSTANTS NumLogs, MaxBlock, blockOf, confirmations

VARIABLES
    head,           \* number of the latest block
    applied,        \* logs 1 .. applied are in the database
    checkpoint

ledgerVars == <<head, applied, checkpoint>>

Init == head = 0 /\ applied = 0 /\ checkpoint = 0

Grow ==
    /\ head < MaxBlock
    /\ head' = head + 1
    /\ UNCHANGED <<applied, checkpoint>>

ApplyNext ==
    /\ applied < NumLogs
    /\ blockOf[applied + 1] + confirmations <= head
    /\ applied' = applied + 1
    /\ UNCHANGED <<head, checkpoint>>

Checkpoint ==
    /\ checkpoint' \in Nat
    /\ checkpoint' + confirmations <= head
    /\ \A p \in 1 .. NumLogs : blockOf[p] <= checkpoint' => p <= applied
    /\ UNCHANGED <<head, applied>>

Next == Grow \/ ApplyNext \/ Checkpoint

Spec == Init /\ [][Next]_ledgerVars
=============================================================================
