----------------------------- MODULE TokenSale -----------------------------
(***************************************************************************)
(* What a bonding-curve pair promises, with no curve in it: a sale of      *)
(* `target` tokens against an escrow of native.  While it is open, buying  *)
(* adds to the escrow and selling back takes from it, never more than is   *)
(* there; the step that sells the last token closes the sale and releases  *)
(* the whole escrow, and a closed sale never changes again.                *)
(***************************************************************************)
EXTENDS Integers

CONSTANT target             \* tokens for sale

VARIABLES
    sold,                   \* tokens out of the sale's hands
    escrow,                 \* native held against them
    open

saleVars == <<sold, escrow, open>>

Init == sold = 0 /\ escrow = 0 /\ open = TRUE

\* Every token costs something, so that a sale never closes on an empty escrow.
Purchase(tokens, payment) ==
    /\ open
    /\ tokens > 0
    /\ payment > 0
    /\ sold + tokens < target
    /\ sold' = sold + tokens
    /\ escrow' = escrow + payment
    /\ UNCHANGED open

LastPurchase ==
    /\ open
    /\ sold < target
    /\ sold' = target
    /\ escrow' = 0
    /\ open' = FALSE

Return(tokens, payment) ==
    /\ open
    /\ 0 < tokens
    /\ tokens <= sold
    /\ 0 <= payment
    /\ payment <= escrow
    /\ sold' = sold - tokens
    /\ escrow' = escrow - payment
    /\ UNCHANGED open

\* The amounts of a step can be read off its first and last state, so that
\* nothing has to be enumerated.
Next ==
    \/ Purchase(sold' - sold, escrow' - escrow)
    \/ LastPurchase
    \/ Return(sold - sold', escrow - escrow')

Spec == Init /\ [][Next]_saleVars
=============================================================================
