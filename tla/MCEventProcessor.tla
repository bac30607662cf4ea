-------------------------- MODULE MCEventProcessor --------------------------
(***************************************************************************)
(* Histories of a few calls on one or two tokens, each processed with one  *)
(* restart in any place.  A token graduates with its second token sold, so *)
(* that trades before, at and after graduation all occur.  One other       *)
(* contract's event is among them; the tokens are interchangeable, so that *)
(* it need name only one of PumpNow's.                                     *)
(***************************************************************************)
EXTENDS EventProcessor

MCAmounts == {1, 2}
MCPrices == {1, 2}
MCIntervals == {2, 3}
MCNamed == CHOOSE t \in Tokens : TRUE
MCStrangeEvents ==
    ({"TokenCreated", "FeeCollected", "Garbled"} \X {MCNamed})
        \cup ({"Buy", "SwapIn", "Graduated"} \X {MCNamed, Stranger})
=============================================================================
