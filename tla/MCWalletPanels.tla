--------------------------- MODULE MCWalletPanels ---------------------------
(***************************************************************************)
(* Two clicks on one of the panels, with a price that moves once, one      *)
(* change of the form and one failure.                                     *)
(***************************************************************************)
EXTENDS WalletPanels

MCAmounts == {1, 2}
MCRates == {4, 8}
=============================================================================
