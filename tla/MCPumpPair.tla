----------------------------- MODULE MCPumpPair -----------------------------
(* A small pair for TLC: three of four tokens on sale, so that a sale can   *)
(* be split, capped, undone and completed, with fees that are sometimes     *)
(* zero and sometimes not.                                                  *)
EXTENDS PumpPair, TLC

\* Traders are interchangeable.
TraderSymmetry == Permutations(Users)

MCPayments == {0, 3, 4, 9}
MCAllowances == {0, 2, MaxUint}

\* For the runs that look at many quotes from few states.
EveryPayment == 0 .. 12
=============================================================================
