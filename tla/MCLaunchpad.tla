---------------------------- MODULE MCLaunchpad ----------------------------
(***************************************************************************)
(* Two tokens of six units on curves of 8 by 4 virtual reserves, sold to a *)
(* target of two or four, with a fee of a quarter in the pairs and in the  *)
(* pools: fees, dust and every rounding show on small amounts.  The tokens *)
(* are interchangeable.                                                    *)
(***************************************************************************)
EXTENDS Launchpad, TLC

MCTargets == {2, 4}
MCPayments == {4}
MCAmounts == {2, 4}
MCV3Prices == {"initial", "moved"}
MCMints == {m \in {"initial"} \X (1 .. 6) \X (1 .. 10) : m[2] <= 2 * m[3]}
Swapped == Permutations(Tokens)
=============================================================================
