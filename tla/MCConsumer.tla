----------------------------- MODULE MCConsumer -----------------------------
(***************************************************************************)
(* TLC instances of Consumer.                                              *)
(***************************************************************************)
EXTENDS Consumer, TLC

TwoHours == 0..1
ThreeHours == 0..2

SatSymmetry == Permutations(Sats)

=============================================================================
