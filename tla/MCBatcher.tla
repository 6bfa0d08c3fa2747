----------------------------- MODULE MCBatcher -----------------------------
(***************************************************************************)
(* TLC instances of Batcher: two satellites over two sim-hours (one        *)
(* satellite over three, where the row cap or late rows matter).           *)
(***************************************************************************)
EXTENDS Batcher, TLC

TwoHours == 0..1
ThreeHours == 0..2

SatSymmetry == Permutations(Sats)

=============================================================================
