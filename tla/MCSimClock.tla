----------------------------- MODULE MCSimClock -----------------------------
(***************************************************************************)
(* TLC instances of SimClock.                                              *)
(***************************************************************************)
EXTENDS SimClock

=============================================================================
