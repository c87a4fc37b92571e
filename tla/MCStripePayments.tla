---------------------------- MODULE MCStripePayments ----------------------------
(* StripePayments on small instances. *)
EXTENDS StripePayments, TLC

MCSymmetry == Permutations(Workers)
=============================================================================
