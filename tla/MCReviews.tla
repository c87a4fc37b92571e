------------------------------- MODULE MCReviews -------------------------------
(* Reviews on small instances. *)
EXTENDS Reviews, TLC

MCSymmetry == Permutations(Workers)
=============================================================================
