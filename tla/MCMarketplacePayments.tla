------------------------ MODULE MCMarketplacePayments ------------------------
(* Instances of MarketplacePayments for TLC. *)
EXTENDS MarketplacePayments_proofs, TLC

\* Workers, orders and MP payments are interchangeable.
MCSymmetry == Permutations(Workers) \cup Permutations(MpPayments) \cup Permutations(Orders)

\* QuietMeansMirrored and OrderFollowsPayment say nothing of a torn payment, so
\* with one payment nothing is lost by not going on from there.
Untorn == torn = {}
=============================================================================
