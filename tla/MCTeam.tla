--------------------------------- MODULE MCTeam ---------------------------------
(* Team on small instances. *)
EXTENDS Team, TLC

\* Users are alike but for having founded the organization; so are workers and invites.
MCSymmetry ==
  Permutations(Workers) \cup Permutations(Founders) \cup Permutations(Users \ Founders)
    \cup Permutations(Invites)
=============================================================================
