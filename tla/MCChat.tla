--------------------------------- MODULE MCChat ---------------------------------
(***************************************************************************)
(* Chat on small instances: the making of conversations with the provider  *)
(* and of others, the decisions of interest requests, the messages of a    *)
(* conversation and their being read.  None of them waits for what another *)
(* one changes, but for the memberships, which change beside the first     *)
(* two; so one behaviour moves one of the five, chosen at its beginning.   *)
(***************************************************************************)
EXTENDS Chat, TLC

CONSTANTS
  u1, u2, d1, d2,   \* members of a conversation and their devices
  c1, c2            \* conversations

VARIABLE part

MCUserOf == (d1 :> u1) @@ (d2 :> u2)

MCInit == part \in {"provider", "orders", "interests", "delivery", "reading"} /\ ChatInit

\* Each disjunct is a part of ChatNext.
MCNext ==
  /\ part' = part
  /\ \/ part = "delivery" /\ Next /\ UNCHANGED <<lastRead, marked, convVars>>
     \/ part = "reading" /\ Next /\ UNCHANGED <<client, convVars>>
     \/ part = "provider" /\ C!Next /\ UNCHANGED <<orders, vars>>
          /\ \A w \in Workers : tx'[w].at # "idle" => tx'[w].row \in [provider: {TRUE}, interest: Interests \cup {NULL},
                                                                    order: {NULL}]
     \/ part = "orders" /\ C!Next /\ UNCHANGED <<interests, vars>>
          /\ \A w \in Workers : tx'[w].at # "idle" => ~tx'[w].row.provider
     \/ part = "interests" /\ C!Next /\ UNCHANGED <<orders, convs, vars>>
          /\ \A w \in Workers : tx'[w].at \in {"idle", "deciding"}

MCSpec == MCInit /\ [][MCNext]_<<part, vars, convVars>>

Swap == (d1 :> d2) @@ (d2 :> d1) @@ (u1 :> u2) @@ (u2 :> u1)

MCSymmetry == Permutations(Workers) \cup Permutations({c1, c2}) \cup {Swap}
=============================================================================
