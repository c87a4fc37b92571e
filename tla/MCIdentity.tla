------------------------------- MODULE MCIdentity -------------------------------
(* Accounts on a small instance; one behaviour moves the accounts, the sessions of *)
(* one account, the organizations that a user comes to own, or the limiter.        *)
EXTENDS Accounts, TLC

CONSTANTS
  FewTokens,  \* bound: tokens of a behaviour that moves the accounts
  Spare       \* bound: organizations that one that moves accounts or sessions has not

VARIABLE part

MCInit == part \in {"accounts", "sessions", "homes", "limiter"} /\ AccountsInit

NoSpare == \A o \in Spare : orgs'[o] = NULL

\* Each disjunct is a part of AccountsNext.  In the second one a user registers,
\* signs in and exchanges its tokens while its memberships change; in the third one
\* it registers, signs in by Google and loses its memberships.
MCNext ==
  /\ part' = part
  /\ \/ /\ part = "accounts" /\ Next /\ UNCHANGED limiterVars
        /\ NoSpare /\ Cardinality({t \in Tokens : tokens'[t] # NULL}) <= FewTokens
     \/ /\ part = "sessions" /\ Next /\ UNCHANGED limiterVars
        /\ NoSpare /\ \A w \in Workers : tx'[w].op # "rename"
     \/ /\ part = "homes" /\ Next /\ UNCHANGED limiterVars
        /\ \A w \in Workers : tx'[w].op \in {"register", "google", NULL}
        /\ \A u \in Users, o \in Orgs : members'[u][o] # "inactive"
        /\ joined' = {}
     \/ part = "limiter" /\ L!Next /\ UNCHANGED vars

MCSpec == MCInit /\ [][MCNext]_<<part, vars, limiterVars>>

MCSymmetry == Permutations(Workers) \cup Permutations(Tokens) \cup Permutations(Names)
              \cup Permutations(Orgs \ (Others \cup Spare))
=============================================================================
