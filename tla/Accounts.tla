-------------------------------- MODULE Accounts --------------------------------
(***************************************************************************)
(* Accounts with the limiter that stands before POST /auth/login           *)
(* (core-api/app/entities/identity/router.py).  An attempt is counted in   *)
(* Redis before the database is asked anything, and what becomes of it     *)
(* there changes no counter, so each step is a step of one of the two.     *)
(***************************************************************************)
EXTENDS Identity

CONSTANTS Clients, MaxAttempts, Window   \* of RateLimit

VARIABLES count, ttl, phase, current, granted, late

L == INSTANCE RateLimit

ASSUME LimiterAssumption == L!LimitAssumption

limiterVars == <<count, ttl, phase, current, granted, late>>

AccountsInit == Init /\ L!Init

AccountsNext ==
  \/ Next /\ UNCHANGED limiterVars
  \/ L!Next /\ UNCHANGED vars

AccountsSpec == AccountsInit /\ [][AccountsNext]_<<vars, limiterVars>>

-----------------------------------------------------------------------------
\* Tables, transactions, the counter and the attempts keep their types.
AccountsTypesOK == TypeOK /\ L!TypeOK

\* No more than MaxAttempts of the attempts that Redis answered pass while a key
\* lives, however the attempts of the instances interleave.
AttemptsAreLimited == L!LimitHolds
=============================================================================
