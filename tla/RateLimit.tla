------------------------------- MODULE RateLimit -------------------------------
(***************************************************************************)
(* enforce_rate_limit of shared/security/rate_limit.py: a counter in Redis *)
(* with a time to live, shared by the service's instances.  One key.       *)
(*                                                                         *)
(* An attempt increments the counter, and if it finds itself the first one *)
(* sets the key's time to live: two commands, two round trips.  Redis runs *)
(* each command atomically; a command may fail, and a request may die      *)
(* between the two.                                                        *)
(***************************************************************************)
EXTENDS Integers

CONSTANTS
  Clients,       \* attempts made at the same time, over and over
  MaxAttempts,   \* attempts allowed in a window
  Window         \* window_seconds, in ticks

ASSUME LimitAssumption == MaxAttempts \in Nat \ {0} /\ Window \in Nat \ {0}

VARIABLES
  count,    \* the counter, 0 when the key does not exist; capped at Over
  ttl,      \* ticks until the key expires, Forever when it has no time to live
  phase,    \* client -> where its attempt is
  current,  \* client -> the value its INCR returned
  granted,  \* history: attempts let through on this key's count, capped at Over
  late      \* history: clients whose attempt has outlived the key that counted it

vars == <<count, ttl, phase, current, granted, late>>

Over == MaxAttempts + 1     \* bound: the code tells no higher values apart
Forever == Window + 1
Phases == {"idle", "incremented", "counted"}

TypeOK ==
  /\ count \in 0..Over
  /\ ttl \in 1..Forever
  /\ phase \in [Clients -> Phases]
  /\ current \in [Clients -> 0..Over]
  /\ granted \in 0..Over
  /\ late \subseteq {c \in Clients : phase[c] # "idle"}
  /\ count = 0 => ttl = Forever

Init ==
  /\ count = 0
  /\ ttl = Forever
  /\ phase = [c \in Clients |-> "idle"]
  /\ current = [c \in Clients |-> 0]
  /\ granted = 0
  /\ late = {}

-----------------------------------------------------------------------------
Capped(n) == IF n > Over THEN Over ELSE n

\* Wrong variant: the counter is read and written back, a write may be lost.
IncrReadingFirst(c) ==
  /\ phase[c] = "idle"
  /\ \E seen \in {count, IF count = 0 THEN 0 ELSE count - 1} :
       /\ count' = Capped(seen + 1)
       /\ current' = [current EXCEPT ![c] = count']
  /\ phase' = [phase EXCEPT ![c] = "incremented"]
  /\ UNCHANGED <<ttl, granted, late>>

\* INCR: creates the key without a time to live, or keeps the one it has.
Incr(c) ==
  /\ phase[c] = "idle"
  /\ count' = Capped(count + 1)
  /\ current' = [current EXCEPT ![c] = count']
  /\ phase' = [phase EXCEPT ![c] = "incremented"]
  /\ UNCHANGED <<ttl, granted, late>>

\* Wrong variant: every attempt starts the window anew.
ExpireEachTime(c) ==
  /\ phase[c] = "incremented"
  /\ ttl' = IF count > 0 THEN Window ELSE ttl
  /\ phase' = [phase EXCEPT ![c] = "counted"]
  /\ UNCHANGED <<count, current, granted, late>>

\* The first attempt sets the time to live; EXPIRE does nothing to a missing key.
Expire(c) ==
  /\ phase[c] = "incremented"
  /\ ttl' = IF current[c] = 1 /\ count > 0 THEN Window ELSE ttl
  /\ phase' = [phase EXCEPT ![c] = "counted"]
  /\ UNCHANGED <<count, current, granted, late>>

\* The attempt is over, and was granted or not.
Finish(c) ==
  /\ phase' = [phase EXCEPT ![c] = "idle"]
  /\ late' = late \ {c}
  /\ UNCHANGED <<count, ttl, current>>

\* The attempt goes on, or is answered with 429 if it is over the limit.
Pass(c) ==
  /\ phase[c] = "counted"
  /\ current[c] <= MaxAttempts
  /\ granted' = IF c \in late THEN granted ELSE Capped(granted + 1)
  /\ Finish(c)

Refuse(c) ==
  /\ phase[c] = "counted"
  /\ current[c] > MaxAttempts
  /\ Finish(c) /\ UNCHANGED granted

\* EXPIRE fails or does not reach Redis, or the request dies before it; Redis
\* being unavailable lets the attempt pass.  A failed INCR changes nothing.
FailBeforeExpire(c) ==
  /\ phase[c] = "incremented"
  /\ Finish(c) /\ UNCHANGED granted

\* Time passes in Redis; the key goes when its time to live is up.
Tick ==
  /\ ttl' = IF ttl \in {1, Forever} THEN Forever ELSE ttl - 1
  /\ IF ttl = 1
     THEN /\ count' = 0 /\ granted' = 0
          /\ late' = {c \in Clients : phase[c] # "idle"}
     ELSE UNCHANGED <<count, granted, late>>
  /\ UNCHANGED <<phase, current>>

Next ==
  \/ \E c \in Clients : Incr(c) \/ Expire(c) \/ Pass(c) \/ Refuse(c) \/ FailBeforeExpire(c)
  \/ Tick

Spec == Init /\ [][Next]_vars

\* Time passes, and an attempt that was begun goes on.
FairSpec ==
  /\ Spec
  /\ WF_vars(Tick)
  /\ \A c \in Clients : WF_vars(Expire(c) \/ Pass(c) \/ Refuse(c) \/ FailBeforeExpire(c))

-----------------------------------------------------------------------------
\* However the attempts of the instances interleave, with each other and with the
\* end of a window, no more than MaxAttempts of those that a key counted are let
\* through while it lives.  (An attempt that Redis does not answer is let through on
\* purpose, and not counted here.)
LimitHolds == granted <= MaxAttempts

\* The key lives without end, and nobody is about to give it a time to live.
Orphaned ==
  /\ count > 0
  /\ ttl = Forever
  /\ \A c \in Clients : ~(phase[c] = "incremented" /\ current[c] = 1)

\* The EXPIRE of the first attempt being lost is the only thing that keeps a
\* window from ending: no interleaving of attempts, late EXPIREs of an earlier
\* window among them, prolongs it for ever.
WindowEndsUnlessOrphaned == (count > MaxAttempts) ~> (count <= MaxAttempts \/ Orphaned)
=============================================================================
