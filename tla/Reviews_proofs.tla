----------------------------- MODULE Reviews_proofs -----------------------------
(***************************************************************************)
(* Proofs about Reviews, for any number of workers, any set of ratings     *)
(* between one and five stars and any number of reviews.                   *)
(***************************************************************************)
EXTENDS Reviews, TLAPS

\* No sum of ratings passes five stars for each review counted.
RatingsFit(agg) == agg.sum <= 5 * agg.count

\* What an open request loaded is no newer than the committed reviews, and is the
\* provider as it stands as long as nothing was committed since.
LoadedSound(w) ==
  tx[w].at # "idle" =>
    /\ tx[w].given \in Ratings
    /\ tx[w].loaded \in Profiles
    /\ tx[w].loaded.count <= reviews.count
    /\ ~tx[w].overlapped => tx[w].loaded = provider

\* What it aggregated counts its own review and committed ones only, and all of
\* them as long as nothing was committed since.
FreshSound(w) ==
  tx[w].at = "aggregated" =>
    /\ tx[w].fresh \in Aggregates
    /\ tx[w].fresh.count \in 1..(reviews.count + 1)
    /\ RatingsFit(tx[w].fresh)
    /\ ~tx[w].overlapped =>
         tx[w].fresh = [count |-> reviews.count + 1, sum |-> reviews.sum + tx[w].given]

\* The type of one request's transaction.
Transactions == [at: {"idle", "loaded", "aggregated"}, given: Ratings \cup {0},
                 loaded: Profiles \cup {NULL}, fresh: Aggregates \cup {NULL}, overlapped: BOOLEAN]

ReputationInv ==
  /\ TypeOK
  /\ RatingsFit(reviews)
  /\ \A w \in Workers : LoadedSound(w) /\ FreshSound(w)
  /\ CountNeverOverstates
  /\ ReputationIsRepaired

USE RatingsAssumption

-----------------------------------------------------------------------------
LEMMA DivBounds ==
  ASSUME NEW a \in Nat, NEW b \in Nat, b > 0
  PROVE  a \div b \in Nat /\ b * (a \div b) <= a
  BY SMT

LEMMA QuotientBelow ==
  ASSUME NEW a \in Nat, NEW b \in Nat, b > 0, a < 501 * b, NEW q \in Nat, b * q <= a
  PROVE  q <= 500
<1> SUFFICES ASSUME q >= 501 PROVE FALSE
  OBVIOUS
<1>1. b * q >= b * 501
  BY Z3
<1> QED BY <1>1

LEMMA HundredthsInRange ==
  ASSUME NEW agg \in Aggregates, RatingsFit(agg)
  PROVE  Hundredths(agg) \in 0..500
<1> DEFINE a == 200 * agg.sum + agg.count
           b == 2 * agg.count
<1>1. agg.count \in Nat /\ agg.sum \in Nat /\ agg.sum <= 5 * agg.count
  BY DEF Aggregates, RatingsFit
<1>2. CASE agg.count = 0
  BY <1>2 DEF Hundredths
<1>3. CASE agg.count > 0
  <2>1. a \in Nat /\ b \in Nat /\ b > 0 /\ a < 501 * b
    BY <1>1, <1>3
  <2>2. a \div b \in Nat /\ b * (a \div b) <= a
    <3> HIDE DEF a, b
    <3> QED BY <2>1, DivBounds
  <2>3. a \div b <= 500
    <3> HIDE DEF a, b
    <3> QED BY <2>1, <2>2, QuotientBelow
  <2>4. Hundredths(agg) = a \div b
    BY <1>1, <1>3 DEF Hundredths
  <2> HIDE DEF a, b
  <2> QED BY <2>2, <2>3, <2>4
<1> QED BY <1>1, <1>2, <1>3

-----------------------------------------------------------------------------
LEMMA MarkedType ==
  ASSUME NEW t \in Transactions, NEW o \in BOOLEAN
  PROVE  [t EXCEPT !.overlapped = o] \in Transactions
  BY DEF Transactions

LEMMA IdleType == Idle \in Transactions
  BY DEF Idle, Transactions

LEMMA ReputationInit == Init => ReputationInv
<1> SUFFICES ASSUME Init PROVE ReputationInv
  OBVIOUS
<1> USE DEF Init
<1>1. TypeOK
  <2>1. reviews \in Aggregates /\ provider \in Profiles
    BY DEF Aggregates, Profiles
  <2> QED BY <2>1, IdleType DEF TypeOK, Transactions
<1>2. RatingsFit(reviews) /\ CountNeverOverstates
  BY DEF RatingsFit, CountNeverOverstates
<1>3. \A w \in Workers : LoadedSound(w) /\ FreshSound(w)
  BY DEF Idle, LoadedSound, FreshSound
<1>4. ReputationIsRepaired
  BY DEF ReputationIsRepaired, ReputationMatches, Hundredths
<1> QED BY <1>1, <1>2, <1>3, <1>4 DEF ReputationInv

\* A step of one worker that commits nothing leaves the others' sound.
LEMMA PrivateStep ==
  ASSUME ReputationInv, NEW w \in Workers, UNCHANGED <<reviews, provider, lost>>,
         TypeOK', \A v \in Workers \ {w} : tx'[v] = tx[v], LoadedSound(w)', FreshSound(w)'
  PROVE  ReputationInv'
<1>1. ASSUME NEW v \in Workers PROVE LoadedSound(v)' /\ FreshSound(v)'
  BY <1>1 DEF ReputationInv, LoadedSound, FreshSound, RatingsFit
<1> QED BY <1>1 DEF ReputationInv, RatingsFit, CountNeverOverstates, ReputationIsRepaired,
                    ReputationMatches, Hundredths

LEMMA LoadStep ==
  ASSUME ReputationInv, NEW w \in Workers, NEW stars \in Ratings, LoadProvider(w, stars)
  PROVE  ReputationInv'
<1> USE DEF ReputationInv, TypeOK
<1>1. tx'[w] = [at |-> "loaded", given |-> stars, loaded |-> provider, fresh |-> NULL, overlapped |-> FALSE]
  BY DEF LoadProvider, Idle
<1>2. TypeOK'
  BY DEF LoadProvider, Idle
<1>3. \A v \in Workers \ {w} : tx'[v] = tx[v]
  BY DEF LoadProvider
<1>4. UNCHANGED <<reviews, provider, lost>>
  BY DEF LoadProvider
<1>5. LoadedSound(w)' /\ FreshSound(w)'
  BY <1>1, <1>4 DEF LoadedSound, FreshSound, CountNeverOverstates
<1> HIDE DEF ReputationInv, TypeOK
<1> QED BY <1>2, <1>3, <1>4, <1>5, PrivateStep

LEMMA AggregateStep ==
  ASSUME ReputationInv, NEW w \in Workers, Aggregate(w)
  PROVE  ReputationInv'
<1> DEFINE own == [count |-> reviews.count + 1, sum |-> reviews.sum + tx[w].given]
<1>1. tx'[w] = [tx[w] EXCEPT !.at = "aggregated", !.fresh = own]
  BY DEF Aggregate, ReputationInv, TypeOK
<1>2. own \in Aggregates /\ RatingsFit(own) /\ own.count \in 1..(reviews.count + 1)
  BY DEF Aggregate, ReputationInv, TypeOK, LoadedSound, Aggregates, RatingsFit
<1>3. TypeOK'
  BY <1>2 DEF Aggregate, ReputationInv, TypeOK
<1>4. UNCHANGED <<reviews, provider, lost>> /\ \A v \in Workers \ {w} : tx'[v] = tx[v]
  BY DEF Aggregate, ReputationInv, TypeOK
<1>5. LoadedSound(w)'
  BY <1>1, <1>4 DEF Aggregate, ReputationInv, TypeOK, LoadedSound
<1>6. FreshSound(w)'
  <2>1. tx'[w].fresh = own /\ tx'[w].given = tx[w].given
    BY <1>1 DEF ReputationInv, TypeOK
  <2> QED BY <1>2, <1>4, <2>1 DEF FreshSound, RatingsFit
<1> QED BY <1>3, <1>4, <1>5, <1>6, PrivateStep

LEMMA CommitStep ==
  ASSUME ReputationInv, NEW w \in Workers, Commit(w)
  PROVE  ReputationInv'
<1> DEFINE f == tx[w].fresh
           l == tx[w].loaded
<1>1. /\ reviews \in Aggregates /\ reviews.count \in Nat /\ reviews.sum \in Nat
      /\ reviews.sum <= 5 * reviews.count /\ reviews.count < MaxReviews
      /\ provider \in Profiles /\ provider.count <= reviews.count
  BY DEF Commit, ReputationInv, TypeOK, Aggregates, RatingsFit, CountNeverOverstates
<1>2. tx[w].given \in 1..5 /\ l \in Profiles /\ l.count <= reviews.count
  BY DEF Commit, ReputationInv, LoadedSound
<1>3. f \in Aggregates /\ f.count \in 1..(reviews.count + 1) /\ RatingsFit(f)
  BY DEF Commit, ReputationInv, FreshSound
<1>4. reviews' = [count |-> reviews.count + 1, sum |-> reviews.sum + tx[w].given]
  BY DEF Commit
<1>5. reviews' \in Aggregates /\ RatingsFit(reviews')
  BY <1>1, <1>2, <1>4 DEF Aggregates, RatingsFit
<1>6. provider' = [count |-> IF f.count = l.count THEN provider.count ELSE f.count,
                   rating |-> IF SameRating(f, l.rating) THEN provider.rating ELSE Hundredths(f)]
  BY DEF Commit
<1>7. Hundredths(f) \in 0..500
  BY <1>3, HundredthsInRange
<1>8. provider' \in Profiles /\ provider'.count <= reviews'.count
  <2>1. provider'.count \in Nat /\ provider'.count <= reviews.count + 1
    BY <1>1, <1>3, <1>6 DEF Profiles
  <2>2. provider'.rating \in 0..500
    BY <1>1, <1>6, <1>7 DEF Profiles
  <2> QED BY <1>1, <1>4, <1>6, <2>1, <2>2 DEF Profiles
<1>9. ASSUME NEW v \in Workers, v # w
      PROVE  tx'[v] = [tx[v] EXCEPT !.overlapped = (tx[v].at # "idle")]
  BY <1>9 DEF Commit, Open
<1>10. tx'[w] = Idle
  BY DEF Commit
<1>11. TypeOK'
  <2>1. ASSUME NEW v \in Workers
        PROVE  tx'[v] \in [at: {"idle", "loaded", "aggregated"}, given: Ratings \cup {0},
                           loaded: Profiles \cup {NULL}, fresh: Aggregates \cup {NULL},
                           overlapped: BOOLEAN]
    <3>1. CASE v = w
      BY <1>10, <3>1, IdleType DEF Transactions
    <3>2. CASE v # w
      <4>1. tx[v] \in Transactions
        BY DEF ReputationInv, TypeOK, Transactions
      <4>2. \E o \in BOOLEAN : tx'[v] = [tx[v] EXCEPT !.overlapped = o]
        <5>1. CASE tx[v].at = "idle"
          <6>1. tx'[v] = [tx[v] EXCEPT !.overlapped = FALSE]
            BY <1>9, <3>2, <5>1
          <6> QED BY <6>1
        <5>2. CASE tx[v].at # "idle"
          <6>1. tx'[v] = [tx[v] EXCEPT !.overlapped = TRUE]
            BY <1>9, <3>2, <5>2
          <6> QED BY <6>1
        <5> QED BY <5>1, <5>2
      <4>3. tx'[v] \in Transactions
        BY <4>1, <4>2, MarkedType
      <4> QED BY <4>3 DEF Transactions
    <3> QED BY <3>1, <3>2
  <2>2. tx' = [v \in Workers |-> tx'[v]]
    BY DEF Commit
  <2>3. lost' \in BOOLEAN
    BY DEF Commit, ReputationInv, TypeOK
  <2> QED BY <1>5, <1>8, <2>1, <2>2, <2>3 DEF TypeOK
<1>12. ASSUME NEW v \in Workers PROVE LoadedSound(v)' /\ FreshSound(v)'
  <2>1. CASE v = w
    BY <1>10, <2>1 DEF LoadedSound, FreshSound, Idle
  <2>2. CASE v # w
    <3>1. tx'[v] = [tx[v] EXCEPT !.overlapped = (tx[v].at # "idle")]
      BY <1>9, <2>2
    <3>2. /\ tx'[v].at = tx[v].at /\ tx'[v].given = tx[v].given /\ tx'[v].loaded = tx[v].loaded
          /\ tx'[v].fresh = tx[v].fresh /\ (tx[v].at # "idle" => tx'[v].overlapped)
      BY <3>1 DEF ReputationInv, TypeOK
    <3>3. LoadedSound(v) /\ FreshSound(v)
      BY DEF ReputationInv
    <3>4. reviews'.count = reviews.count + 1
      BY <1>4
    <3>5. LoadedSound(v)'
      <4> SUFFICES ASSUME tx[v].at # "idle"
                   PROVE  /\ tx[v].given \in Ratings /\ tx[v].loaded \in Profiles
                          /\ tx[v].loaded.count <= reviews'.count
        BY <3>2 DEF LoadedSound, Profiles
      <4> QED BY <1>1, <3>3, <3>4 DEF LoadedSound, Profiles
    <3>6. FreshSound(v)'
      <4> SUFFICES ASSUME tx[v].at = "aggregated"
                   PROVE  /\ tx[v].fresh \in Aggregates /\ RatingsFit(tx[v].fresh)
                          /\ tx[v].fresh.count \in 1..(reviews'.count + 1)
        BY <3>2 DEF FreshSound, RatingsFit, Aggregates
      <4> QED BY <1>1, <3>3, <3>4 DEF FreshSound, Aggregates
    <3> QED BY <3>5, <3>6
  <2> QED BY <2>1, <2>2
<1>13. ReputationIsRepaired'
  <2>1. CASE tx[w].overlapped
    BY <2>1 DEF Commit, ReputationIsRepaired
  <2>2. CASE ~tx[w].overlapped
    <3>1. l = provider /\ f = reviews'
      BY <1>4, <2>2 DEF Commit, ReputationInv, LoadedSound, FreshSound
    <3>2. provider'.count = reviews'.count
      BY <1>1, <1>4, <1>6, <3>1
    <3>3. provider'.rating = Hundredths(f)
      BY <1>6, <3>1 DEF SameRating
    <3>4. provider' = [count |-> reviews'.count, rating |-> Hundredths(f)]
      BY <1>6, <3>2, <3>3
    <3>5. Hundredths(f) = Hundredths(reviews)'
      BY <3>1 DEF Hundredths
    <3> QED BY <3>4, <3>5 DEF ReputationIsRepaired, ReputationMatches
  <2> QED BY <2>1, <2>2 DEF ReputationInv, TypeOK
<1>14. CountNeverOverstates'
  BY <1>8 DEF CountNeverOverstates
<1>15. RatingsFit(reviews)'
  BY <1>5 DEF RatingsFit
<1> QED BY <1>11, <1>12, <1>13, <1>14, <1>15 DEF ReputationInv

LEMMA AbortStep ==
  ASSUME ReputationInv, NEW w \in Workers, Abort(w)
  PROVE  ReputationInv'
<1>1. tx'[w] = Idle /\ UNCHANGED <<reviews, provider, lost>>
  BY DEF Abort, ReputationInv, TypeOK
<1>2. TypeOK'
  BY DEF Abort, ReputationInv, TypeOK, Idle
<1>3. \A v \in Workers \ {w} : tx'[v] = tx[v]
  BY DEF Abort, ReputationInv, TypeOK
<1>4. LoadedSound(w)' /\ FreshSound(w)'
  BY <1>1 DEF LoadedSound, FreshSound, Idle
<1> QED BY <1>1, <1>2, <1>3, <1>4, PrivateStep

LEMMA ReputationStep == ReputationInv /\ [Next]_vars => ReputationInv'
<1> SUFFICES ASSUME ReputationInv, [Next]_vars PROVE ReputationInv'
  OBVIOUS
<1>1. CASE UNCHANGED vars
  BY <1>1 DEF vars, ReputationInv, TypeOK, LoadedSound, FreshSound, RatingsFit, CountNeverOverstates,
              ReputationIsRepaired, ReputationMatches, Hundredths
<1>2. ASSUME NEW w \in Workers, NEW stars \in Ratings, LoadProvider(w, stars) PROVE ReputationInv'
  BY <1>2, LoadStep
<1>3. ASSUME NEW w \in Workers, Aggregate(w) PROVE ReputationInv'
  BY <1>3, AggregateStep
<1>4. ASSUME NEW w \in Workers, Commit(w) PROVE ReputationInv'
  BY <1>4, CommitStep
<1>5. ASSUME NEW w \in Workers, Abort(w) PROVE ReputationInv'
  BY <1>5, AbortStep
<1> QED BY <1>1, <1>2, <1>3, <1>4, <1>5 DEF Next

LEMMA ReputationHolds == Spec => []ReputationInv
  BY ReputationInit, ReputationStep, PTL DEF Spec

-----------------------------------------------------------------------------
\* The two columns, the aggregates and the requests' transactions keep their types:
\* in particular the rating written never passes five stars, however many reviews
\* it averages and however they overlapped.
THEOREM TypeCorrect == Spec => []TypeOK
<1>1. ReputationInv => TypeOK
  BY DEF ReputationInv
<1> QED BY <1>1, ReputationHolds, PTL

\* The count the provider shows is never above the reviews that exist.
THEOREM CountIsHonest == Spec => []CountNeverOverstates
<1>1. ReputationInv => CountNeverOverstates
  BY DEF ReputationInv
<1> QED BY <1>1, ReputationHolds, PTL

\* Whenever the last commit was one that no other overlapped, both columns are what
\* an aggregate over all the reviews gives.
THEOREM Repaired == Spec => []ReputationIsRepaired
<1>1. ReputationInv => ReputationIsRepaired
  BY DEF ReputationInv
<1> QED BY <1>1, ReputationHolds, PTL
=============================================================================
