--------------------------------- MODULE Reviews ---------------------------------
(***************************************************************************)
(* The reputation of one provider: create_review of                        *)
(* core-api/app/entities/reviews/router.py and refresh_provider_reputation *)
(* of reviews/service.py.                                                  *)
(*                                                                         *)
(* A request loads the provider, inserts a review, aggregates the reviews  *)
(* it can see (the committed ones and its own), and commits the review and *)
(* the provider's two columns together.  Requests overlap; the provider's  *)
(* row is not locked while they aggregate.                                 *)
(***************************************************************************)
EXTENDS Integers

CONSTANTS
  MaxReviews,  \* bound: reviews ever committed
  Ratings,     \* the ratings given
  Workers,     \* requests served at the same time
  NULL         \* an absent value

ASSUME RatingsAssumption == Ratings \subseteq 1..5 /\ MaxReviews \in Nat
ASSUME NullAssumption == NULL \notin [count: Nat, rating: Nat] \cup [count: Nat, sum: Nat]

VARIABLES
  reviews,   \* the committed reviews: [count, sum of their ratings]
  provider,  \* the provider's review_count, and its rating in hundredths
  tx,        \* worker -> its open transaction
  lost       \* history: was the provider last written by an overlapped request

vars == <<reviews, provider, tx, lost>>

Aggregates == [count: 0..MaxReviews, sum: 0..(5 * MaxReviews)]
Profiles   == [count: 0..MaxReviews, rating: 0..500]

Idle == [at |-> "idle", given |-> 0, loaded |-> NULL, fresh |-> NULL, overlapped |-> FALSE]

TypeOK ==
  /\ reviews \in Aggregates
  /\ provider \in Profiles
  /\ tx \in [Workers -> [at: {"idle", "loaded", "aggregated"}, given: Ratings \cup {0},
                         loaded: Profiles \cup {NULL}, fresh: Aggregates \cup {NULL},
                         overlapped: BOOLEAN]]
  /\ lost \in BOOLEAN

Init ==
  /\ reviews = [count |-> 0, sum |-> 0]
  /\ provider = [count |-> 0, rating |-> 0]
  /\ tx = [w \in Workers |-> Idle]
  /\ lost = FALSE

-----------------------------------------------------------------------------
\* Wrong variant: the divisor is the count of the earlier reviews.
HundredthsOfMore(agg) ==
  IF agg.count < 2 THEN 100 * agg.sum ELSE (100 * agg.sum) \div (agg.count - 1)

\* The average as the column Numeric(3, 2) keeps it: rounded, halves up.
Hundredths(agg) ==
  IF agg.count = 0 THEN 0 ELSE (200 * agg.sum + agg.count) \div (2 * agg.count)

\* Is the float average equal to the decimal that was loaded?  Only when the
\* average is a binary fraction: otherwise the two differ and the column is written.
SameRating(agg, loaded) ==
  /\ agg.count > 0 => (4 * agg.sum) % agg.count = 0
  /\ Hundredths(agg) = loaded

Open(w) == tx[w].at # "idle"

LoadProvider(w, stars) ==
  /\ ~Open(w)
  /\ reviews.count < MaxReviews
  /\ tx' = [tx EXCEPT ![w] = [Idle EXCEPT !.at = "loaded", !.given = stars, !.loaded = provider]]
  /\ UNCHANGED <<reviews, provider, lost>>

\* Wrong variant: the aggregate is taken before the review is flushed.
AggregateBeforeFlush(w) ==
  /\ tx[w].at = "loaded"
  /\ tx' = [tx EXCEPT ![w].at = "aggregated", ![w].fresh = reviews]
  /\ UNCHANGED <<reviews, provider, lost>>

\* Wrong variant: the reputation is committed by itself, the review afterwards.
AggregateCommitting(w) ==
  /\ tx[w].at = "loaded"
  /\ reviews.count < MaxReviews
  /\ LET fresh == [count |-> reviews.count + 1, sum |-> reviews.sum + tx[w].given]
     IN /\ tx' = [tx EXCEPT ![w].at = "aggregated", ![w].fresh = fresh]
        /\ provider' = [count |-> fresh.count, rating |-> Hundredths(fresh)]
  /\ UNCHANGED <<reviews, lost>>

\* The review is flushed, then counted with the committed ones.
Aggregate(w) ==
  /\ tx[w].at = "loaded"
  /\ reviews.count < MaxReviews
  /\ tx' = [tx EXCEPT ![w].at = "aggregated",
                      ![w].fresh = [count |-> reviews.count + 1,
                                    sum |-> reviews.sum + tx[w].given]]
  /\ UNCHANGED <<reviews, provider, lost>>

\* The review becomes visible together with the provider's changed columns.
Commit(w) ==
  /\ tx[w].at = "aggregated"
  /\ reviews.count < MaxReviews
  /\ reviews' = [count |-> reviews.count + 1, sum |-> reviews.sum + tx[w].given]
  /\ provider' =
       [count |-> IF tx[w].fresh.count = tx[w].loaded.count THEN provider.count
                  ELSE tx[w].fresh.count,
        rating |-> IF SameRating(tx[w].fresh, tx[w].loaded.rating) THEN provider.rating
                   ELSE Hundredths(tx[w].fresh)]
  /\ lost' = tx[w].overlapped
  /\ tx' = [v \in Workers |-> IF v = w THEN Idle
                              ELSE [tx[v] EXCEPT !.overlapped = Open(v)]]

Abort(w) ==
  /\ Open(w)
  /\ tx' = [tx EXCEPT ![w] = Idle]
  /\ UNCHANGED <<reviews, provider, lost>>

Next ==
  \E w \in Workers :
    \/ \E stars \in Ratings : LoadProvider(w, stars)
    \/ Aggregate(w) \/ Commit(w) \/ Abort(w)

Spec == Init /\ [][Next]_vars

-----------------------------------------------------------------------------
ReputationMatches ==
  provider = [count |-> reviews.count, rating |-> Hundredths(reviews)]

\* The reputation is wrong only for as long as nobody writes a review alone: a
\* request that no other one overlapped repairs whatever earlier races left.
ReputationIsRepaired == lost \/ ReputationMatches

\* Overlapping requests lose reviews from the count, they never invent any: no
\* rollback, however late, leaves a review counted that does not exist.
CountNeverOverstates == provider.count <= reviews.count
=============================================================================
