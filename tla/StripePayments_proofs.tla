-------------------------- MODULE StripePayments_proofs --------------------------
(***************************************************************************)
(* Proofs about StripePayments, for any number of rows, sessions and       *)
(* workers.                                                                *)
(***************************************************************************)
EXTENDS StripePayments, TLAPS

\* The type of one request's transaction.
Transactions == [at: {"idle", "payment", "order", "checkout"}, kind: Kinds \cup {NULL},
                 intent: Intents \cup {NULL}, row: Rows \cup {NULL},
                 status: PayStatuses \cup {NULL}, bound: Intents \cup {NULL},
                 fin: FinStatuses \cup {NULL}, fallback: BOOLEAN, overlapped: BOOLEAN]

BySession == {"completed", "failed"}

\* An event's row was found by its session or by its charge, or is a guess.
RowFound(w) ==
  tx[w].at \in {"payment", "order"} =>
    /\ tx[w].kind \in Kinds /\ tx[w].intent \in Intents /\ tx[w].row \in Rows
    /\ tx[w].status \in PayStatuses
    /\ ~tx[w].fallback /\ tx[w].kind \in BySession => tx[w].row = tx[w].intent
    /\ ~tx[w].fallback /\ tx[w].kind \notin BySession => tx[w].bound = tx[w].intent

\* What was read is what is committed, as long as no commit came in between.
ReadSound(w) ==
  /\ tx[w].at \in {"payment", "order"} /\ ~tx[w].overlapped =>
       tx[w].status = status[tx[w].row] /\ tx[w].bound = intent[tx[w].row]
  /\ tx[w].at = "order" => tx[w].fin \in FinStatuses /\ (~tx[w].overlapped => tx[w].fin = order)

\* A checkout that waits for Mercado Pago is the only one, and has room for its row.
CheckoutAlone ==
  \A w \in Workers : tx[w].at = "checkout" =>
    last < MaxRows /\ \A v \in Workers \ {w} : tx[v].at # "checkout"

StripeInv ==
  /\ TypeOK
  /\ CheckoutAlone
  /\ \A w \in Workers : RowFound(w) /\ ReadSound(w)
  /\ IntentsAreOwn
  /\ OrderMirrorsLastEvent
  /\ PayoutIsNotUndone

USE RowsAssumption, NullAssumption
USE DEF PAID, AWAITING, CREATED, PAYOUT, REFUNDED, DISPUTED, FAILED

-----------------------------------------------------------------------------
LEMMA IdleType == Idle \in Transactions
  BY DEF Idle, Transactions

LEMMA IntentsAreRows == Intents \subseteq Rows /\ \A r \in Rows : r # NULL
  BY DEF Intents, Rows

\* TypeOK, with the type of a transaction named.
LEMMA TypeSplit ==
  TypeOK <=> /\ last \in 1..MaxRows
             /\ status \in [Rows -> PayStatuses]
             /\ intent \in [Rows -> Intents \cup {NULL}]
             /\ order \in FinStatuses
             /\ charge \in [Intents -> DOMAIN Reports]
             /\ tx \in [Workers -> Transactions]
             /\ written \in Rows \cup {NULL}
             /\ guessed \subseteq Rows
             /\ settled \subseteq Rows
  BY DEF TypeOK, Transactions

LEMMA TypeNext ==
  TypeOK' <=> /\ last' \in 1..MaxRows
              /\ status' \in [Rows -> PayStatuses]
              /\ intent' \in [Rows -> Intents \cup {NULL}]
              /\ order' \in FinStatuses
              /\ charge' \in [Intents -> DOMAIN Reports]
              /\ tx' \in [Workers -> Transactions]
              /\ written' \in Rows \cup {NULL}
              /\ guessed' \subseteq Rows
              /\ settled' \subseteq Rows
  BY DEF TypeOK, Transactions

LEMMA StripeInit == Init => StripeInv
<1> SUFFICES ASSUME Init PROVE StripeInv
  OBVIOUS
<1> USE DEF Init
<1>1. TypeOK
  <2>1. last \in 1..MaxRows
    OBVIOUS
  <2>2. status \in [Rows -> PayStatuses] /\ intent \in [Rows -> Intents \cup {NULL}] /\ order \in FinStatuses
    BY DEF PayStatuses, FinStatuses
  <2>3. charge \in [Intents -> DOMAIN Reports]
    BY DEF Reports
  <2>4. tx \in [Workers -> Transactions]
    BY IdleType
  <2> QED BY <2>1, <2>2, <2>3, <2>4, TypeSplit
<1>2. \A w \in Workers : RowFound(w) /\ ReadSound(w)
  BY DEF RowFound, ReadSound, Idle
<1>3. IntentsAreOwn /\ OrderMirrorsLastEvent /\ PayoutIsNotUndone /\ CheckoutAlone
  BY DEF IntentsAreOwn, OrderMirrorsLastEvent, PayoutIsNotUndone, CheckoutAlone, Idle
<1> QED BY <1>1, <1>2, <1>3 DEF StripeInv

-----------------------------------------------------------------------------
\* A request that takes a step of its own and commits nothing.
LEMMA PrivateStep ==
  ASSUME StripeInv, NEW w \in Workers, NEW t \in Transactions, tx' = [tx EXCEPT ![w] = t],
         UNCHANGED <<last, status, intent, order, charge, written, guessed, settled>>,
         RowFound(w)', ReadSound(w)',
         t.at = "checkout" => last < MaxRows /\ \A v \in Workers : tx[v].at # "checkout"
  PROVE  StripeInv'
<1>1. TypeOK'
  BY TypeSplit, TypeNext DEF StripeInv
<1>2. ASSUME NEW v \in Workers PROVE RowFound(v)' /\ ReadSound(v)'
  <2>1. CASE v = w
    BY <2>1
  <2>2. CASE v # w
    <3>1. tx'[v] = tx[v] /\ RowFound(v) /\ ReadSound(v)
      BY <2>2 DEF StripeInv, TypeOK
    <3> QED BY <3>1 DEF RowFound, ReadSound
  <2> QED BY <2>1, <2>2
<1>3. IntentsAreOwn' /\ OrderMirrorsLastEvent' /\ PayoutIsNotUndone'
  BY DEF StripeInv, IntentsAreOwn, OrderMirrorsLastEvent, PayoutIsNotUndone
<1>4. CheckoutAlone'
  BY DEF StripeInv, CheckoutAlone, TypeOK
<1> QED BY <1>1, <1>2, <1>3, <1>4 DEF StripeInv

\* An event's row is loaded.
LEMMA LoadedStep ==
  ASSUME StripeInv, NEW w \in Workers, NEW kind \in Kinds, NEW i \in Intents, NEW r \in Rows,
         NEW fallback \in BOOLEAN, Loaded(w, kind, i, r, fallback),
         ~fallback /\ kind \in BySession => r = i,
         ~fallback /\ kind \notin BySession => intent[r] = i,
         UNCHANGED <<last, status, intent, order, charge, written, guessed, settled>>
  PROVE  StripeInv'
<1> DEFINE t == [Idle EXCEPT !.at = "payment", !.kind = kind, !.intent = i, !.row = r,
                             !.status = status[r], !.bound = intent[r], !.fallback = fallback]
<1>1. status[r] \in PayStatuses /\ intent[r] \in Intents \cup {NULL}
  BY DEF StripeInv, TypeOK
<1>2. t \in Transactions
  BY <1>1, IdleType DEF Transactions
<1>3. /\ t.at = "payment" /\ t.kind = kind /\ t.intent = i /\ t.row = r /\ t.status = status[r]
      /\ t.bound = intent[r] /\ t.fallback = fallback
  BY IdleType DEF Transactions
<1>4. tx' = [tx EXCEPT ![w] = t] /\ tx'[w] = t
  BY DEF Loaded, StripeInv, TypeOK
<1> HIDE DEF t
<1>5. RowFound(w)' /\ ReadSound(w)'
  BY <1>1, <1>3, <1>4 DEF RowFound, ReadSound
<1> QED BY <1>2, <1>3, <1>4, <1>5, PrivateStep

LEMMA LoadStep ==
  ASSUME StripeInv, NEW w \in Workers, NEW kind \in Kinds, NEW i \in Intents,
         LoadBySession(w, kind, i) \/ LoadByIntent(w, kind, i) \/ LoadByOrder(w, kind, i)
  PROVE  StripeInv'
<1>1. CASE LoadBySession(w, kind, i)
  BY <1>1, LoadedStep, IntentsAreRows DEF LoadBySession, BySession
<1>2. CASE LoadByIntent(w, kind, i)
  <2>1. PICK r \in Bound(i) : Loaded(w, kind, i, r, FALSE)
    BY <1>2 DEF LoadByIntent
  <2>2. r \in Rows /\ intent[r] = i
    BY <2>1 DEF Bound, Rows, StripeInv, TypeOK
  <2> QED BY <1>2, <2>1, <2>2, LoadedStep DEF LoadByIntent, BySession
<1>3. CASE LoadByOrder(w, kind, i)
  <2>1. last \in Rows
    BY DEF Rows, StripeInv, TypeOK
  <2> QED BY <1>3, <2>1, LoadedStep DEF LoadByOrder
<1> QED BY <1>1, <1>2, <1>3

LEMMA LoadOrderStep ==
  ASSUME StripeInv, NEW w \in Workers, LoadOrder(w)
  PROVE  StripeInv'
<1> DEFINE t == [tx[w] EXCEPT !.at = "order", !.fin = order]
<1>1. tx[w] \in Transactions /\ RowFound(w) /\ ReadSound(w) /\ tx[w].at = "payment" /\ order \in FinStatuses
  BY TypeSplit DEF StripeInv, LoadOrder
<1>2. /\ t \in Transactions /\ t.at = "order" /\ t.fin = order /\ t.kind = tx[w].kind
      /\ t.intent = tx[w].intent /\ t.row = tx[w].row /\ t.status = tx[w].status
      /\ t.bound = tx[w].bound /\ t.fallback = tx[w].fallback /\ t.overlapped = tx[w].overlapped
  BY <1>1 DEF Transactions
<1>3. /\ tx' = [tx EXCEPT ![w] = t] /\ tx'[w] = t
      /\ UNCHANGED <<last, status, intent, order, charge, written, guessed, settled>>
  BY DEF LoadOrder, StripeInv, TypeOK
<1> HIDE DEF t
<1>4. RowFound(w)' /\ ReadSound(w)'
  BY <1>1, <1>2, <1>3 DEF RowFound, ReadSound
<1> QED BY <1>2, <1>3, <1>4, PrivateStep

LEMMA AbortStep ==
  ASSUME StripeInv, NEW w \in Workers, Abort(w)
  PROVE  StripeInv'
<1>1. /\ tx' = [tx EXCEPT ![w] = Idle] /\ tx'[w] = Idle
      /\ UNCHANGED <<last, status, intent, order, charge, written, guessed, settled>>
  BY DEF Abort, StripeInv, TypeOK
<1>2. RowFound(w)' /\ ReadSound(w)'
  BY <1>1 DEF RowFound, ReadSound, Idle
<1>3. Idle.at # "checkout"
  BY DEF Idle
<1> QED BY <1>1, <1>2, <1>3, IdleType, PrivateStep

LEMMA StripeStepStep ==
  ASSUME StripeInv, NEW i \in Intents, StripeStep(i)
  PROVE  StripeInv'
<1>1. UNCHANGED <<last, status, intent, order, tx, written, guessed, settled>>
  BY DEF StripeStep
<1>2. charge' \in [Intents -> DOMAIN Reports]
  BY DEF StripeStep, Reports, StripeInv, TypeOK
<1>3. TypeOK'
  BY <1>1, <1>2, TypeSplit, TypeNext DEF StripeInv
<1> QED BY <1>1, <1>3 DEF StripeInv, RowFound, ReadSound, IntentsAreOwn, OrderMirrorsLastEvent, PayoutIsNotUndone, CheckoutAlone

-----------------------------------------------------------------------------
\* What a commit leaves of a request that it overlapped.
LEMMA OverlappedSound ==
  ASSUME StripeInv, NEW v \in Workers, tx'[v] = Overlapped(v)
  PROVE  tx'[v] \in Transactions /\ RowFound(v)' /\ ReadSound(v)' /\ tx'[v].at = tx[v].at
<1>1. tx[v] \in Transactions /\ RowFound(v) /\ ReadSound(v)
  BY TypeSplit DEF StripeInv
<1>2. CASE tx[v].at = "idle"
  <2>1. tx'[v] = Idle
    BY <1>2 DEF Overlapped
  <2> QED BY <1>2, <2>1, IdleType DEF RowFound, ReadSound, Idle
<1>3. CASE tx[v].at # "idle"
  <2>1. tx'[v] = [tx[v] EXCEPT !.overlapped = TRUE]
    BY <1>3 DEF Overlapped
  <2>2. /\ tx'[v] \in Transactions /\ tx'[v].overlapped = TRUE
        /\ tx'[v].at = tx[v].at /\ tx'[v].kind = tx[v].kind /\ tx'[v].intent = tx[v].intent
        /\ tx'[v].row = tx[v].row /\ tx'[v].status = tx[v].status /\ tx'[v].bound = tx[v].bound
        /\ tx'[v].fin = tx[v].fin /\ tx'[v].fallback = tx[v].fallback
    BY <1>1, <2>1 DEF Transactions
  <2> QED BY <1>1, <2>2 DEF RowFound, ReadSound
<1> QED BY <1>2, <1>3

LEMMA LoadCheckoutStep ==
  ASSUME StripeInv, NEW w \in Workers, LoadCheckout(w)
  PROVE  StripeInv'
<1> DEFINE t == [Idle EXCEPT !.at = "checkout", !.fin = order]
<1>1. t \in Transactions /\ t.at = "checkout"
  BY IdleType DEF Transactions, StripeInv, TypeOK
<1>2. /\ tx' = [tx EXCEPT ![w] = t] /\ tx'[w] = t
      /\ UNCHANGED <<last, status, intent, order, charge, written, guessed, settled>>
  BY DEF LoadCheckout, StripeInv, TypeOK
<1> HIDE DEF t
<1>3. RowFound(w)' /\ ReadSound(w)'
  BY <1>1, <1>2 DEF RowFound, ReadSound
<1>4. last < MaxRows /\ \A v \in Workers : tx[v].at # "checkout"
  BY DEF LoadCheckout
<1> QED BY <1>1, <1>2, <1>3, <1>4, PrivateStep

\* After the commit of w: w is idle, and the others have been overlapped.
LEMMA OverlapSound ==
  ASSUME StripeInv, NEW w \in Workers, tx' = Overlap(w)
  PROVE  /\ tx' \in [Workers -> Transactions]
         /\ \A v \in Workers : RowFound(v)' /\ ReadSound(v)'
         /\ \A v \in Workers : tx'[v].at = IF v = w THEN "idle" ELSE tx[v].at
<1>1. ASSUME NEW v \in Workers
      PROVE  /\ tx'[v] \in Transactions /\ RowFound(v)' /\ ReadSound(v)'
             /\ tx'[v].at = IF v = w THEN "idle" ELSE tx[v].at
  <2>1. CASE v = w
    <3>1. tx'[v] = Idle
      BY <2>1 DEF Overlap
    <3> QED BY <2>1, <3>1, IdleType DEF RowFound, ReadSound, Idle
  <2>2. CASE v # w
    <3>1. tx'[v] = Overlapped(v)
      BY <2>2 DEF Overlap
    <3> QED BY <2>2, <3>1, OverlappedSound
  <2> QED BY <2>1, <2>2
<1>2. tx' \in [Workers -> Transactions]
  BY <1>1 DEF Overlap
<1> QED BY <1>1, <1>2

LEMMA CommitCheckoutStep ==
  ASSUME StripeInv, NEW w \in Workers, CommitCheckout(w)
  PROVE  StripeInv'
<1>1. /\ last' = last + 1 /\ order' = Merged(order, tx[w].fin, AWAITING) /\ written' = NULL
      /\ tx' = Overlap(w) /\ UNCHANGED <<status, intent, charge, guessed, settled>>
  BY DEF CommitCheckout
<1>2. last' \in 1..MaxRows /\ order' \in FinStatuses
  BY <1>1 DEF Merged, FinStatuses, CommitCheckout, CheckoutAlone, StripeInv, TypeOK
<1>3. TypeOK'
  BY <1>1, <1>2, OverlapSound, TypeSplit, TypeNext DEF StripeInv
<1>4. IntentsAreOwn' /\ OrderMirrorsLastEvent' /\ PayoutIsNotUndone'
  BY <1>1 DEF StripeInv, IntentsAreOwn, OrderMirrorsLastEvent, PayoutIsNotUndone
<1>5. CheckoutAlone'
  BY <1>1, OverlapSound DEF CommitCheckout, CheckoutAlone, StripeInv
<1> QED BY <1>1, <1>3, <1>4, <1>5, OverlapSound DEF StripeInv

LEMMA OutcomeType ==
  ASSUME NEW kind \in Kinds, NEW before \in PayStatuses
  PROVE  /\ Outcome(kind, before) \in PayStatuses /\ Outcome(kind, before) \in FinStatuses
  BY DEF Outcome, Kinds, PayStatuses, FinStatuses

LEMMA CommitStep ==
  ASSUME StripeInv, NEW w \in Workers, Commit(w)
  PROVE  StripeInv'
<1> DEFINE t == tx[w]
           r == t.row
           outcome == Outcome(t.kind, t.status)
           i == IF t.kind = "failed" THEN t.bound ELSE t.intent
<1>1. /\ t \in Transactions /\ t.at = "order" /\ RowFound(w) /\ ReadSound(w)
      /\ t.bound \in Intents \cup {NULL} /\ t.overlapped \in BOOLEAN /\ t.fallback \in BOOLEAN
  BY TypeSplit DEF StripeInv, Commit, Transactions
<1>2. /\ t.kind \in Kinds /\ t.intent \in Intents /\ r \in Rows /\ r # NULL /\ t.status \in PayStatuses
      /\ t.fin \in FinStatuses
  BY <1>1, IntentsAreRows DEF RowFound, ReadSound
<1>3. outcome \in PayStatuses /\ outcome \in FinStatuses
  BY <1>2, OutcomeType
<1>4. i \in Intents \cup {NULL}
  BY <1>1, <1>2
<1>5. /\ status' = [status EXCEPT ![r] = Merged(@, t.status, outcome)]
      /\ intent' = [intent EXCEPT ![r] = Merged(@, t.bound, i)]
      /\ order' = Merged(order, t.fin, outcome) /\ written' = IF t.overlapped THEN NULL ELSE r
      /\ guessed' = IF t.fallback THEN guessed \cup {r}
                    ELSE IF i # t.bound THEN guessed \ {r} ELSE guessed
      /\ settled' = Standing(t) /\ tx' = Overlap(w) /\ UNCHANGED <<last, charge>>
  BY DEF Commit
<1> HIDE DEF outcome, i
<1>6. /\ tx' \in [Workers -> Transactions]
      /\ \A v \in Workers : RowFound(v)' /\ ReadSound(v)'
      /\ \A v \in Workers : tx'[v].at = IF v = w THEN "idle" ELSE tx[v].at
  BY <1>5, OverlapSound
<1>7. TypeOK'
  <2>1. status' \in [Rows -> PayStatuses]
    BY <1>2, <1>3, <1>5 DEF Merged, StripeInv, TypeOK
  <2>2. intent' \in [Rows -> Intents \cup {NULL}]
    BY <1>2, <1>4, <1>5 DEF Merged, StripeInv, TypeOK
  <2>3. order' \in FinStatuses
    BY <1>3, <1>5 DEF Merged, StripeInv, TypeOK
  <2>4. tx' \in [Workers -> Transactions]
    BY <1>6
  <2>5. settled' \subseteq Rows
    BY <1>2, <1>5 DEF Standing, StripeInv, TypeOK
  <2>6. guessed' \subseteq Rows /\ written' \in Rows \cup {NULL}
    BY <1>1, <1>2, <1>5 DEF StripeInv, TypeOK
  <2> QED BY <1>5, <2>1, <2>2, <2>3, <2>4, <2>5, <2>6, TypeSplit, TypeNext DEF StripeInv
<1>8. IntentsAreOwn'
  <2> SUFFICES ASSUME NEW q \in Rows, q \notin guessed' PROVE intent'[q] \in {q, NULL}
    BY DEF IntentsAreOwn
  <2>1. CASE q # r
    <3>1. intent'[q] = intent[q] /\ q \notin guessed
      BY <1>2, <1>5, <2>1 DEF StripeInv, TypeOK
    <3> QED BY <3>1 DEF StripeInv, IntentsAreOwn
  <2>2. CASE q = r
    <3>1. ~t.fallback /\ intent'[r] = Merged(intent[r], t.bound, i)
      BY <1>2, <1>5, <2>2 DEF StripeInv, TypeOK
    <3>2. CASE i = t.bound
      <4>1. intent'[r] = intent[r] /\ r \notin guessed
        BY <1>5, <2>2, <3>1, <3>2 DEF Merged
      <4> QED BY <1>2, <2>2, <4>1 DEF StripeInv, IntentsAreOwn
    <3>3. CASE i # t.bound
      <4>1. t.kind # "failed" /\ i = t.intent
        BY <3>3 DEF i
      <4>2. r = t.intent
        BY <1>1, <3>1, <3>3, <4>1 DEF RowFound
      <4> QED BY <2>2, <3>1, <3>3, <4>1, <4>2 DEF Merged
    <3> QED BY <3>2, <3>3
  <2> QED BY <2>1, <2>2
<1>9. OrderMirrorsLastEvent'
  <2> SUFFICES ASSUME ~t.overlapped, written' = r PROVE order' = status'[r]
    BY <1>5 DEF OrderMirrorsLastEvent
  <2>1. t.status = status[r] /\ t.fin = order
    BY <1>1 DEF ReadSound
  <2>2. status'[r] = Merged(status[r], t.status, outcome)
    BY <1>2, <1>5 DEF StripeInv, TypeOK
  <2> QED BY <1>5, <2>1, <2>2 DEF Merged
<1>10. PayoutIsNotUndone'
  <2> SUFFICES ASSUME NEW q \in settled' PROVE status'[q] \in {PAYOUT, REFUNDED}
    BY DEF PayoutIsNotUndone
  <2>1. CASE q # r
    <3>1. q \in settled /\ q \in Rows
      BY <1>5, <2>1 DEF Standing, StripeInv, TypeOK
    <3>2. status'[q] = status[q]
      BY <1>2, <1>5, <2>1, <3>1 DEF StripeInv, TypeOK
    <3> QED BY <3>1, <3>2 DEF StripeInv, PayoutIsNotUndone
  <2>2. CASE q = r
    <3>1. status'[r] = Merged(status[r], t.status, outcome)
      BY <1>2, <1>5 DEF StripeInv, TypeOK
    <3>2. t.kind \in {"completed", "payout", "refunded"}
      BY <1>2, <1>5, <2>2 DEF Standing, Kinds
    <3>3. CASE t.kind = "completed"
      <4>1. r \in settled /\ ~t.overlapped
        BY <1>5, <2>2, <3>3 DEF Standing
      <4>2. t.status = status[r] /\ status[r] \in {PAYOUT, REFUNDED}
        BY <1>1, <4>1 DEF ReadSound, StripeInv, PayoutIsNotUndone
      <4>3. outcome = t.status
        BY <3>3, <4>2 DEF outcome, Outcome
      <4> QED BY <2>2, <3>1, <4>2, <4>3 DEF Merged
    <3>4. CASE t.kind \in {"payout", "refunded"}
      <4>1. outcome \in {PAYOUT, REFUNDED}
        BY <3>4 DEF outcome, Outcome
      <4>2. CASE t.overlapped
        <5>1. r \in settled
          BY <1>5, <2>2, <3>4, <4>2 DEF Standing
        <5> QED BY <2>2, <3>1, <4>1, <5>1 DEF Merged, StripeInv, PayoutIsNotUndone
      <4>3. CASE ~t.overlapped
        <5>1. t.status = status[r]
          BY <1>1, <4>3 DEF ReadSound
        <5> QED BY <2>2, <3>1, <4>1, <5>1 DEF Merged
      <4> QED BY <4>2, <4>3
    <3> QED BY <3>2, <3>3, <3>4
  <2> QED BY <2>1, <2>2
<1>11. CheckoutAlone'
  BY <1>5, <1>6 DEF CheckoutAlone, StripeInv
<1> QED BY <1>6, <1>7, <1>8, <1>9, <1>10, <1>11 DEF StripeInv

LEMMA StripeInvStep == StripeInv /\ [Next]_vars => StripeInv'
<1> SUFFICES ASSUME StripeInv, [Next]_vars PROVE StripeInv'
  OBVIOUS
<1>1. CASE UNCHANGED vars
  BY <1>1 DEF vars, StripeInv, TypeOK, RowFound, ReadSound, IntentsAreOwn, OrderMirrorsLastEvent, PayoutIsNotUndone, CheckoutAlone
<1>2. ASSUME NEW i \in Intents, StripeStep(i) PROVE StripeInv'
  BY <1>2, StripeStepStep
<1>3. ASSUME NEW w \in Workers, LoadCheckout(w) \/ CommitCheckout(w) PROVE StripeInv'
  BY <1>3, LoadCheckoutStep, CommitCheckoutStep
<1>4. ASSUME NEW w \in Workers, NEW kind \in Kinds, NEW i \in Intents,
             LoadBySession(w, kind, i) \/ LoadByIntent(w, kind, i) \/ LoadByOrder(w, kind, i)
      PROVE  StripeInv'
  BY <1>4, LoadStep
<1>5. ASSUME NEW w \in Workers, LoadOrder(w) PROVE StripeInv'
  BY <1>5, LoadOrderStep
<1>6. ASSUME NEW w \in Workers, Commit(w) PROVE StripeInv'
  BY <1>6, CommitStep
<1>7. ASSUME NEW w \in Workers, Abort(w) PROVE StripeInv'
  BY <1>7, AbortStep
<1> QED BY <1>1, <1>2, <1>3, <1>4, <1>5, <1>6, <1>7 DEF Next

LEMMA StripeHolds == Spec => []StripeInv
  BY StripeInit, StripeInvStep, PTL DEF Spec

-----------------------------------------------------------------------------
\* Rows, order and the requests' transactions keep their types: the order never takes
\* a status that it cannot show, checkout_created least of all.
THEOREM TypeCorrect == Spec => []TypeOK
<1>1. StripeInv => TypeOK
  BY DEF StripeInv
<1> QED BY <1>1, StripeHolds, PTL

\* An intent gets onto a row that is not its own only through an event that named
\* the order and was put down to the newest row.
THEOREM IntentsStayOwn == Spec => []IntentsAreOwn
<1>1. StripeInv => IntentsAreOwn
  BY DEF StripeInv
<1> QED BY <1>1, StripeHolds, PTL

\* After a request that no other overlapped, the order shows the row it wrote.
THEOREM OrderMirrors == Spec => []OrderMirrorsLastEvent
<1>1. StripeInv => OrderMirrorsLastEvent
  BY DEF StripeInv
<1> QED BY <1>1, StripeHolds, PTL

\* A recorded payout or refund is undone by no late or repeated session, until a
\* dispute, a failed session, or a completed one in an overlapped request comes in.
THEOREM PayoutStays == Spec => []PayoutIsNotUndone
<1>1. StripeInv => PayoutIsNotUndone
  BY DEF StripeInv
<1> QED BY <1>1, StripeHolds, PTL
=============================================================================
