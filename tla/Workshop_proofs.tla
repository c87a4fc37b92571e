---------------------------- MODULE Workshop_proofs ----------------------------
(***************************************************************************)
(* Proofs about Workshop and its parts: for any materials, sizes, steps,   *)
(* payments, quantities, prices and number of requests at the same time.   *)
(***************************************************************************)
EXTENDS Workshop, Functions, Sequences, FiniteSetTheorems, TLAPS

-----------------------------------------------------------------------------
(* Sums over finite sets.  Two sums that differ, or a set that has none, would
   do so on a smallest subset; taking its picked member away gives a smaller. *)

Pick(s) == CHOOSE x \in s : TRUE

\* g sums f up over every subset of T.
SumsUp(f, T, g) ==
  g = [s \in SUBSET T |-> IF s = {} THEN 0 ELSE f[Pick(s)] + g[s \ {Pick(s)}]]

\* A set of subsets of a finite set that is not empty has a member of which no
\* other member is a part.
LEMMA SmallestSubset ==
  ASSUME NEW D, IsFiniteSet(D), NEW B \in SUBSET (SUBSET D), B # {}
  PROVE  \E T \in B : \A U \in B : U \subseteq T => U = T
<1>1. IsWellFoundedOn(StrictSubsetOrdering(D), SUBSET D)
  BY FS_StrictSubsetOrderingWellFounded, FS_FiniteSubsetsOfFinite
<1>2. PICK T \in B : \A U \in B : ~ (<<U, T>> \in StrictSubsetOrdering(D))
  BY <1>1, WFMin
<1>3. ASSUME NEW U \in B, U \subseteq T, U # T PROVE FALSE
  <2>1. <<U, T>> \in (SUBSET D) \X (SUBSET D)
    OBVIOUS
  <2>2. <<U, T>> \in StrictSubsetOrdering(D)
    BY <1>3, <2>1 DEF StrictSubsetOrdering
  <2> QED BY <1>2, <2>2
<1> QED BY <1>2, <1>3

LEMMA PickedIsIn ==
  ASSUME NEW s, s # {}
  PROVE  Pick(s) \in s
  BY DEF Pick

LEMMA SumsAgree ==
  ASSUME NEW D, IsFiniteSet(D), NEW f \in [D -> Nat],
         NEW T \in SUBSET D, NEW g, SumsUp(f, T, g),
         NEW U \in SUBSET D, NEW h, SumsUp(f, U, h),
         NEW s \in SUBSET (T \cap U)
  PROVE  g[s] = h[s] /\ g[s] \in Nat
<1> DEFINE Good(t) == g[t] = h[t] /\ g[t] \in Nat
           Bad == {t \in SUBSET (T \cap U) : ~Good(t)}
<1>1. ASSUME Bad # {} PROVE FALSE
  <2>1. PICK t \in Bad : \A r \in Bad : r \subseteq t => r = t
    <3>1. Bad \in SUBSET (SUBSET D)
      OBVIOUS
    <3> HIDE DEF Bad
    <3> QED BY <1>1, <3>1, SmallestSubset
  <2>2. t \in SUBSET T /\ t \in SUBSET U /\ t \in SUBSET D /\ ~Good(t)
    OBVIOUS
  <2> DEFINE x == Pick(t)
  <2>3. g[t] = (IF t = {} THEN 0 ELSE f[x] + g[t \ {x}]) /\ h[t] = (IF t = {} THEN 0 ELSE f[x] + h[t \ {x}])
    BY <2>2 DEF SumsUp
  <2>4. t # {}
    BY <2>2, <2>3
  <2>5. x \in t /\ t \ {x} \subseteq t /\ t \ {x} # t
    BY <2>4, PickedIsIn
  <2>6. Good(t \ {x})
    BY <2>1, <2>2, <2>5
  <2>7. f[x] \in Nat
    BY <2>2, <2>5
  <2> QED BY <2>2, <2>3, <2>4, <2>6, <2>7
<1> QED BY <1>1

LEMMA SumsExist ==
  ASSUME NEW D, IsFiniteSet(D), NEW f \in [D -> Nat]
  PROVE  \E g : SumsUp(f, D, g)
<1> DEFINE Bad == {T \in SUBSET D : ~\E g : SumsUp(f, T, g)}
<1>1. ASSUME Bad # {} PROVE FALSE
  <2>1. PICK T \in Bad : \A U \in Bad : U \subseteq T => U = T
    <3>1. Bad \in SUBSET (SUBSET D)
      OBVIOUS
    <3> HIDE DEF Bad
    <3> QED BY <1>1, <3>1, SmallestSubset
  <2>2. T \in SUBSET D /\ ~\E g : SumsUp(f, T, g)
    OBVIOUS
  <2> DEFINE Part(U) == CHOOSE g : SumsUp(f, U, g)
             x == Pick(T)
             top == IF T = {} THEN 0 ELSE f[x] + Part(T \ {x})[T \ {x}]
             g == [s \in SUBSET T |-> IF s = T THEN top ELSE Part(s)[s]]
             Step(s) == IF s = {} THEN 0 ELSE f[Pick(s)] + g[s \ {Pick(s)}]
  <2>3. ASSUME NEW U \in SUBSET T, U # T PROVE SumsUp(f, U, Part(U))
    <3>1. \E k : SumsUp(f, U, k)
      BY <2>1, <2>2, <2>3
    <3> QED BY <3>1
  <2> HIDE DEF Part
  <2>4. ASSUME NEW s \in SUBSET T PROVE g[s] = Step(s)
    <3> DEFINE y == Pick(s)
               r == s \ {y}
    <3>1. CASE s = {}
      <4>1. CASE T = {}
        BY <3>1, <4>1
      <4>2. CASE T # {}
        <5>1. SumsUp(f, s, Part(s))
          BY <2>3, <3>1, <4>2
        <5>2. Part(s)[s] = 0
          BY <3>1, <5>1 DEF SumsUp
        <5> QED BY <3>1, <4>2, <5>2
      <4> QED BY <4>1, <4>2
    <3>2. CASE s # {}
      <4>1. y \in s /\ r \in SUBSET T /\ r # T /\ r \subseteq s
        BY <3>2, PickedIsIn
      <4>2. g[r] = Part(r)[r]
        BY <4>1
      <4>3. CASE s = T
        BY <3>2, <4>2, <4>3
      <4>4. CASE s # T
        <5>1. SumsUp(f, s, Part(s)) /\ SumsUp(f, r, Part(r))
          BY <2>3, <4>1, <4>4
        <5>2. s \in SUBSET D /\ r \in SUBSET D /\ r \in SUBSET (s \cap r)
          BY <2>2, <4>1
        <5>3. Part(s)[r] = Part(r)[r]
          BY <5>1, <5>2, SumsAgree
        <5>4. Part(s)[s] = f[y] + Part(s)[r]
          BY <3>2, <5>1 DEF SumsUp
        <5>5. g[s] = Part(s)[s]
          BY <4>4
        <5> QED BY <3>2, <4>2, <5>3, <5>4, <5>5
      <4> QED BY <4>3, <4>4
    <3> QED BY <3>1, <3>2
  <2>5. g = [s \in SUBSET T |-> Step(s)]
    <3>1. g = [s \in SUBSET T |-> g[s]]
      OBVIOUS
    <3> HIDE DEF g
    <3> QED BY <2>4, <3>1
  <2>6. SumsUp(f, T, g)
    <3> HIDE DEF g
    <3> QED BY <2>5 DEF SumsUp
  <2> QED BY <2>2, <2>6
<1> QED BY <1>1

\* The sum of a function of natural numbers is one, and that of no element is 0.
LEMMA SumIsNat ==
  ASSUME NEW D, IsFiniteSet(D), NEW f \in [D -> Nat]
  PROVE  SumFunction(f) \in Nat
<1> DEFINE iter == CHOOSE g : SumsUp(f, D, g)
<1>1. SumsUp(f, D, iter)
  BY SumsExist
<1>2. SumFunction(f) = iter[D]
  BY DEF SumFunction, SumFunctionOnSet, FoldFunctionOnSet, MapThenFoldSet, SumsUp, Pick
<1> HIDE DEF iter
<1> QED BY <1>1, <1>2, SumsAgree

-----------------------------------------------------------------------------
(* Inventory *)

\* The type of one request's transaction.
Movements == [at: {"idle", "moving", "editing", "deleting"},
              kind: Kinds \cup {NULL}, quantity: Nat, loaded: Nat, min: Nat, written: Nat,
              gone: BOOLEAN, overlapped: BOOLEAN]

\* What a movement writes is what its request loaded and its quantity; that is the
\* item's stock as long as nothing overlapped it.
MovementSound(w) ==
  LET t == tx[w]
  IN t.at = "moving" =>
       /\ t.kind \in Kinds
       /\ t.loaded % Unit = 0
       /\ t.written = IF t.kind = "entrada" THEN t.loaded + t.quantity ELSE t.loaded - t.quantity
       /\ ~t.gone /\ ~t.overlapped => stock = t.loaded

InventoryInv ==
  /\ TypeOK
  /\ \A w \in Workers : MovementSound(w)
  /\ StockIsItsMovements

LEMMA StoredNat ==
  ASSUME NEW x \in Nat
  PROVE  Stored(x) \in Nat /\ Stored(x) % Unit = 0
  BY DEF Stored, Unit

LEMMA StoredUp ==
  ASSUME NEW l \in Nat, l % Unit = 0, NEW q \in Nat
  PROVE  Stored(l + q) = l + Stored(q)
  BY DEF Stored, Unit

LEMMA StoredDown ==
  ASSUME NEW l \in Nat, l % Unit = 0, NEW q \in Nat, ~RoundsAway("saida", q)
  PROVE  Stored(l - q) = l - Stored(q)
  BY DEF Stored, Unit, RoundsAway

LEMMA InventoryTypes ==
  TypeOK <=> /\ stock \in Nat \cup {NULL}
             /\ stock # NULL => stock % Unit = 0
             /\ min \in Nat /\ opening \in Nat
             /\ moves \in [count: 0..MaxMovements, in: Nat, out: Nat]
             /\ tx \in [Workers -> Movements]
             /\ drifted \in BOOLEAN
  BY DEF TypeOK, Movements

LEMMA InventoryTypesNext ==
  TypeOK' <=> /\ stock' \in Nat \cup {NULL}
              /\ stock' # NULL => stock' % Unit = 0
              /\ min' \in Nat /\ opening' \in Nat
              /\ moves' \in [count: 0..MaxMovements, in: Nat, out: Nat]
              /\ tx' \in [Workers -> Movements]
              /\ drifted' \in BOOLEAN
  BY DEF TypeOK, Movements

LEMMA NoMovesType == NoMoves \in [count: 0..MaxMovements, in: Nat, out: Nat]
  BY BoundAssumption DEF NoMoves

LEMMA InventoryInit == Init => InventoryInv
<1> SUFFICES ASSUME Init PROVE InventoryInv
  OBVIOUS
<1>1. Idle \in Movements
  BY DEF Idle, Movements
<1>3. TypeOK
  BY <1>1, NoMovesType, InventoryTypes DEF Init
<1>4. \A w \in Workers : MovementSound(w)
  BY DEF Init, Idle, MovementSound
<1>5. StockIsItsMovements
  BY DEF Init, StockIsItsMovements, Exists
<1> QED BY <1>3, <1>4, <1>5 DEF InventoryInv


\* A request begins a transaction of its own.
LEMMA BeginStep ==
  ASSUME InventoryInv, NEW w \in Workers, NEW t \in Movements, t.at # "moving",
         tx' = [tx EXCEPT ![w] = t], UNCHANGED <<stock, min, opening, moves, drifted>>
  PROVE  InventoryInv'
<1>1. TypeOK'
  BY InventoryTypes, InventoryTypesNext DEF InventoryInv
<1>2. ASSUME NEW v \in Workers PROVE MovementSound(v)'
  <2>1. tx \in [Workers -> Movements]
    BY InventoryTypes DEF InventoryInv
  <2>2. CASE v = w
    BY <2>1, <2>2 DEF MovementSound
  <2>3. CASE v # w
    BY <2>1, <2>3 DEF InventoryInv, MovementSound
  <2> QED BY <2>2, <2>3
<1>3. StockIsItsMovements'
  BY DEF InventoryInv, StockIsItsMovements, Exists
<1> QED BY <1>1, <1>2, <1>3 DEF InventoryInv

LEMMA IdleMovement == Idle \in Movements /\ Idle.at # "moving"
  BY DEF Idle, Movements

LEMMA LoadForEditStep ==
  ASSUME InventoryInv, NEW w \in Workers, NEW m \in Quantities, LoadForEdit(w, m)
  PROVE  InventoryInv'
<1> DEFINE t == [Idle EXCEPT !.at = "editing", !.loaded = stock, !.min = min, !.written = m]
<1>1. t \in Movements /\ t.at # "moving"
  BY QuantityAssumption DEF Idle, Movements, LoadForEdit, Exists, InventoryInv, TypeOK
<1>2. tx' = [tx EXCEPT ![w] = t] /\ UNCHANGED <<stock, min, opening, moves, drifted>>
  BY DEF LoadForEdit
<1> HIDE DEF t
<1> QED BY <1>1, <1>2, BeginStep

LEMMA LoadForDeleteStep ==
  ASSUME InventoryInv, NEW w \in Workers, LoadForDelete(w)
  PROVE  InventoryInv'
<1> DEFINE t == [Idle EXCEPT !.at = "deleting"]
<1>1. t \in Movements /\ t.at # "moving"
  BY DEF Idle, Movements
<1>2. tx' = [tx EXCEPT ![w] = t] /\ UNCHANGED <<stock, min, opening, moves, drifted>>
  BY DEF LoadForDelete
<1> HIDE DEF t
<1> QED BY <1>1, <1>2, BeginStep

LEMMA LoadForMovementStep ==
  ASSUME InventoryInv, NEW w \in Workers, NEW kind \in Kinds, NEW q \in Quantities,
         LoadForMovement(w, kind, q)
  PROVE  InventoryInv'
<1> DEFINE after == IF kind = "entrada" THEN stock + q ELSE stock - q
           t == [Idle EXCEPT !.at = "moving", !.kind = kind, !.quantity = q, !.loaded = stock,
                             !.written = after]
<1>1. /\ stock \in Nat /\ stock % Unit = 0 /\ q \in Nat /\ after \in Nat
      /\ tx' = [tx EXCEPT ![w] = t] /\ UNCHANGED <<stock, min, opening, moves, drifted>>
  BY QuantityAssumption DEF LoadForMovement, Exists, InventoryInv, TypeOK
<1>2. t \in Movements
  BY <1>1 DEF Idle, Movements
<1>3. TypeOK'
  BY <1>1, <1>2, InventoryTypes, InventoryTypesNext DEF InventoryInv
<1>4. ASSUME NEW v \in Workers PROVE MovementSound(v)'
  <2>1. tx \in [Workers -> Movements]
    BY InventoryTypes DEF InventoryInv
  <2>2. CASE v = w
    <3>1. tx'[v] = t
      BY <1>1, <2>1, <2>2
    <3>2. /\ t.kind = kind /\ t.quantity = q /\ t.loaded = stock /\ t.written = after
      BY DEF Idle
    <3> HIDE DEF t
    <3> QED BY <1>1, <3>1, <3>2 DEF MovementSound
  <2>3. CASE v # w
    BY <1>1, <2>1, <2>3 DEF InventoryInv, MovementSound
  <2> QED BY <2>2, <2>3
<1>5. StockIsItsMovements'
  BY <1>1 DEF InventoryInv, StockIsItsMovements, Exists
<1> QED BY <1>3, <1>4, <1>5 DEF InventoryInv

\* After a commit the requests that were open are known to have overlapped it.
LEMMA OthersSound ==
  ASSUME InventoryInv, NEW w \in Workers, NEW gone \in BOOLEAN, tx' = Others(w, gone)
  PROVE  tx' \in [Workers -> Movements] /\ \A v \in Workers : MovementSound(v)'
<1>1. tx \in [Workers -> Movements]
  BY InventoryTypes DEF InventoryInv
<1>2. ASSUME NEW v \in Workers PROVE tx'[v] \in Movements /\ MovementSound(v)'
  <2>1. CASE v = w
    BY <2>1, IdleMovement DEF Others, MovementSound
  <2>2. CASE v # w /\ tx[v].at = "idle"
    BY <1>1, <2>2 DEF Others, MovementSound
  <2>3. CASE v # w /\ tx[v].at # "idle"
    <3> DEFINE t == [tx[v] EXCEPT !.overlapped = TRUE, !.gone = tx[v].gone \/ gone]
    <3>1. tx'[v] = t
      BY <2>3 DEF Others
    <3>2. t \in Movements /\ t.overlapped /\ t.at = tx[v].at /\ t.kind = tx[v].kind
          /\ t.loaded = tx[v].loaded /\ t.quantity = tx[v].quantity /\ t.written = tx[v].written
      BY <1>1 DEF Movements
    <3> HIDE DEF t
    <3>3. MovementSound(v)
      BY DEF InventoryInv
    <3> QED BY <3>1, <3>2, <3>3 DEF MovementSound
  <2> QED BY <2>1, <2>2, <2>3
<1>3. tx' = [v \in Workers |-> tx'[v]]
  BY DEF Others
<1> QED BY <1>2, <1>3

LEMMA CreateItemStep ==
  ASSUME InventoryInv, NEW q \in Quantities \cup {0}, NEW m \in {0} \cup Quantities, CreateItem(q, m)
  PROVE  InventoryInv'
<1>1. q \in Nat /\ m \in Nat
  BY QuantityAssumption
<1>2. Stored(q) \in Nat /\ Stored(q) % Unit = 0 /\ Stored(m) \in Nat
  BY <1>1, StoredNat
<1>3. /\ stock = NULL /\ stock' = Stored(q) /\ opening' = Stored(q) /\ min' = Stored(m)
      /\ moves' = NoMoves /\ drifted' = FALSE /\ tx' = tx
  BY DEF CreateItem, Exists
<1>4. TypeOK'
  BY <1>2, <1>3, NoMovesType, InventoryTypes, InventoryTypesNext DEF InventoryInv
<1>5. ASSUME NEW v \in Workers PROVE MovementSound(v)'
  <2>1. tx[v] \in Movements
    BY InventoryTypes DEF InventoryInv
  <2>2. tx[v].loaded # NULL
    BY <2>1, NullAssumption DEF Movements
  <2> QED BY <1>3, <2>2 DEF InventoryInv, MovementSound
<1>6. StockIsItsMovements'
  BY <1>2, <1>3 DEF StockIsItsMovements, NoMoves
<1> QED BY <1>4, <1>5, <1>6 DEF InventoryInv

LEMMA CommitItemEditStep ==
  ASSUME InventoryInv, NEW w \in Workers, CommitEdit(w)
  PROVE  InventoryInv'
<1>1. tx' = Others(w, FALSE) /\ UNCHANGED <<stock, opening, moves, drifted>>
  BY DEF CommitEdit
<1>2. tx[w].written \in Nat
  BY InventoryTypes DEF InventoryInv, Movements
<1>3. min' \in Nat
  BY <1>2, StoredNat DEF CommitEdit, InventoryInv, TypeOK
<1>4. tx' \in [Workers -> Movements] /\ \A v \in Workers : MovementSound(v)'
  BY <1>1, OthersSound
<1>5. TypeOK'
  BY <1>1, <1>3, <1>4, InventoryTypes, InventoryTypesNext DEF InventoryInv
<1>6. StockIsItsMovements'
  BY <1>1 DEF InventoryInv, StockIsItsMovements, Exists
<1> QED BY <1>4, <1>5, <1>6 DEF InventoryInv

LEMMA CommitDeleteStep ==
  ASSUME InventoryInv, NEW w \in Workers, CommitDelete(w)
  PROVE  InventoryInv'
<1>1. CASE tx[w].gone
  BY <1>1, IdleMovement, BeginStep DEF CommitDelete
<1>2. CASE ~tx[w].gone
  <2>1. tx' = Others(w, TRUE) /\ stock' = NULL /\ moves' = NoMoves /\ UNCHANGED <<min, opening, drifted>>
    BY <1>2 DEF CommitDelete
  <2>2. tx' \in [Workers -> Movements] /\ \A v \in Workers : MovementSound(v)'
    BY <2>1, OthersSound
  <2>3. TypeOK'
    BY <2>1, <2>2, NoMovesType, InventoryTypes, InventoryTypesNext DEF InventoryInv
  <2>4. StockIsItsMovements'
    BY <2>1 DEF StockIsItsMovements, Exists
  <2> QED BY <2>2, <2>3, <2>4 DEF InventoryInv
<1> QED BY <1>1, <1>2

LEMMA CommitMovementStep ==
  ASSUME InventoryInv, NEW w \in Workers, CommitMovement(w)
  PROVE  InventoryInv'
<1> DEFINE t == tx[w]
           q == Stored(t.quantity)
<1>1. /\ t.at = "moving" /\ stock # NULL /\ ~t.gone /\ moves.count < MaxMovements
      /\ stock' = Stored(t.written) /\ stock' >= 0
      /\ moves' = [count |-> moves.count + 1,
                   in  |-> IF t.kind = "entrada" THEN moves.in + q ELSE moves.in,
                   out |-> IF t.kind = "saida" THEN moves.out + q ELSE moves.out]
      /\ drifted' = (drifted \/ t.overlapped \/ RoundsAway(t.kind, t.quantity))
      /\ tx' = Others(w, FALSE) /\ UNCHANGED <<min, opening>>
  BY DEF CommitMovement, Exists
<1>2. t \in Movements /\ t.kind \in Kinds /\ t.loaded % Unit = 0
      /\ t.written = (IF t.kind = "entrada" THEN t.loaded + t.quantity ELSE t.loaded - t.quantity)
      /\ (~t.overlapped => stock = t.loaded)
  BY <1>1, InventoryTypes DEF InventoryInv, MovementSound
<1>3. /\ t.quantity \in Nat /\ t.loaded \in Nat /\ t.written \in Nat /\ t.overlapped \in BOOLEAN
      /\ q \in Nat
  BY <1>2, StoredNat DEF Movements
<1>4. stock' \in Nat /\ stock' % Unit = 0
  BY <1>1, <1>3, StoredNat
<1>5. moves' \in [count: 0..MaxMovements, in: Nat, out: Nat] /\ drifted' \in BOOLEAN
  <2>1. moves \in [count: 0..MaxMovements, in: Nat, out: Nat] /\ drifted \in BOOLEAN
    BY DEF InventoryInv, TypeOK
  <2>2. RoundsAway(t.kind, t.quantity) \in BOOLEAN
    BY DEF RoundsAway
  <2> HIDE DEF t, q
  <2>3. drifted' \in BOOLEAN
    BY <1>1, <1>3, <2>1, <2>2
  <2>4. moves.count + 1 \in 0..MaxMovements
    BY <1>1, <2>1, BoundAssumption
  <2> QED BY <1>1, <1>3, <2>1, <2>3, <2>4
<1>6. tx' \in [Workers -> Movements] /\ \A v \in Workers : MovementSound(v)'
  BY <1>1, OthersSound
<1>7. TypeOK'
  BY <1>1, <1>4, <1>5, <1>6, InventoryTypes, InventoryTypesNext DEF InventoryInv
<1>8. StockIsItsMovements'
  <2> SUFFICES ASSUME ~drifted' PROVE stock' = opening' + moves'.in - moves'.out
    BY DEF StockIsItsMovements
  <2>1. ~drifted /\ ~t.overlapped /\ ~RoundsAway(t.kind, t.quantity) /\ stock = t.loaded
    BY <1>1, <1>2
  <2>2. stock = opening + moves.in - moves.out
    BY <1>1, <2>1 DEF InventoryInv, StockIsItsMovements, Exists
  <2>3. opening \in Nat /\ moves.in \in Nat /\ moves.out \in Nat
    BY DEF InventoryInv, TypeOK
  <2>4. CASE t.kind = "entrada"
    <3>1. stock' = t.loaded + q
      BY <1>1, <1>2, <1>3, <2>4, StoredUp
    <3>2. moves'.in = moves.in + q /\ moves'.out = moves.out
      BY <1>1, <2>4
    <3> HIDE DEF t, q
    <3> QED BY <1>1, <1>3, <2>1, <2>2, <2>3, <3>1, <3>2
  <2>5. CASE t.kind = "saida"
    <3>1. stock' = t.loaded - q
      BY <1>1, <1>2, <1>3, <2>1, <2>5, StoredDown
    <3>2. moves'.in = moves.in /\ moves'.out = moves.out + q
      BY <1>1, <2>5
    <3> HIDE DEF t, q
    <3> QED BY <1>1, <1>3, <2>1, <2>2, <2>3, <3>1, <3>2
  <2> QED BY <1>2, <2>4, <2>5 DEF Kinds
<1> QED BY <1>6, <1>7, <1>8 DEF InventoryInv

LEMMA InventoryStep == InventoryInv /\ [Next]_vars => InventoryInv'
<1> SUFFICES ASSUME InventoryInv, [Next]_vars PROVE InventoryInv'
  OBVIOUS
<1>1. CASE UNCHANGED vars
  BY <1>1 DEF vars, InventoryInv, TypeOK, MovementSound, StockIsItsMovements, Exists
<1>2. ASSUME NEW q \in Quantities \cup {0}, NEW m \in {0} \cup Quantities, CreateItem(q, m)
      PROVE  InventoryInv'
  BY <1>2, CreateItemStep
<1>3. ASSUME NEW w \in Workers,
             \/ \E m \in Quantities : LoadForEdit(w, m)
             \/ \E kind \in Kinds, q \in Quantities : LoadForMovement(w, kind, q)
             \/ LoadForDelete(w)
             \/ CommitEdit(w) \/ CommitMovement(w) \/ CommitDelete(w) \/ Abort(w)
      PROVE  InventoryInv'
  <2>1. CASE Abort(w)
    BY <2>1, IdleMovement, BeginStep DEF Abort
  <2> QED BY <1>3, <2>1, LoadForEditStep, LoadForMovementStep, LoadForDeleteStep, CommitItemEditStep,
             CommitMovementStep, CommitDeleteStep
<1> QED BY <1>1, <1>2, <1>3 DEF Next

-----------------------------------------------------------------------------
(* Cost calculations *)

\* Of no element but zeros the sum is zero.
LEMMA SumOfZeros ==
  ASSUME NEW D, IsFiniteSet(D), NEW f \in [D -> Nat], \A x \in D : f[x] = 0
  PROVE  SumFunction(f) = 0
<1> DEFINE iter == CHOOSE g : SumsUp(f, D, g)
           Bad == {t \in SUBSET D : iter[t] # 0}
<1>1. SumsUp(f, D, iter)
  BY SumsExist
<1>2. SumFunction(f) = iter[D]
  BY DEF SumFunction, SumFunctionOnSet, FoldFunctionOnSet, MapThenFoldSet, SumsUp, Pick
<1> HIDE DEF iter
<1>3. ASSUME Bad # {} PROVE FALSE
  <2>1. PICK t \in Bad : \A r \in Bad : r \subseteq t => r = t
    <3>1. Bad \in SUBSET (SUBSET D)
      OBVIOUS
    <3> HIDE DEF Bad
    <3> QED BY <1>3, <3>1, SmallestSubset
  <2>2. t \in SUBSET D /\ iter[t] # 0
    OBVIOUS
  <2> DEFINE x == Pick(t)
  <2>3. iter[t] = (IF t = {} THEN 0 ELSE f[x] + iter[t \ {x}])
    BY <1>1, <2>2 DEF SumsUp
  <2>4. t # {}
    BY <2>2, <2>3
  <2>5. x \in t /\ t \ {x} \subseteq t /\ t \ {x} # t
    BY <2>4, PickedIsIn
  <2>6. iter[t \ {x}] = 0
    BY <2>1, <2>2, <2>5
  <2> QED BY <2>2, <2>3, <2>4, <2>5, <2>6
<1> QED BY <1>2, <1>3

-----------------------------------------------------------------------------
(* Cost calculations *)

\* The type of one request's transaction.
CostRequests == [at: {"idle", "line", "calc", "listed"}, op: C!Operations \cup {NULL},
                 line: C!Lines \cup {NULL}, old: C!LineRows \cup {NULL}, new: C!LineRows \cup {NULL},
                 loaded: C!CalcRows \cup {NULL}, row: C!CalcRows \cup {NULL}, overlapped: BOOLEAN]

Tables == [C!Lines -> C!LineRows \cup {NULL}]

\* The lines that a transaction sees, and those that it has locked.
SeenBy(t) == IF t.line = NULL THEN lines ELSE [lines EXCEPT ![t.line] = t.new]
Locks(t, l) == t.line = l /\ (t.at = "listed" \/ (t.op = "edit" /\ t.at = "calc"))

\* The row that a request writes is computed from the lines that it sees.
RowIsTotal(t) ==
  t.row = C!Recalculated(t.row.quantity, t.row.margin, C!Total(SeenBy(t), Materials),
                         C!Total(SeenBy(t), Labor))

\* What a request knows: the line that it adds is not there, the one that it has
\* locked is, and what it loaded is what is there as long as nothing overlapped it.
CostSound(t) ==
  /\ t.at = "idle" <=> t.op = NULL
  /\ t.op # NULL => calc # NULL
  /\ t.op \in {"revise", "remove"} => t.line = NULL
  /\ t.op \in {"add", "edit", "drop"} => t.line \in C!Lines
  /\ t.at = "line" => t.op \in {"edit", "drop"}
  /\ t.op = "remove" => t.at = "listed"
  /\ t.at \in {"calc", "listed"} /\ t.op # "remove" => t.loaded \in C!CalcRows /\ t.row \in C!CalcRows
  /\ t.op \in {"add", "edit"} => t.new \in C!LineRows /\ t.new.total = t.new.quantity * t.new.price
  /\ t.op = "edit" => t.old \in C!LineRows
  /\ t.op = "drop" => t.new = NULL
  /\ t.op = "add" => lines[t.line] = NULL
  /\ t.op = "edit" /\ t.at # "line" => lines[t.line] # NULL
  /\ ~t.overlapped => /\ t.op = "edit" => t.old = lines[t.line]
                      /\ t.at \in {"calc", "listed"} => t.loaded = calc
                      /\ t.at = "listed" /\ t.op # "remove" => RowIsTotal(t)

\* Nobody else has locked a line, and nobody else knows of one that is added.
Apart(v, w) ==
  /\ \A l \in C!Lines : ~(Locks(costTx[v], l) /\ Locks(costTx[w], l))
  /\ costTx[w].op = "add" => costTx[v].line # costTx[w].line

CostsInv ==
  /\ C!TypeOK
  /\ \A w \in Workers : CostSound(costTx[w])
  /\ \A v, w \in Workers : v # w => Apart(v, w)
  /\ calc = NULL => \A l \in C!Lines : lines[l] = NULL
  /\ C!TotalsAreTheLines
  /\ C!LinesAreProducts

LEMMA CostTypes ==
  C!TypeOK <=> /\ calc \in C!CalcRows \cup {NULL}
               /\ lines \in Tables
               /\ costTx \in [Workers -> CostRequests]
               /\ costCount \in 0..MaxChanges
               /\ stale \in BOOLEAN
               /\ costTorn \subseteq C!Lines
  BY DEF C!TypeOK, CostRequests, Tables

LEMMA CostTypesNext ==
  C!TypeOK' <=> /\ calc' \in C!CalcRows \cup {NULL}
                /\ lines' \in Tables
                /\ costTx' \in [Workers -> CostRequests]
                /\ costCount' \in 0..MaxChanges
                /\ stale' \in BOOLEAN
                /\ costTorn' \subseteq C!Lines
  BY DEF C!TypeOK, CostRequests, Tables

LEMMA CostConstants ==
  /\ IsFiniteSet(C!Lines) /\ Materials \subseteq C!Lines /\ Labor \subseteq C!Lines
  /\ CostQuantities \cup CostPrices \cup Hours \cup Rates \cup Margins \subseteq Nat
  /\ Pieces \subseteq Nat \ {0} /\ MaxChanges \in Nat
  /\ NULL \notin C!Lines /\ NULL \notin C!LineRows /\ NULL \notin C!CalcRows /\ NULL \notin C!Operations
  /\ NULL \notin Int
<1>1. C!CostsAssumption
  BY WorkshopAssumption
<1>2. IsFiniteSet(C!Lines)
  BY <1>1 DEF C!CostsAssumption, C!IsFiniteSet, IsFiniteSet
<1>3. Materials \subseteq C!Lines /\ Labor \subseteq C!Lines
  BY DEF C!Lines
<1> QED BY <1>1, <1>2, <1>3 DEF C!CostsAssumption

\* What the lines cost in all is a whole number, nothing where there are none.
LEMMA TotalNat ==
  ASSUME NEW table \in Tables, NEW some \in SUBSET C!Lines
  PROVE  C!Total(table, some) \in Nat
<1> DEFINE f == [l \in some |-> IF table[l] = NULL THEN 0 ELSE table[l].total]
<1>1. IsFiniteSet(some)
  BY CostConstants, FS_Subset
<1>2. f \in [some -> Nat]
  BY DEF Tables, C!LineRows
<1>3. C!Total(table, some) = SumFunction(f)
  BY DEF C!Total, C!SumFunction, C!SumFunctionOnSet, C!FoldFunctionOnSet, C!MapThenFoldSet,
         SumFunction, SumFunctionOnSet, FoldFunctionOnSet, MapThenFoldSet
<1> HIDE DEF f
<1> QED BY <1>1, <1>2, <1>3, SumIsNat

LEMMA TotalOfNone ==
  ASSUME NEW table \in Tables, NEW some \in SUBSET C!Lines, \A l \in C!Lines : table[l] = NULL
  PROVE  C!Total(table, some) = 0
<1> DEFINE f == [l \in some |-> IF table[l] = NULL THEN 0 ELSE table[l].total]
<1>1. IsFiniteSet(some)
  BY CostConstants, FS_Subset
<1>2. f \in [some -> Nat] /\ \A l \in some : f[l] = 0
  OBVIOUS
<1>3. C!Total(table, some) = SumFunction(f)
  BY DEF C!Total, C!SumFunction, C!SumFunctionOnSet, C!FoldFunctionOnSet, C!MapThenFoldSet,
         SumFunction, SumFunctionOnSet, FoldFunctionOnSet, MapThenFoldSet
<1> HIDE DEF f
<1> QED BY <1>1, <1>2, <1>3, SumOfZeros

LEMMA RecalculatedType ==
  ASSUME NEW q \in Nat \ {0}, NEW m \in Nat, NEW a \in Nat, NEW b \in Nat
  PROVE  /\ C!Recalculated(q, m, a, b) \in C!CalcRows
         /\ C!Recalculated(q, m, a, b).quantity = q
         /\ C!Recalculated(q, m, a, b).margin = m
  BY DEF C!Recalculated, C!CalcRows

LEMMA LineType ==
  ASSUME NEW q \in Nat, NEW p \in Nat
  PROVE  /\ C!Line(q, p) \in C!LineRows
         /\ C!Line(q, p).total = C!Line(q, p).quantity * C!Line(q, p).price
<1>1. q * p \in Nat
  OBVIOUS
<1> QED BY <1>1 DEF C!Line, C!LineRows

\* Merging columns gives a row of the same kind, and what was written when what was
\* loaded is what is there.
LEMMA MergedCalc ==
  ASSUME NEW r \in C!CalcRows, NEW l \in C!CalcRows, NEW n \in C!CalcRows
  PROVE  /\ C!Merged(r, l, n, C!Columns) \in C!CalcRows
         /\ r = l => C!Merged(r, l, n, C!Columns) = n
<1> DEFINE s == C!Merged(r, l, n, C!Columns)
<1>1. s = [quantity |-> IF n.quantity = l.quantity THEN r.quantity ELSE n.quantity,
           margin |-> IF n.margin = l.margin THEN r.margin ELSE n.margin,
           material |-> IF n.material = l.material THEN r.material ELSE n.material,
           labor |-> IF n.labor = l.labor THEN r.labor ELSE n.labor,
           total |-> IF n.total = l.total THEN r.total ELSE n.total,
           unit |-> IF n.unit = l.unit THEN r.unit ELSE n.unit,
           suggested |-> IF n.suggested = l.suggested THEN r.suggested ELSE n.suggested]
  BY DEF C!Merged, C!Columns
<1>2. s \in C!CalcRows
  BY <1>1 DEF C!CalcRows
<1>3. ASSUME r = l PROVE s = n
  BY <1>1, <1>3 DEF C!CalcRows
<1> QED BY <1>2, <1>3

LEMMA MergedLine ==
  ASSUME NEW r \in C!LineRows, NEW l \in C!LineRows, NEW n \in C!LineRows
  PROVE  /\ C!Merged(r, l, n, {"quantity", "price", "total"}) \in C!LineRows
         /\ r = l => C!Merged(r, l, n, {"quantity", "price", "total"}) = n
<1> DEFINE s == C!Merged(r, l, n, {"quantity", "price", "total"})
<1>1. s = [quantity |-> IF n.quantity = l.quantity THEN r.quantity ELSE n.quantity,
           price |-> IF n.price = l.price THEN r.price ELSE n.price,
           total |-> IF n.total = l.total THEN r.total ELSE n.total]
  BY DEF C!Merged
<1>2. s \in C!LineRows
  BY <1>1 DEF C!LineRows
<1>3. ASSUME r = l PROVE s = n
  BY <1>1, <1>3 DEF C!LineRows
<1> QED BY <1>2, <1>3

LEMMA IdleCost ==
  /\ C!Idle \in CostRequests /\ CostSound(C!Idle)
  /\ C!Idle.line = NULL /\ C!Idle.at = "idle" /\ C!Idle.op = NULL
  BY CostConstants DEF C!Idle, CostRequests, CostSound, C!Operations

LEMMA CostsInit == C!Init => CostsInv
<1> SUFFICES ASSUME C!Init PROVE CostsInv
  OBVIOUS
<1>1. \A w \in Workers : costTx[w] = C!Idle
  BY DEF C!Init
<1>2. C!TypeOK
  <2>1. costTx \in [Workers -> CostRequests]
    BY IdleCost DEF C!Init
  <2>2. lines \in Tables
    BY DEF C!Init, Tables
  <2>3. costCount \in 0..MaxChanges
    BY CostConstants DEF C!Init
  <2> QED BY <2>1, <2>2, <2>3, CostTypes DEF C!Init
<1>3. \A w \in Workers : CostSound(costTx[w])
  BY <1>1, IdleCost
<1>4. \A v, w \in Workers : v # w => Apart(v, w)
  BY <1>1, IdleCost, CostConstants DEF Apart, Locks, C!Operations
<1>5. /\ calc = NULL => \A l \in C!Lines : lines[l] = NULL
      /\ C!TotalsAreTheLines
      /\ C!LinesAreProducts
  BY DEF C!Init, C!TotalsAreTheLines, C!LinesAreProducts
<1> QED BY <1>2, <1>3, <1>4, <1>5 DEF CostsInv

\* A step of one request that commits nothing.
LEMMA CostRequestStep ==
  ASSUME CostsInv, NEW w \in Workers, NEW t \in CostRequests, CostSound(t),
         costTx' = [costTx EXCEPT ![w] = t],
         UNCHANGED <<calc, lines, costCount, stale, costTorn>>,
         \A v \in Workers \ {w} : \A l \in C!Lines : ~(Locks(costTx[v], l) /\ Locks(t, l)),
         \A v \in Workers \ {w} : t.op = "add" => costTx[v].line # t.line,
         \A v \in Workers \ {w} : costTx[v].op = "add" => t.line # costTx[v].line
  PROVE  CostsInv'
<1>1. costTx \in [Workers -> CostRequests]
  BY CostTypes DEF CostsInv
<1>2. C!TypeOK'
  BY CostTypes, CostTypesNext DEF CostsInv
<1>3. costTx'[w] = t /\ \A v \in Workers \ {w} : costTx'[v] = costTx[v]
  BY <1>1
<1>4. ASSUME NEW v \in Workers PROVE CostSound(costTx[v])'
  <2>1. CASE v = w
    BY <1>3, <2>1 DEF CostSound, RowIsTotal, SeenBy
  <2>2. CASE v # w
    <3>1. CostSound(costTx[v]) /\ costTx'[v] = costTx[v]
      BY <1>3, <2>2 DEF CostsInv
    <3> QED BY <3>1 DEF CostSound, RowIsTotal, SeenBy
  <2> QED BY <2>1, <2>2
<1>5. ASSUME NEW v \in Workers, NEW u \in Workers, v # u PROVE Apart(v, u)'
  <2>1. CASE v # w /\ u # w
    BY <1>3, <1>5, <2>1 DEF CostsInv, Apart, Locks
  <2>2. CASE v = w
    BY <1>3, <1>5, <2>2 DEF Apart, Locks
  <2>3. CASE u = w
    BY <1>3, <1>5, <2>3 DEF Apart, Locks
  <2> QED BY <2>1, <2>2, <2>3
<1>6. /\ calc' = NULL => \A l \in C!Lines : lines'[l] = NULL
      /\ C!TotalsAreTheLines'
      /\ C!LinesAreProducts'
  BY DEF CostsInv, C!TotalsAreTheLines, C!LinesAreProducts
<1> QED BY <1>2, <1>4, <1>5, <1>6 DEF CostsInv

LEMMA AbortCostStep ==
  ASSUME CostsInv, NEW w \in Workers, C!Abort(w)
  PROVE  CostsInv'
<1>1. costTx' = [costTx EXCEPT ![w] = C!Idle] /\ UNCHANGED <<calc, lines, costCount, stale, costTorn>>
  BY DEF C!Abort
<1>2. \A v \in Workers : costTx[v].op = "add" => C!Idle.line # costTx[v].line
  BY IdleCost, CostConstants DEF CostsInv, CostSound
<1>3. \A l \in C!Lines : ~Locks(C!Idle, l)
  BY IdleCost, CostConstants DEF Locks
<1>4. C!Idle.op # "add"
  BY IdleCost, CostConstants DEF C!Operations
<1> QED BY <1>1, <1>2, <1>3, <1>4, IdleCost, CostRequestStep

LEMMA LoadForAddStep ==
  ASSUME CostsInv, NEW w \in Workers, NEW l \in C!Lines, NEW q \in Nat, NEW p \in Nat,
         C!LoadForAdd(w, l, q, p)
  PROVE  CostsInv'
<1> DEFINE n == C!Line(q, p)
           t == [C!Idle EXCEPT !.at = "calc", !.op = "add", !.line = l, !.new = n,
                               !.loaded = calc, !.row = calc]
<1>1. /\ calc \in C!CalcRows /\ calc # NULL /\ lines[l] = NULL
      /\ \A v \in Workers : costTx[v].line # l
      /\ costTx' = [costTx EXCEPT ![w] = t] /\ UNCHANGED <<calc, lines, costCount, stale, costTorn>>
  BY DEF C!LoadForAdd, CostsInv, C!TypeOK
<1>2. n \in C!LineRows /\ n.total = n.quantity * n.price
  BY LineType
<1>3. /\ t.at = "calc" /\ t.op = "add" /\ t.line = l /\ t.new = n /\ t.loaded = calc /\ t.row = calc
      /\ t \in CostRequests
  <2> HIDE DEF n
  <2> QED BY <1>1, <1>2 DEF C!Idle, CostRequests, C!Operations
<1> HIDE DEF t, n
<1>4. CostSound(t)
  BY <1>1, <1>2, <1>3, CostConstants DEF CostSound, C!Operations
<1>5. \A k \in C!Lines : ~Locks(t, k)
  BY <1>3 DEF Locks
<1> QED BY <1>1, <1>3, <1>4, <1>5, CostRequestStep

LEMMA LoadLineStep ==
  ASSUME CostsInv, NEW w \in Workers, NEW l \in C!Lines, lines[l] # NULL, NEW t \in CostRequests,
         t.at = "line", t.op \in {"edit", "drop"}, t.line = l, t.old = lines[l],
         t.op = "edit" => t.new \in C!LineRows /\ t.new.total = t.new.quantity * t.new.price,
         t.op = "drop" => t.new = NULL,
         costTx' = [costTx EXCEPT ![w] = t], UNCHANGED <<calc, lines, costCount, stale, costTorn>>
  PROVE  CostsInv'
<1>1. lines[l] \in C!LineRows /\ calc # NULL
  BY CostTypes DEF CostsInv, Tables
<1>2. CostSound(t)
  BY <1>1, CostConstants DEF CostSound, C!Operations
<1>3. \A k \in C!Lines : ~Locks(t, k)
  BY DEF Locks
<1>4. \A v \in Workers : costTx[v].op = "add" => t.line # costTx[v].line
  BY DEF CostsInv, CostSound
<1> QED BY <1>2, <1>3, <1>4, CostRequestStep

LEMMA LoadLineForEditStep ==
  ASSUME CostsInv, NEW w \in Workers, NEW l \in C!Lines,
         NEW q \in Nat \cup {NULL}, NEW p \in Nat \cup {NULL}, C!LoadLineForEdit(w, l, q, p)
  PROVE  CostsInv'
<1> DEFINE a == IF q = NULL THEN lines[l].quantity ELSE q
           b == IF p = NULL THEN lines[l].price ELSE p
           n == C!Line(a, b)
<1>1. lines[l] # NULL /\ lines[l] \in C!LineRows
  BY CostTypes DEF C!LoadLineForEdit, CostsInv, Tables
<1>2. a \in Nat /\ b \in Nat
  BY <1>1 DEF C!LineRows
<1> DEFINE t == [C!Idle EXCEPT !.at = "line", !.op = "edit", !.line = l, !.old = lines[l], !.new = n]
<1>3. costTx' = [costTx EXCEPT ![w] = t] /\ UNCHANGED <<calc, lines, costCount, stale, costTorn>>
  BY DEF C!LoadLineForEdit
<1> HIDE DEF a, b
<1>4. n \in C!LineRows /\ n.total = n.quantity * n.price
  BY <1>2, LineType
<1> HIDE DEF n
<1>5. /\ t.at = "line" /\ t.op = "edit" /\ t.line = l /\ t.old = lines[l] /\ t.new = n
      /\ t \in CostRequests
  BY <1>1, <1>4 DEF C!Idle, CostRequests, C!Operations
<1> HIDE DEF t
<1> QED BY <1>1, <1>3, <1>4, <1>5, LoadLineStep

LEMMA LoadLineForDropStep ==
  ASSUME CostsInv, NEW w \in Workers, NEW l \in C!Lines, C!LoadLineForDrop(w, l)
  PROVE  CostsInv'
<1> DEFINE t == [C!Idle EXCEPT !.at = "line", !.op = "drop", !.line = l, !.old = lines[l]]
<1>1. /\ lines[l] # NULL /\ lines[l] \in C!LineRows
      /\ costTx' = [costTx EXCEPT ![w] = t] /\ UNCHANGED <<calc, lines, costCount, stale, costTorn>>
  BY CostTypes DEF C!LoadLineForDrop, CostsInv, Tables
<1>2. /\ t.at = "line" /\ t.op = "drop" /\ t.line = l /\ t.old = lines[l] /\ t.new = NULL
      /\ t \in CostRequests
  BY <1>1 DEF C!Idle, CostRequests, C!Operations
<1> HIDE DEF t
<1> QED BY <1>1, <1>2, LoadLineStep

LEMMA LoadForRevisionStep ==
  ASSUME CostsInv, NEW w \in Workers, NEW q \in (Nat \ {0}) \cup {NULL}, NEW m \in Nat \cup {NULL},
         C!LoadForRevision(w, q, m)
  PROVE  CostsInv'
<1> DEFINE r == [calc EXCEPT !.quantity = IF q = NULL THEN calc.quantity ELSE q,
                             !.margin = IF m = NULL THEN calc.margin ELSE m]
           t == [C!Idle EXCEPT !.at = "calc", !.op = "revise", !.loaded = calc, !.row = r]
<1>1. /\ calc \in C!CalcRows /\ calc # NULL
      /\ costTx' = [costTx EXCEPT ![w] = t] /\ UNCHANGED <<calc, lines, costCount, stale, costTorn>>
  BY DEF C!LoadForRevision, CostsInv, C!TypeOK
<1>2. r \in C!CalcRows
  BY <1>1 DEF C!CalcRows
<1>3. /\ t.at = "calc" /\ t.op = "revise" /\ t.line = NULL /\ t.loaded = calc /\ t.row = r
      /\ t \in CostRequests
  <2> HIDE DEF r
  <2> QED BY <1>1, <1>2 DEF C!Idle, CostRequests, C!Operations
<1> HIDE DEF t, r
<1>4. CostSound(t)
  BY <1>1, <1>2, <1>3, CostConstants DEF CostSound, C!Operations
<1>5. \A k \in C!Lines : ~Locks(t, k)
  BY <1>3 DEF Locks
<1>6. \A v \in Workers : costTx[v].op = "add" => t.line # costTx[v].line
  BY <1>3, CostConstants DEF CostsInv, CostSound
<1> QED BY <1>1, <1>3, <1>4, <1>5, <1>6, CostRequestStep

LEMMA LoadForRemovalStep ==
  ASSUME CostsInv, NEW w \in Workers, C!LoadForRemoval(w)
  PROVE  CostsInv'
<1> DEFINE t == [C!Idle EXCEPT !.at = "listed", !.op = "remove", !.loaded = calc]
<1>1. /\ calc \in C!CalcRows /\ calc # NULL
      /\ costTx' = [costTx EXCEPT ![w] = t] /\ UNCHANGED <<calc, lines, costCount, stale, costTorn>>
  BY DEF C!LoadForRemoval, CostsInv, C!TypeOK
<1>2. /\ t.at = "listed" /\ t.op = "remove" /\ t.line = NULL /\ t.loaded = calc
      /\ t \in CostRequests
  BY <1>1 DEF C!Idle, CostRequests, C!Operations
<1> HIDE DEF t
<1>3. CostSound(t)
  BY <1>1, <1>2, CostConstants DEF CostSound, C!Operations
<1>4. \A k \in C!Lines : ~Locks(t, k)
  BY <1>2, CostConstants DEF Locks
<1>5. \A v \in Workers : costTx[v].op = "add" => t.line # costTx[v].line
  BY <1>2, CostConstants DEF CostsInv, CostSound
<1> QED BY <1>1, <1>2, <1>3, <1>4, <1>5, CostRequestStep

LEMMA LoadCalculationStep ==
  ASSUME CostsInv, NEW w \in Workers, C!LoadCalculation(w)
  PROVE  CostsInv'
<1> DEFINE o == costTx[w]
           t == [o EXCEPT !.at = "calc", !.loaded = calc, !.row = calc]
<1>1. /\ calc \in C!CalcRows /\ calc # NULL /\ o.at = "line"
      /\ o.op = "edit" => /\ lines[o.line] # NULL
                          /\ \A v \in Workers \ {w} : ~C!LocksLine(v, o.line)
      /\ costTx' = [costTx EXCEPT ![w] = t] /\ UNCHANGED <<calc, lines, costCount, stale, costTorn>>
  BY DEF C!LoadCalculation, CostsInv, C!TypeOK
<1>2. o \in CostRequests /\ CostSound(o) /\ o.op \in {"edit", "drop"}
  BY <1>1, CostTypes DEF CostsInv, CostSound
<1>3. /\ t.at = "calc" /\ t.op = o.op /\ t.line = o.line /\ t.old = o.old /\ t.new = o.new
      /\ t.loaded = calc /\ t.row = calc /\ t.overlapped = o.overlapped
      /\ t \in CostRequests
  <2> HIDE DEF o
  <2> QED BY <1>1, <1>2 DEF CostRequests
<1>4. \A v \in Workers \ {w} : costTx[v].op = "add" => t.line # costTx[v].line
  BY <1>3 DEF CostsInv, Apart
<1> HIDE DEF t
<1>5. CostSound(t)
  BY <1>1, <1>2, <1>3, CostConstants DEF CostSound, C!Operations
<1>6. \A v \in Workers \ {w} : \A l \in C!Lines : ~(Locks(costTx[v], l) /\ Locks(t, l))
  BY <1>1, <1>3 DEF Locks, C!LocksLine
<1>7. t.op # "add"
  BY <1>2, <1>3
<1> QED BY <1>1, <1>3, <1>4, <1>5, <1>6, <1>7, CostRequestStep

LEMMA SeenIsTable ==
  ASSUME C!TypeOK, NEW t \in CostRequests
  PROVE  SeenBy(t) \in Tables
  BY CostTypes DEF SeenBy, Tables, CostRequests

LEMMA ListLinesStep ==
  ASSUME CostsInv, NEW w \in Workers, C!ListLines(w)
  PROVE  CostsInv'
<1> DEFINE o == costTx[w]
           r == C!Recalculated(o.row.quantity, o.row.margin, C!Total(SeenBy(o), Materials),
                               C!Total(SeenBy(o), Labor))
           t == [o EXCEPT !.at = "listed", !.row = r]
<1>1. /\ o.at = "calc"
      /\ \A v \in Workers \ {w} : o.op # "revise" => ~C!LocksLine(v, o.line)
      /\ costTx' = [costTx EXCEPT ![w] = t] /\ UNCHANGED <<calc, lines, costCount, stale, costTorn>>
  BY DEF C!ListLines, C!Seen, SeenBy
<1>2. o \in CostRequests /\ CostSound(o) /\ o.op # "remove" /\ o.row \in C!CalcRows /\ o.loaded \in C!CalcRows
  BY <1>1, CostTypes DEF CostsInv, CostSound
<1>3. r \in C!CalcRows /\ r.quantity = o.row.quantity /\ r.margin = o.row.margin
  <2>1. SeenBy(o) \in Tables
    BY <1>2, SeenIsTable DEF CostsInv
  <2>2. C!Total(SeenBy(o), Materials) \in Nat /\ C!Total(SeenBy(o), Labor) \in Nat
    BY <2>1, CostConstants, TotalNat
  <2>3. o.row.quantity \in Nat \ {0} /\ o.row.margin \in Nat
    BY <1>2 DEF C!CalcRows
  <2> DEFINE q == o.row.quantity
             m == o.row.margin
             a == C!Total(SeenBy(o), Materials)
             b == C!Total(SeenBy(o), Labor)
  <2>4. r = C!Recalculated(q, m, a, b)
    OBVIOUS
  <2> HIDE DEF r, q, m, a, b
  <2>5. r \in C!CalcRows /\ r.quantity = q /\ r.margin = m
    <3>1. q \in Nat \ {0} /\ m \in Nat /\ a \in Nat /\ b \in Nat
      BY <2>2, <2>3 DEF q, m, a, b
    <3> QED BY <2>4, <3>1, RecalculatedType
  <2> QED BY <2>5 DEF q, m
<1>4. /\ t.at = "listed" /\ t.op = o.op /\ t.line = o.line /\ t.old = o.old /\ t.new = o.new
      /\ t.loaded = o.loaded /\ t.row = r /\ t.overlapped = o.overlapped
      /\ t \in CostRequests
  <2> HIDE DEF o, r
  <2> QED BY <1>2, <1>3 DEF CostRequests
<1>5. RowIsTotal(t)
  <2>1. SeenBy(t) = SeenBy(o)
    BY <1>4 DEF SeenBy
  <2> HIDE DEF t
  <2> QED BY <1>3, <1>4, <2>1 DEF RowIsTotal
<1>6. \A v \in Workers \ {w} : /\ costTx[v].op = "add" => t.line # costTx[v].line
                               /\ t.op = "add" => costTx[v].line # t.line
  BY <1>4 DEF CostsInv, Apart
<1>7. \A v \in Workers \ {w} : \A l \in C!Lines : ~(Locks(costTx[v], l) /\ Locks(t, l))
  <2>1. CASE o.op = "revise"
    BY <1>2, <1>4, <2>1, CostConstants DEF CostSound, Locks
  <2>2. CASE o.op # "revise"
    BY <1>1, <1>4, <2>2 DEF Locks, C!LocksLine
  <2> QED BY <2>1, <2>2
<1> HIDE DEF t, r
<1>8. CostSound(t)
  BY <1>1, <1>2, <1>3, <1>4, <1>5, CostConstants DEF CostSound, C!Operations
<1> QED BY <1>1, <1>4, <1>6, <1>7, <1>8, CostRequestStep

LEMMA CreateCalculationStep ==
  ASSUME CostsInv, NEW q \in Nat \ {0}, NEW m \in Nat, C!CreateCalculation(q, m)
  PROVE  CostsInv'
<1>1. /\ calc = NULL /\ calc' = C!Recalculated(q, m, 0, 0) /\ costCount' = 0 /\ stale' = FALSE
      /\ lines' = lines /\ costTx' = costTx /\ costTorn' = costTorn
  BY DEF C!CreateCalculation
<1>2. calc' \in C!CalcRows /\ calc'.quantity = q /\ calc'.margin = m
  BY <1>1, RecalculatedType
<1>3. C!TypeOK'
  <2>1. costCount' \in 0..MaxChanges
    BY <1>1, CostConstants
  <2> QED BY <1>1, <1>2, <2>1, CostTypes, CostTypesNext DEF CostsInv
<1>4. ASSUME NEW w \in Workers PROVE CostSound(costTx[w])'
  <2>1. costTx[w].op = NULL /\ costTx[w].at = "idle"
    BY <1>1 DEF CostsInv, CostSound
  <2> QED BY <1>1, <2>1, CostConstants DEF CostSound, C!Operations
<1>5. ASSUME NEW v \in Workers, NEW w \in Workers, v # w PROVE Apart(v, w)'
  BY <1>1, <1>5 DEF CostsInv, Apart, Locks
<1>6. calc' # NULL
  BY <1>2, CostConstants
<1>7. C!TotalsAreTheLines'
  <2>1. lines \in Tables /\ \A l \in C!Lines : lines[l] = NULL
    BY <1>1, CostTypes DEF CostsInv
  <2>2. C!Total(lines, Materials) = 0 /\ C!Total(lines, Labor) = 0
    BY <2>1, CostConstants, TotalOfNone
  <2> QED BY <1>1, <1>2, <2>2 DEF C!TotalsAreTheLines
<1>8. C!LinesAreProducts'
  BY <1>1 DEF CostsInv, C!LinesAreProducts
<1> QED BY <1>3, <1>4, <1>5, <1>6, <1>7, <1>8 DEF CostsInv

LEMMA CommitRemovalStep ==
  ASSUME CostsInv, NEW w \in Workers, C!CommitRemoval(w)
  PROVE  CostsInv'
<1>1. /\ calc' = NULL /\ lines' = [l \in C!Lines |-> NULL] /\ costCount' = 0
      /\ costTx' = [v \in Workers |-> C!Idle] /\ stale' = FALSE /\ costTorn' = {}
  BY DEF C!CommitRemoval
<1>2. C!TypeOK'
  <2>1. costTx' \in [Workers -> CostRequests]
    BY <1>1, IdleCost
  <2>2. lines' \in Tables
    BY <1>1 DEF Tables
  <2>3. costCount' \in 0..MaxChanges
    BY <1>1, CostConstants
  <2> QED BY <1>1, <2>1, <2>2, <2>3, CostTypesNext
<1>3. \A v \in Workers : costTx'[v] = C!Idle
  BY <1>1
<1>4. ASSUME NEW v \in Workers PROVE CostSound(costTx[v])'
  BY <1>3, IdleCost, CostConstants DEF CostSound, C!Operations
<1>5. ASSUME NEW v \in Workers, NEW u \in Workers, v # u PROVE Apart(v, u)'
  BY <1>3, IdleCost, CostConstants DEF Apart, Locks, C!Operations
<1>6. /\ calc' = NULL => \A l \in C!Lines : lines'[l] = NULL
      /\ C!TotalsAreTheLines'
      /\ C!LinesAreProducts'
  BY <1>1 DEF C!TotalsAreTheLines, C!LinesAreProducts
<1> QED BY <1>2, <1>4, <1>5, <1>6 DEF CostsInv

\* The line of a request after its commit.
LEMMA LineAfterSound ==
  ASSUME CostsInv, NEW w \in Workers, costTx[w].line \in C!Lines, costTx[w].at = "listed"
  PROVE  /\ C!LineAfter(w) \in C!LineRows \cup {NULL}
         /\ C!LineAfter(w) = NULL <=> costTx[w].op = "drop"
         /\ ~costTx[w].overlapped => C!LineAfter(w) = costTx[w].new
         /\ costTx[w].op = "add" => C!LineAfter(w) = costTx[w].new
<1> DEFINE t == costTx[w]
           l == t.line
<1>1. t \in CostRequests /\ CostSound(t) /\ t.op \in {"add", "edit", "drop"}
  BY CostTypes, CostConstants DEF CostsInv, CostSound, CostRequests, C!Operations
<1>2. CASE t.op = "edit"
  <2>1. lines[l] \in C!LineRows /\ t.old \in C!LineRows /\ t.new \in C!LineRows
        /\ (~t.overlapped => t.old = lines[l])
    BY <1>1, <1>2, CostTypes DEF CostsInv, CostSound, Tables
  <2>2. C!LineAfter(w) = C!Merged(lines[l], t.old, t.new, {"quantity", "price", "total"})
    BY <1>2 DEF C!LineAfter
  <2> HIDE DEF t, l
  <2>3. C!LineAfter(w) \in C!LineRows /\ (~t.overlapped => C!LineAfter(w) = t.new)
    BY <2>1, <2>2, MergedLine
  <2> QED BY <1>2, <2>3, CostConstants DEF t
<1>3. CASE t.op = "add"
  BY <1>1, <1>3, CostConstants DEF C!LineAfter, CostSound
<1>4. CASE t.op = "drop"
  BY <1>1, <1>4, CostConstants DEF C!LineAfter, CostSound
<1> QED BY <1>1, <1>2, <1>3, <1>4

LEMMA CommitCostStep ==
  ASSUME CostsInv, NEW w \in Workers, C!Commit(w)
  PROVE  CostsInv'
<1> DEFINE t == costTx[w]
           l == t.line
<1>1. /\ t.at = "listed" /\ t.op # "remove" /\ costCount < MaxChanges /\ costCount' = costCount + 1
      /\ calc' = C!Merged(calc, t.loaded, t.row, C!Columns)
      /\ lines' = IF l = NULL THEN lines ELSE [lines EXCEPT ![l] = C!LineAfter(w)]
      /\ stale' = t.overlapped
      /\ costTorn' = IF t.overlapped /\ t.op = "edit" THEN costTorn \cup {l} ELSE costTorn \ {l}
      /\ costTx' = C!Committed(w)
  BY DEF C!Commit
<1>2. t \in CostRequests /\ CostSound(t) /\ t.loaded \in C!CalcRows /\ t.row \in C!CalcRows
      /\ calc \in C!CalcRows /\ t.overlapped \in BOOLEAN /\ l \in C!Lines \cup {NULL}
  <2>1. t \in CostRequests /\ CostSound(t)
    BY CostTypes DEF CostsInv
  <2>2. t.loaded \in C!CalcRows /\ t.row \in C!CalcRows /\ calc # NULL
    BY <1>1, <2>1 DEF CostSound
  <2> QED BY <2>1, <2>2 DEF CostsInv, C!TypeOK, CostRequests
<1>3. calc' \in C!CalcRows /\ calc' # NULL /\ (~t.overlapped => calc' = t.row)
  <2>1. ~t.overlapped => t.loaded = calc
    BY <1>1, <1>2 DEF CostSound
  <2> QED BY <1>1, <1>2, <2>1, MergedCalc, CostConstants
<1>4. ASSUME l # NULL
      PROVE  /\ l \in C!Lines /\ lines'[l] = C!LineAfter(w) /\ C!LineAfter(w) \in C!LineRows \cup {NULL}
             /\ C!LineAfter(w) = NULL <=> t.op = "drop"
             /\ ~t.overlapped => C!LineAfter(w) = t.new
             /\ t.op = "add" => C!LineAfter(w) = t.new
             /\ lines' = [lines EXCEPT ![l] = C!LineAfter(w)]
  <2>1. l \in C!Lines /\ lines' = [lines EXCEPT ![l] = C!LineAfter(w)]
    BY <1>1, <1>2, <1>4
  <2>2. lines'[l] = C!LineAfter(w)
    BY <2>1, CostTypes DEF CostsInv, Tables
  <2> QED BY <1>1, <2>1, <2>2, LineAfterSound
<1>5. lines' \in Tables /\ \A k \in C!Lines : k # l => lines'[k] = lines[k]
  BY <1>1, <1>4, CostTypes DEF CostsInv, Tables
<1>6. costTorn' \subseteq C!Lines
  <2>1. t.op = "edit" => l \in C!Lines
    BY <1>2 DEF CostSound
  <2> QED BY <1>1, <2>1 DEF CostsInv, C!TypeOK
<1>7. ASSUME NEW v \in Workers \ {w}
      PROVE  /\ costTx'[v] \in CostRequests
             /\ costTx'[v].at = costTx[v].at /\ costTx'[v].op = costTx[v].op
             /\ costTx'[v].line = costTx[v].line /\ costTx'[v].old = costTx[v].old
             /\ costTx'[v].new = costTx[v].new /\ costTx'[v].loaded = costTx[v].loaded
             /\ costTx'[v].row = costTx[v].row
             /\ costTx[v].at # "idle" => costTx'[v].overlapped
  <2>1. costTx[v] \in CostRequests
    BY CostTypes DEF CostsInv
  <2>2. costTx'[v] = IF costTx[v].at = "idle" THEN costTx[v] ELSE [costTx[v] EXCEPT !.overlapped = TRUE]
    BY <1>1 DEF C!Committed
  <2> QED BY <2>1, <2>2 DEF CostRequests
<1>8. costTx'[w] = C!Idle
  BY <1>1 DEF C!Committed
<1>9. C!TypeOK'
  <2>1. \A v \in Workers : costTx'[v] \in CostRequests
    BY <1>7, <1>8, IdleCost
  <2>2. costTx' \in [Workers -> CostRequests]
    <3>1. costTx' = [v \in Workers |-> costTx'[v]]
      BY <1>1 DEF C!Committed
    <3> QED BY <2>1, <3>1
  <2>3. costCount' \in 0..MaxChanges
    <3>1. costCount \in 0..MaxChanges
      BY DEF CostsInv, C!TypeOK
    <3> QED BY <1>1, <3>1, CostConstants
  <2> QED BY <1>1, <1>2, <1>3, <1>5, <1>6, <2>2, <2>3, CostTypesNext
<1>10. ASSUME NEW v \in Workers PROVE CostSound(costTx[v])'
  <2>1. CASE v = w
    BY <1>8, <2>1, IdleCost, CostConstants DEF CostSound, C!Operations
  <2>2. CASE v # w
    <3> DEFINE o == costTx[v]
               n == costTx'[v]
    <3>1. CostSound(o) /\ Apart(v, w) /\ Apart(w, v)
      BY <2>2 DEF CostsInv
    <3>2. /\ n.at = o.at /\ n.op = o.op /\ n.line = o.line /\ n.old = o.old /\ n.new = o.new
          /\ n.loaded = o.loaded /\ n.row = o.row /\ (o.at # "idle" => n.overlapped)
      BY <1>7, <2>2
    <3>3. o.op = "add" => lines'[o.line] = NULL
      <4>1. o.op = "add" => o.line \in C!Lines /\ lines[o.line] = NULL /\ o.line # l
        BY <3>1 DEF CostSound, Apart
      <4> QED BY <1>5, <4>1
    <3>4. o.op = "edit" /\ o.at # "line" => lines'[o.line] # NULL
      <4> SUFFICES ASSUME o.op = "edit", o.at # "line" PROVE lines'[o.line] # NULL
        OBVIOUS
      <4>1. o.line \in C!Lines /\ lines[o.line] # NULL /\ Locks(o, o.line)
        <5>1. o \in CostRequests
          BY CostTypes DEF CostsInv
        <5>2. o.at \in {"calc", "listed"}
          BY <3>1, <5>1, CostConstants DEF CostSound, CostRequests, C!Operations
        <5> QED BY <3>1, <5>2 DEF CostSound, Locks
      <4>2. o.line # l
        BY <1>1, <3>1, <4>1 DEF Apart, Locks
      <4> QED BY <1>5, <4>1, <4>2
    <3> HIDE DEF o, n
    <3>5. o.op # NULL => o.at # "idle"
      BY <3>1 DEF CostSound
    <3>6. o.at = "idle" => o.op = NULL
      BY <3>1 DEF CostSound
    <3>7. /\ n.at = "idle" <=> n.op = NULL
          /\ n.op # NULL => calc' # NULL
          /\ n.op \in {"revise", "remove"} => n.line = NULL
          /\ n.op \in {"add", "edit", "drop"} => n.line \in C!Lines
          /\ n.at = "line" => n.op \in {"edit", "drop"}
          /\ n.op = "remove" => n.at = "listed"
      BY <1>3, <3>1, <3>2 DEF CostSound
    <3>8. /\ n.at \in {"calc", "listed"} /\ n.op # "remove" => n.loaded \in C!CalcRows /\ n.row \in C!CalcRows
          /\ n.op \in {"add", "edit"} => n.new \in C!LineRows /\ n.new.total = n.new.quantity * n.new.price
          /\ n.op = "edit" => n.old \in C!LineRows
          /\ n.op = "drop" => n.new = NULL
          /\ n.op = "add" => lines'[n.line] = NULL
          /\ n.op = "edit" /\ n.at # "line" => lines'[n.line] # NULL
      BY <3>1, <3>2, <3>3, <3>4 DEF CostSound
    <3>9. ~n.overlapped => n.op # "edit" /\ n.at \notin {"calc", "listed"}
      BY <3>2, <3>6, CostConstants DEF C!Operations
    <3> QED BY <3>7, <3>8, <3>9 DEF CostSound, n
  <2> QED BY <2>1, <2>2
<1>11. ASSUME NEW v \in Workers, NEW u \in Workers, v # u PROVE Apart(v, u)'
  <2>1. CASE v # w /\ u # w
    BY <1>7, <1>11, <2>1 DEF CostsInv, Apart, Locks
  <2>2. CASE u = w
    BY <1>8, <2>2, IdleCost, CostConstants DEF Apart, Locks, C!Operations
  <2>3. CASE v = w
    <3>1. u \in Workers \ {w} /\ CostSound(costTx[u]) /\ costTx'[u].op = costTx[u].op /\ costTx'[u].line = costTx[u].line
      BY <1>7, <1>11, <2>3 DEF CostsInv
    <3>2. costTx'[u].op = "add" => costTx'[u].line # NULL
      BY <3>1, CostConstants DEF CostSound
    <3> QED BY <1>8, <2>3, <3>2, IdleCost, CostConstants DEF Apart, Locks
  <2> QED BY <2>1, <2>2, <2>3
<1>12. C!TotalsAreTheLines'
  <2> SUFFICES ASSUME ~t.overlapped
               PROVE  calc' = C!Recalculated(calc'.quantity, calc'.margin, C!Total(lines', Materials),
                                             C!Total(lines', Labor))
    BY <1>1 DEF C!TotalsAreTheLines
  <2>1. calc' = t.row /\ RowIsTotal(t)
    BY <1>1, <1>2, <1>3 DEF CostSound
  <2>2. lines' = SeenBy(t)
    <3>1. CASE l = NULL
      BY <1>1, <3>1 DEF SeenBy
    <3>2. CASE l # NULL
      BY <1>4, <3>2 DEF SeenBy
    <3> QED BY <3>1, <3>2
  <2> QED BY <2>1, <2>2 DEF RowIsTotal
<1>13. C!LinesAreProducts'
  <2> SUFFICES ASSUME NEW k \in C!Lines, lines'[k] # NULL, k \notin costTorn'
               PROVE  lines'[k].total = lines'[k].quantity * lines'[k].price
    BY DEF C!LinesAreProducts
  <2>1. CASE k # l
    BY <1>1, <1>5, <2>1 DEF CostsInv, C!LinesAreProducts
  <2>2. CASE k = l
    <3>1. l # NULL /\ lines'[l] = C!LineAfter(w) /\ t.op # "drop"
      BY <1>4, <2>2, CostConstants
    <3>2. t.op \in {"add", "edit"}
      BY <1>1, <1>2, <3>1, CostConstants DEF CostSound, CostRequests, C!Operations
    <3>3. ~t.overlapped \/ t.op = "add"
      BY <1>1, <2>2, <3>2
    <3>4. lines'[l] = t.new
      BY <1>4, <3>1, <3>3
    <3> QED BY <1>2, <2>2, <3>2, <3>4 DEF CostSound
  <2> QED BY <2>1, <2>2
<1> QED BY <1>3, <1>9, <1>10, <1>11, <1>12, <1>13 DEF CostsInv

LEMMA CostsStep == CostsInv /\ [C!Next]_(costVars) => CostsInv'
<1> SUFFICES ASSUME CostsInv, [C!Next]_(costVars) PROVE CostsInv'
  OBVIOUS
<1>1. CASE UNCHANGED costVars
  <2>1. UNCHANGED <<calc, lines, costTx, costCount, stale, costTorn>>
    BY <1>1 DEF costVars
  <2>2. C!TypeOK'
    BY <2>1, CostTypes, CostTypesNext DEF CostsInv
  <2>3. ASSUME NEW w \in Workers PROVE CostSound(costTx[w])'
    <3>1. CostSound(costTx[w])
      BY DEF CostsInv
    <3> QED BY <2>1, <3>1 DEF CostSound, RowIsTotal, SeenBy
  <2> QED BY <2>1, <2>2, <2>3 DEF CostsInv, Apart, Locks, C!TotalsAreTheLines, C!LinesAreProducts
<1>2. ASSUME NEW q \in Pieces, NEW m \in Margins \cup {0}, C!CreateCalculation(q, m)
      PROVE  CostsInv'
  <2>1. q \in Nat \ {0} /\ m \in Nat
    BY CostConstants
  <2> QED BY <1>2, <2>1, CreateCalculationStep
<1>3. ASSUME NEW w \in Workers,
             \/ C!CreateMaterial(w) \/ C!UpdateMaterial(w) \/ C!DeleteMaterial(w)
             \/ C!CreateLabor(w) \/ C!UpdateLabor(w) \/ C!DeleteLabor(w)
      PROVE  CostsInv'
  <2>1. CASE C!CreateMaterial(w) \/ C!CreateLabor(w)
    <3>1. PICK l \in C!Lines, q \in Nat, p \in Nat : C!LoadForAdd(w, l, q, p)
      BY <2>1, CostConstants DEF C!CreateMaterial, C!CreateLabor
    <3> QED BY <3>1, LoadForAddStep
  <2>2. CASE C!UpdateMaterial(w) \/ C!UpdateLabor(w)
    <3>1. PICK l \in C!Lines, q \in Nat \cup {NULL}, p \in Nat \cup {NULL} : C!LoadLineForEdit(w, l, q, p)
      BY <2>2, CostConstants DEF C!UpdateMaterial, C!UpdateLabor
    <3> QED BY <3>1, LoadLineForEditStep
  <2>3. CASE C!DeleteMaterial(w) \/ C!DeleteLabor(w)
    <3>1. PICK l \in C!Lines : C!LoadLineForDrop(w, l)
      BY <2>3, CostConstants DEF C!DeleteMaterial, C!DeleteLabor
    <3> QED BY <3>1, LoadLineForDropStep
  <2> QED BY <1>3, <2>1, <2>2, <2>3
<1>4. ASSUME NEW w \in Workers, NEW q \in Pieces \cup {NULL}, NEW m \in Margins \cup {NULL},
             C!LoadForRevision(w, q, m)
      PROVE  CostsInv'
  <2>1. q \in (Nat \ {0}) \cup {NULL} /\ m \in Nat \cup {NULL}
    BY CostConstants
  <2> QED BY <1>4, <2>1, LoadForRevisionStep
<1>5. ASSUME NEW w \in Workers,
             \/ C!LoadForRemoval(w) \/ C!LoadCalculation(w) \/ C!ListLines(w)
             \/ C!Commit(w) \/ C!CommitRemoval(w) \/ C!Abort(w)
      PROVE  CostsInv'
  BY <1>5, LoadForRemovalStep, LoadCalculationStep, ListLinesStep, CommitCostStep, CommitRemovalStep,
     AbortCostStep
<1>6. CASE C!Next
  BY <1>2, <1>3, <1>4, <1>5, <1>6 DEF C!Next
<1> QED BY <1>1, <1>6

-----------------------------------------------------------------------------
(* Orders *)

\* The type of one request's transaction.
OrderRequests ==
  [at: {"idle", "creating", "editing", "batching", "relotting", "charging", "posting"},
   order: Codes \cup {NULL}, loaded: O!OrderRows \cup {NULL}, written: O!OrderRows \cup {NULL},
   batch: Batches \cup {NULL}, lot: Lots \cup {NULL}, pay: Payments \cup {NULL},
   gone: BOOLEAN, edited: BOOLEAN]

Charge(row) == O!Amount(row.quantity, row.price)

\* What a request knows of its order while the order is not deleted: it is there, and
\* its amount is the one that a checkout loaded unless it was edited since.  An edit
\* never writes the financial status that it loaded.
OrderSound(t) ==
  /\ t.at = "creating" => /\ t.order \in Codes /\ t.written \in O!OrderRows
                          /\ t.written.financial = "awaiting_payment"
  /\ t.at = "editing" => /\ t.order \in Codes /\ t.loaded \in O!OrderRows /\ t.written \in O!OrderRows
                         /\ t.written.financial = t.loaded.financial
                         /\ ~t.gone => orders[t.order] # NULL
  /\ t.at \in {"batching", "relotting"} => t.order \in Codes /\ t.batch \in Batches /\ t.lot \in Lots
  /\ t.at \in {"charging", "posting"} =>
       /\ t.order \in Codes /\ t.loaded \in O!OrderRows /\ t.pay \in Payments /\ t.batch = NULL
       /\ Charge(t.loaded) > 0
       /\ ~t.gone => /\ orders[t.order] # NULL
                     /\ ~t.edited => O!SameAmount(orders[t.order], t.loaded)
  /\ t.at = "posting" => ~t.gone

\* A payment belongs to an order that is there, and charges it unless it was edited.
PaymentSound(p) ==
  payments[p] # NULL =>
    LET row == payments[p]
    IN /\ row.fee = O!Fee(row.amount) /\ row.net = O!Net(row.amount)
       /\ orders[row.order] # NULL
       /\ p \notin edited => row.amount = Charge(orders[row.order])

OrdersInv ==
  /\ O!TypeOK
  /\ \A w \in Workers : OrderSound(orderTx[w])
  /\ \A p \in Payments : PaymentSound(p)
  /\ O!StatusIsPayments

LEMMA OrderTypes ==
  O!TypeOK <=> /\ orders \in [Codes -> O!OrderRows \cup {NULL}]
               /\ batches \in [Batches -> O!BatchRows \cup {NULL}]
               /\ payments \in [Payments -> O!PaymentRows \cup {NULL}]
               /\ orderTx \in [Workers -> OrderRequests]
               /\ reported \in [Codes -> O!Statuses]
               /\ edited \subseteq Payments
  BY DEF O!TypeOK, OrderRequests

LEMMA OrderTypesNext ==
  O!TypeOK' <=> /\ orders' \in [Codes -> O!OrderRows \cup {NULL}]
                /\ batches' \in [Batches -> O!BatchRows \cup {NULL}]
                /\ payments' \in [Payments -> O!PaymentRows \cup {NULL}]
                /\ orderTx' \in [Workers -> OrderRequests]
                /\ reported' \in [Codes -> O!Statuses]
                /\ edited' \subseteq Payments
  BY DEF O!TypeOK, OrderRequests

LEMMA OrderConstants ==
  /\ OrderQuantities \subseteq Nat /\ OrderPrices \subseteq Nat /\ Percent \in 0..100 /\ MinFee \in Nat
  /\ NULL \notin Codes /\ NULL \notin Batches /\ NULL \notin Lots /\ NULL \notin Payments
  /\ NULL \notin O!OrderRows /\ NULL \notin O!BatchRows /\ NULL \notin O!PaymentRows
  BY WorkshopAssumption DEF O!OrdersAssumption

\* An amount is the nearest whole number of cents.
LEMMA AmountBounds ==
  ASSUME NEW q \in Nat, NEW p \in Nat
  PROVE  /\ O!Amount(q, p) \in Nat
         /\ 100 * O!Amount(q, p) - q * p \in -49..50
<1> DEFINE x == q * p
<1>1. x \in Nat
  OBVIOUS
<1>2. O!Amount(q, p) = (x + 50) \div 100
  BY DEF O!Amount
<1> HIDE DEF x
<1>3. (x + 50) \div 100 \in Nat /\ 100 * ((x + 50) \div 100) - x \in -49..50
  BY <1>1
<1> QED BY <1>2, <1>3 DEF x

\* The fee and the seller's net make up the amount, unless the minimum is more.
LEMMA FeeAndNet ==
  ASSUME NEW a \in Nat
  PROVE  /\ O!Fee(a) \in Nat /\ O!Net(a) \in Nat
         /\ \/ O!Fee(a) + O!Net(a) = a
            \/ O!Net(a) = 0 /\ O!Fee(a) = MinFee /\ MinFee > a
<1> DEFINE x == a * Percent
           share == (x + 50) \div 100
<1>1. x \in Nat /\ x <= 100 * a
  <2>1. Percent \in Nat /\ Percent <= 100
    BY OrderConstants
  <2> QED BY <2>1
<1>2. O!Fee(a) = IF (x + 50) \div 100 > MinFee THEN (x + 50) \div 100 ELSE MinFee
  BY DEF O!Fee
<1> HIDE DEF x
<1>3. share \in Nat /\ share <= a
  BY <1>1
<1> HIDE DEF share
<1>4. O!Fee(a) = (IF share > MinFee THEN share ELSE MinFee) /\ MinFee \in Nat
  BY <1>2, OrderConstants DEF share
<1>5. O!Fee(a) \in Nat
  BY <1>3, <1>4
<1>6. O!Net(a) = IF a > O!Fee(a) THEN a - O!Fee(a) ELSE 0
  BY DEF O!Net
<1> QED BY <1>3, <1>4, <1>5, <1>6

LEMMA ChargeNat ==
  ASSUME NEW row \in O!OrderRows
  PROVE  Charge(row) \in Nat
<1>1. row.quantity \in Nat /\ row.price \in Nat
  BY OrderConstants DEF O!OrderRows
<1> QED BY <1>1, AmountBounds DEF Charge

\* A merged row is a row; it has the status that is there when the one written is the
\* one that was loaded, and the amount that is there when that is so of the amount.
LEMMA MergedOrder ==
  ASSUME NEW r \in O!OrderRows, NEW l \in O!OrderRows, NEW n \in O!OrderRows
  PROVE  /\ O!Merged(r, l, n) \in O!OrderRows
         /\ n.financial = l.financial => O!Merged(r, l, n).financial = r.financial
         /\ O!SameAmount(n, l) => O!SameAmount(O!Merged(r, l, n), r)
<1> DEFINE s == O!Merged(r, l, n)
<1>1. DOMAIN r = {"quantity", "price", "financial"}
  BY DEF O!OrderRows
<1>2. s = [quantity |-> IF n.quantity = l.quantity THEN r.quantity ELSE n.quantity,
           price |-> IF n.price = l.price THEN r.price ELSE n.price,
           financial |-> IF n.financial = l.financial THEN r.financial ELSE n.financial]
  BY <1>1 DEF O!Merged
<1>3. s \in O!OrderRows
  BY <1>2 DEF O!OrderRows
<1> QED BY <1>2, <1>3 DEF O!SameAmount

LEMMA IdleOrder ==
  /\ O!Idle \in OrderRequests /\ OrderSound(O!Idle)
  BY DEF O!Idle, OrderRequests, OrderSound

LEMMA OrdersInit == O!Init => OrdersInv
<1> SUFFICES ASSUME O!Init PROVE OrdersInv
  OBVIOUS
<1>1. O!TypeOK
  BY IdleOrder, OrderTypes DEF O!Init, O!Statuses
<1>2. \A w \in Workers : OrderSound(orderTx[w])
  BY IdleOrder DEF O!Init
<1>3. (\A p \in Payments : PaymentSound(p)) /\ O!StatusIsPayments
  BY DEF O!Init, PaymentSound, O!StatusIsPayments
<1> QED BY <1>1, <1>2, <1>3 DEF OrdersInv

\* A step of one request that commits nothing.
LEMMA OrderRequestStep ==
  ASSUME OrdersInv, NEW w \in Workers, NEW t \in OrderRequests, OrderSound(t),
         orderTx' = [orderTx EXCEPT ![w] = t], UNCHANGED <<orders, batches, payments, reported, edited>>
  PROVE  OrdersInv'
<1>1. orderTx \in [Workers -> OrderRequests]
  BY OrderTypes DEF OrdersInv
<1>2. O!TypeOK'
  BY OrderTypes, OrderTypesNext DEF OrdersInv
<1>3. ASSUME NEW v \in Workers PROVE OrderSound(orderTx[v])'
  <2>1. CASE v = w
    <3>1. orderTx'[v] = t
      BY <1>1, <2>1
    <3> QED BY <3>1 DEF OrderSound
  <2>2. CASE v # w
    <3>1. OrderSound(orderTx[v]) /\ orderTx'[v] = orderTx[v]
      BY <1>1, <2>2 DEF OrdersInv
    <3> QED BY <3>1 DEF OrderSound
  <2> QED BY <2>1, <2>2
<1>4. \A p \in Payments : PaymentSound(p)'
  BY DEF OrdersInv, PaymentSound
<1>5. O!StatusIsPayments'
  BY DEF OrdersInv, O!StatusIsPayments
<1> QED BY <1>2, <1>3, <1>4, <1>5 DEF OrdersInv

\* A request goes on knowing what it knows when every order stays and keeps its amount.
LEMMA OrderSoundKept ==
  ASSUME NEW t, t \in OrderRequests, OrderSound(t),
         \A c \in Codes : orders[c] # NULL => orders'[c] # NULL /\ O!SameAmount(orders'[c], orders[c])
  PROVE  OrderSound(t)'
<1>1. t.at \in {"editing", "charging", "posting"} /\ ~t.gone =>
        orders'[t.order] # NULL /\ O!SameAmount(orders'[t.order], orders[t.order])
  BY DEF OrderSound
<1> QED BY <1>1 DEF OrderSound, O!SameAmount

LEMMA AbortOrderStep ==
  ASSUME OrdersInv, NEW w \in Workers, O!Abort(w)
  PROVE  OrdersInv'
  BY IdleOrder, OrderRequestStep DEF O!Abort, O!End

LEMMA LookUpCodeStep ==
  ASSUME OrdersInv, NEW w \in Workers, NEW c \in Codes, NEW q \in OrderQuantities, NEW r \in OrderPrices,
         O!LookUpCode(w, c, q, r)
  PROVE  OrdersInv'
<1> DEFINE n == [quantity |-> q, price |-> r, financial |-> "awaiting_payment"]
           t == [O!Idle EXCEPT !.at = "creating", !.order = c, !.written = n]
<1>1. orderTx' = [orderTx EXCEPT ![w] = t] /\ UNCHANGED <<orders, batches, payments, reported, edited>>
  BY DEF O!LookUpCode, O!Begin
<1>2. n \in O!OrderRows /\ n.financial = "awaiting_payment"
  BY DEF O!OrderRows, O!Statuses
<1>3. t.at = "creating" /\ t.order = c /\ t.written = n /\ t \in OrderRequests
  <2> HIDE DEF n
  <2> QED BY <1>2 DEF O!Idle, OrderRequests
<1> HIDE DEF t, n
<1>4. OrderSound(t)
  BY <1>2, <1>3 DEF OrderSound
<1> QED BY <1>1, <1>3, <1>4, OrderRequestStep

LEMMA LoadOrderForEditStep ==
  ASSUME OrdersInv, NEW w \in Workers, NEW c \in Codes, NEW q \in OrderQuantities \cup {NULL},
         NEW r \in OrderPrices \cup {NULL}, O!LoadForEdit(w, c, q, r)
  PROVE  OrdersInv'
<1> DEFINE n == [orders[c] EXCEPT !.quantity = IF q = NULL THEN orders[c].quantity ELSE q,
                                  !.price = IF r = NULL THEN orders[c].price ELSE r]
           t == [O!Idle EXCEPT !.at = "editing", !.order = c, !.loaded = orders[c], !.written = n]
<1>1. /\ orders[c] # NULL /\ orders[c] \in O!OrderRows
      /\ orderTx' = [orderTx EXCEPT ![w] = t] /\ UNCHANGED <<orders, batches, payments, reported, edited>>
  BY DEF O!LoadForEdit, O!Begin, OrdersInv, O!TypeOK
<1>2. n \in O!OrderRows /\ n.financial = orders[c].financial
  BY <1>1 DEF O!OrderRows
<1>3. t.at = "editing" /\ t.order = c /\ t.loaded = orders[c] /\ t.written = n /\ t \in OrderRequests
  <2> HIDE DEF n
  <2> QED BY <1>1, <1>2 DEF O!Idle, OrderRequests
<1> HIDE DEF t, n
<1>4. OrderSound(t)
  BY <1>1, <1>2, <1>3 DEF OrderSound
<1> QED BY <1>1, <1>3, <1>4, OrderRequestStep

LEMMA LookUpLotStep ==
  ASSUME OrdersInv, NEW w \in Workers, NEW c \in Codes, NEW b \in Batches, NEW lot \in Lots,
         O!LookUpLot(w, c, b, lot)
  PROVE  OrdersInv'
<1> DEFINE t == [O!Idle EXCEPT !.at = "batching", !.order = c, !.batch = b, !.lot = lot]
<1>1. orderTx' = [orderTx EXCEPT ![w] = t] /\ UNCHANGED <<orders, batches, payments, reported, edited>>
  BY DEF O!LookUpLot, O!Begin
<1>2. t.at = "batching" /\ t.order = c /\ t.batch = b /\ t.lot = lot /\ t \in OrderRequests
  BY DEF O!Idle, OrderRequests
<1> HIDE DEF t
<1>3. OrderSound(t)
  BY <1>2 DEF OrderSound
<1> QED BY <1>1, <1>2, <1>3, OrderRequestStep

LEMMA LoadBatchStep ==
  ASSUME OrdersInv, NEW w \in Workers, NEW b \in Batches, NEW lot \in Lots, O!LoadBatch(w, b, lot)
  PROVE  OrdersInv'
<1> DEFINE t == [O!Idle EXCEPT !.at = "relotting", !.order = batches[b].order, !.batch = b, !.lot = lot]
<1>1. /\ batches[b].order \in Codes
      /\ orderTx' = [orderTx EXCEPT ![w] = t] /\ UNCHANGED <<orders, batches, payments, reported, edited>>
  BY DEF O!LoadBatch, O!Begin, OrdersInv, O!TypeOK, O!BatchRows
<1>2. t.at = "relotting" /\ t.order \in Codes /\ t.batch = b /\ t.lot = lot /\ t \in OrderRequests
  BY <1>1 DEF O!Idle, OrderRequests
<1> HIDE DEF t
<1>3. OrderSound(t)
  BY <1>2 DEF OrderSound
<1> QED BY <1>1, <1>2, <1>3, OrderRequestStep

LEMMA LoadForCheckoutStep ==
  ASSUME OrdersInv, NEW w \in Workers, NEW c \in Codes, NEW p \in Payments, O!LoadForCheckout(w, c, p)
  PROVE  OrdersInv'
<1> DEFINE t == [O!Idle EXCEPT !.at = "charging", !.order = c, !.loaded = orders[c], !.pay = p]
<1>1. /\ orders[c] # NULL /\ orders[c] \in O!OrderRows /\ Charge(orders[c]) > 0
      /\ orderTx' = [orderTx EXCEPT ![w] = t] /\ UNCHANGED <<orders, batches, payments, reported, edited>>
  BY DEF O!LoadForCheckout, O!Begin, OrdersInv, O!TypeOK, Charge
<1>2. /\ t.at = "charging" /\ t.order = c /\ t.loaded = orders[c] /\ t.pay = p /\ t.batch = NULL
      /\ t \in OrderRequests
  BY <1>1 DEF O!Idle, OrderRequests
<1> HIDE DEF t
<1>3. OrderSound(t)
  BY <1>1, <1>2 DEF OrderSound, O!SameAmount
<1> QED BY <1>1, <1>2, <1>3, OrderRequestStep

LEMMA PostCheckoutStep ==
  ASSUME OrdersInv, NEW w \in Workers, O!PostCheckout(w)
  PROVE  OrdersInv'
<1> DEFINE o == orderTx[w]
           t == [o EXCEPT !.at = "posting"]
<1>1. /\ o.at = "charging" /\ ~o.gone
      /\ orderTx' = [orderTx EXCEPT ![w] = t] /\ UNCHANGED <<orders, batches, payments, reported, edited>>
  BY DEF O!PostCheckout, O!Begin
<1>2. o \in OrderRequests /\ OrderSound(o)
  BY OrderTypes DEF OrdersInv
<1>3. /\ t.at = "posting" /\ t.order = o.order /\ t.loaded = o.loaded /\ t.pay = o.pay
      /\ t.batch = o.batch /\ t.gone = o.gone /\ t.edited = o.edited /\ t \in OrderRequests
  <2> HIDE DEF o
  <2> QED BY <1>2 DEF OrderRequests
<1> HIDE DEF t
<1>4. OrderSound(t)
  BY <1>1, <1>2, <1>3 DEF OrderSound
<1> QED BY <1>1, <1>3, <1>4, OrderRequestStep

LEMMA CommitCreateStep ==
  ASSUME OrdersInv, NEW w \in Workers, O!CommitCreate(w)
  PROVE  OrdersInv'
<1> DEFINE t == orderTx[w]
<1>1. /\ t.at = "creating" /\ orders[t.order] = NULL
      /\ orders' = [orders EXCEPT ![t.order] = t.written]
      /\ reported' = [reported EXCEPT ![t.order] = "awaiting_payment"]
      /\ orderTx' = [orderTx EXCEPT ![w] = O!Idle] /\ UNCHANGED <<batches, payments, edited>>
  BY DEF O!CommitCreate, O!End
<1>2. t.order \in Codes /\ t.written \in O!OrderRows /\ t.written.financial = "awaiting_payment"
  BY <1>1 DEF OrdersInv, OrderSound
<1>3. O!TypeOK'
  BY <1>1, <1>2, IdleOrder, OrderTypes, OrderTypesNext DEF OrdersInv, O!Statuses
<1>4. /\ orders'[t.order] = t.written /\ reported'[t.order] = "awaiting_payment"
      /\ \A c \in Codes \ {t.order} : orders'[c] = orders[c] /\ reported'[c] = reported[c]
  BY <1>1, <1>2 DEF OrdersInv, O!TypeOK
<1>5. \A c \in Codes : orders[c] # NULL => orders'[c] = orders[c]
  BY <1>1, <1>4
<1>6. ASSUME NEW v \in Workers PROVE OrderSound(orderTx[v])'
  <2>1. orderTx \in [Workers -> OrderRequests] /\ OrderSound(orderTx[v])
    BY OrderTypes DEF OrdersInv
  <2>2. orderTx'[v] = orderTx[v] \/ orderTx'[v] = O!Idle
    BY <1>1, <2>1
  <2>3. orderTx'[v] \in OrderRequests /\ OrderSound(orderTx'[v])
    BY <2>1, <2>2, IdleOrder
  <2>4. \A c \in Codes : orders[c] # NULL => orders'[c] # NULL /\ O!SameAmount(orders'[c], orders[c])
    BY <1>5 DEF O!SameAmount
  <2> QED BY <2>3, <2>4, OrderSoundKept
<1>7. \A p \in Payments : PaymentSound(p)'
  BY <1>1, <1>5, OrderTypes DEF OrdersInv, PaymentSound, O!PaymentRows
<1>8. O!StatusIsPayments'
  BY <1>2, <1>4 DEF OrdersInv, O!StatusIsPayments
<1> QED BY <1>3, <1>6, <1>7, <1>8 DEF OrdersInv

LEMMA CommitOrderEditStep ==
  ASSUME OrdersInv, NEW w \in Workers, O!CommitEdit(w)
  PROVE  OrdersInv'
<1> DEFINE t == orderTx[w]
           c == t.order
           r == O!Merged(orders[c], t.loaded, t.written)
           changed == ~O!SameAmount(r, orders[c])
<1>1. /\ t.at = "editing" /\ ~t.gone /\ UNCHANGED <<batches, payments, reported>>
      /\ orders' = [orders EXCEPT ![c] = r]
      /\ edited' = IF changed
                   THEN edited \cup {p \in Payments : payments[p] # NULL /\ payments[p].order = c}
                   ELSE edited
      /\ orderTx' = [v \in Workers |->
                       IF v = w THEN O!Idle
                       ELSE [orderTx[v] EXCEPT !.edited = orderTx[v].edited \/ (changed /\ orderTx[v].order = c)]]
  BY DEF O!CommitEdit, O!Edited
<1>2. /\ c \in Codes /\ orders[c] \in O!OrderRows /\ t.loaded \in O!OrderRows /\ t.written \in O!OrderRows
      /\ t.written.financial = t.loaded.financial
  BY <1>1, OrderTypes DEF OrdersInv, OrderSound
<1>3. r \in O!OrderRows /\ r.financial = orders[c].financial
  BY <1>2, MergedOrder
<1>4. changed \in BOOLEAN
  BY DEF O!SameAmount
<1> HIDE DEF r, changed
<1>5. /\ orders' \in [Codes -> O!OrderRows \cup {NULL}] /\ orders'[c] = r
      /\ \A d \in Codes \ {c} : orders'[d] = orders[d]
  BY <1>1, <1>2, <1>3, OrderTypes DEF OrdersInv
<1>6. orders'[c] # NULL /\ orders[c] # NULL /\ (~changed => O!SameAmount(orders'[c], orders[c]))
  BY <1>2, <1>3, <1>5, OrderConstants DEF changed
<1>7. ASSUME NEW v \in Workers PROVE orderTx'[v] \in OrderRequests /\ OrderSound(orderTx[v])'
  <2>1. CASE v = w
    <3>1. orderTx'[v] = O!Idle
      BY <1>1, <2>1
    <3> QED BY <3>1, IdleOrder DEF O!Idle, OrderSound
  <2>2. CASE v # w
    <3> DEFINE o == orderTx[v]
               n == orderTx'[v]
    <3>1. o \in OrderRequests /\ OrderSound(o)
      BY OrderTypes DEF OrdersInv
    <3>2. n = [o EXCEPT !.edited = o.edited \/ (changed /\ o.order = c)]
      BY <1>1, <2>2
    <3> HIDE DEF o
    <3>3. /\ n.at = o.at /\ n.order = o.order /\ n.loaded = o.loaded /\ n.written = o.written
          /\ n.batch = o.batch /\ n.lot = o.lot /\ n.pay = o.pay /\ n.gone = o.gone
          /\ n.edited = (o.edited \/ (changed /\ o.order = c))
          /\ n \in OrderRequests
      BY <1>4, <3>1, <3>2 DEF OrderRequests
    <3> HIDE DEF n
    <3>4. CASE o.order = c
      BY <1>6, <3>1, <3>3, <3>4 DEF OrderSound, O!SameAmount, n
    <3>5. CASE o.order # c
      BY <1>5, <3>1, <3>3, <3>5 DEF OrderSound, n
    <3> QED BY <3>3, <3>4, <3>5 DEF n
  <2> QED BY <2>1, <2>2
<1>8. orderTx' \in [Workers -> OrderRequests]
  BY <1>1, <1>7
<1>9. O!TypeOK'
  <2>1. edited' \subseteq Payments
    BY <1>1 DEF OrdersInv, O!TypeOK
  <2> QED BY <1>1, <1>5, <1>8, <2>1, OrderTypes, OrderTypesNext DEF OrdersInv
<1>10. ASSUME NEW p \in Payments PROVE PaymentSound(p)'
  <2> SUFFICES ASSUME payments[p] # NULL PROVE PaymentSound(p)'
    BY <1>1 DEF PaymentSound
  <2> DEFINE row == payments[p]
  <2>1. row.order \in Codes /\ PaymentSound(p) /\ payments' = payments
    BY <1>1, OrderTypes DEF OrdersInv, O!PaymentRows
  <2>2. row.fee = O!Fee(row.amount) /\ row.net = O!Net(row.amount) /\ orders[row.order] # NULL
        /\ (p \notin edited => row.amount = Charge(orders[row.order]))
    BY <2>1 DEF PaymentSound
  <2>3. orders'[row.order] # NULL
    BY <1>5, <1>6, <2>1, <2>2
  <2>4. p \notin edited' => row.amount = Charge(orders'[row.order])
    <3>1. CASE row.order # c
      BY <1>1, <1>5, <2>1, <2>2, <3>1
    <3>2. CASE row.order = c
      <4>1. p \notin edited' => ~changed /\ p \notin edited
        BY <1>1, <3>2
      <4> QED BY <1>6, <2>2, <3>2, <4>1 DEF Charge, O!SameAmount
    <3> QED BY <3>1, <3>2
  <2> QED BY <2>1, <2>2, <2>3, <2>4 DEF PaymentSound, Charge
<1>11. O!StatusIsPayments'
  BY <1>1, <1>3, <1>5, <1>6 DEF OrdersInv, O!StatusIsPayments
<1> QED BY <1>7, <1>9, <1>10, <1>11 DEF OrdersInv

LEMMA DeleteOrderStep ==
  ASSUME OrdersInv, NEW c \in Codes, O!DeleteOrder(c)
  PROVE  OrdersInv'
<1>1. /\ \A v \in Workers : ~(orderTx[v].at = "posting" /\ orderTx[v].order = c)
      /\ orders' = [orders EXCEPT ![c] = NULL]
      /\ batches' = [b \in Batches |->
                       IF batches[b] # NULL /\ batches[b].order = c THEN NULL ELSE batches[b]]
      /\ payments' = [p \in Payments |->
                        IF payments[p] # NULL /\ payments[p].order = c THEN NULL ELSE payments[p]]
      /\ edited' = edited \ {p \in Payments : payments[p] # NULL /\ payments[p].order = c}
      /\ orderTx' = [v \in Workers |-> IF orderTx[v].order = c /\ orderTx[v].at # "creating"
                                       THEN [orderTx[v] EXCEPT !.gone = TRUE] ELSE orderTx[v]]
      /\ reported' = [reported EXCEPT ![c] = "awaiting_payment"]
  BY DEF O!DeleteOrder
<1>2. \A d \in Codes \ {c} : orders'[d] = orders[d] /\ reported'[d] = reported[d]
  BY <1>1 DEF OrdersInv, O!TypeOK
<1>3. orders'[c] = NULL
  BY <1>1 DEF OrdersInv, O!TypeOK
<1>4. ASSUME NEW v \in Workers PROVE orderTx'[v] \in OrderRequests /\ OrderSound(orderTx[v])'
  <2> DEFINE o == orderTx[v]
             n == orderTx'[v]
  <2>1. o \in OrderRequests /\ OrderSound(o)
    BY OrderTypes DEF OrdersInv
  <2>2. CASE o.order = c /\ o.at # "creating"
    <3>1. n = [o EXCEPT !.gone = TRUE] /\ o.at # "posting"
      BY <1>1, <2>2
    <3>2. /\ n.at = o.at /\ n.order = o.order /\ n.loaded = o.loaded /\ n.written = o.written
          /\ n.batch = o.batch /\ n.lot = o.lot /\ n.pay = o.pay /\ n.gone /\ n \in OrderRequests
      <4> HIDE DEF o
      <4> QED BY <2>1, <3>1 DEF OrderRequests
    <3> HIDE DEF o, n
    <3> QED BY <2>1, <2>2, <3>1, <3>2 DEF OrderSound, n
  <2>3. CASE o.order # c
    <3>1. n = o
      BY <1>1, <2>3
    <3> QED BY <1>2, <2>1, <2>3, <3>1 DEF OrderSound
  <2>4. CASE o.at = "creating"
    <3>1. n = o
      BY <1>1, <2>4
    <3> QED BY <2>1, <2>4, <3>1 DEF OrderSound
  <2> QED BY <2>2, <2>3, <2>4
<1>5. O!TypeOK'
  <2>1. orderTx' \in [Workers -> OrderRequests]
    BY <1>1, <1>4
  <2>2. /\ batches' \in [Batches -> O!BatchRows \cup {NULL}]
        /\ payments' \in [Payments -> O!PaymentRows \cup {NULL}]
    BY <1>1, OrderTypes DEF OrdersInv
  <2>3. /\ orders' \in [Codes -> O!OrderRows \cup {NULL}] /\ reported' \in [Codes -> O!Statuses]
        /\ edited' \subseteq Payments
    BY <1>1, OrderTypes DEF OrdersInv, O!Statuses
  <2> QED BY <2>1, <2>2, <2>3, OrderTypesNext
<1>6. ASSUME NEW p \in Payments PROVE PaymentSound(p)'
  <2>1. CASE payments[p] # NULL /\ payments[p].order = c
    BY <1>1, <2>1 DEF PaymentSound
  <2>2. CASE payments[p] = NULL
    BY <1>1, <2>2 DEF PaymentSound
  <2>3. CASE payments[p] # NULL /\ payments[p].order # c
    <3>1. payments'[p] = payments[p] /\ (p \in edited' <=> p \in edited) /\ PaymentSound(p)
      BY <1>1, <2>3 DEF OrdersInv
    <3>2. payments[p].order \in Codes \ {c}
      BY <2>3, OrderTypes DEF OrdersInv, O!PaymentRows
    <3> QED BY <1>2, <2>3, <3>1, <3>2 DEF PaymentSound, Charge
  <2> QED BY <2>1, <2>2, <2>3
<1>7. O!StatusIsPayments'
  BY <1>2, <1>3 DEF OrdersInv, O!StatusIsPayments
<1> QED BY <1>4, <1>5, <1>6, <1>7 DEF OrdersInv

LEMMA CommitBatchStep ==
  ASSUME OrdersInv, NEW w \in Workers, O!CommitBatch(w)
  PROVE  OrdersInv'
<1> DEFINE t == orderTx[w]
           row == [order |-> t.order, lot |-> t.lot]
<1>1. /\ t.at \in {"batching", "relotting"} /\ batches' = [batches EXCEPT ![t.batch] = row]
      /\ orderTx' = [orderTx EXCEPT ![w] = O!Idle] /\ UNCHANGED <<orders, payments, reported, edited>>
  BY DEF O!CommitBatch, O!End
<1>2. t.order \in Codes /\ t.batch \in Batches /\ t.lot \in Lots
  BY <1>1 DEF OrdersInv, OrderSound
<1>3. row \in O!BatchRows
  BY <1>2 DEF O!BatchRows
<1>4. O!TypeOK'
  BY <1>1, <1>2, <1>3, IdleOrder, OrderTypes, OrderTypesNext DEF OrdersInv
<1>5. ASSUME NEW v \in Workers PROVE OrderSound(orderTx[v])'
  <2>1. orderTx \in [Workers -> OrderRequests] /\ OrderSound(orderTx[v])
    BY OrderTypes DEF OrdersInv
  <2>2. OrderSound(orderTx'[v])
    BY <1>1, <2>1, IdleOrder
  <2> QED BY <1>1, <2>2 DEF OrderSound
<1>6. (\A p \in Payments : PaymentSound(p)') /\ O!StatusIsPayments'
  BY <1>1 DEF OrdersInv, PaymentSound, O!StatusIsPayments
<1> QED BY <1>4, <1>5, <1>6 DEF OrdersInv

LEMMA DeleteBatchStep ==
  ASSUME OrdersInv, NEW b \in Batches, O!DeleteBatch(b)
  PROVE  OrdersInv'
<1>1. /\ batches' = [batches EXCEPT ![b] = NULL]
      /\ orderTx' = [v \in Workers |-> IF orderTx[v].batch = b THEN [orderTx[v] EXCEPT !.gone = TRUE]
                                       ELSE orderTx[v]]
      /\ UNCHANGED <<orders, payments, reported, edited>>
  BY DEF O!DeleteBatch
<1>2. ASSUME NEW v \in Workers PROVE orderTx'[v] \in OrderRequests /\ OrderSound(orderTx[v])'
  <2> DEFINE o == orderTx[v]
             n == orderTx'[v]
  <2>1. o \in OrderRequests /\ OrderSound(o)
    BY OrderTypes DEF OrdersInv
  <2>2. CASE o.batch = b
    <3>1. n = [o EXCEPT !.gone = TRUE] /\ o.batch # NULL
      BY <1>1, <2>2, OrderConstants
    <3>2. /\ n.at = o.at /\ n.order = o.order /\ n.loaded = o.loaded /\ n.written = o.written
          /\ n.batch = o.batch /\ n.lot = o.lot /\ n.pay = o.pay /\ n.gone /\ n \in OrderRequests
      <4> HIDE DEF o
      <4> QED BY <2>1, <3>1 DEF OrderRequests
    <3>3. o.at # "posting"
      BY <2>1, <3>1 DEF OrderSound
    <3> HIDE DEF o, n
    <3> QED BY <1>1, <2>1, <3>2, <3>3 DEF OrderSound, n
  <2>3. CASE o.batch # b
    <3>1. n = o
      BY <1>1, <2>3
    <3> QED BY <1>1, <2>1, <3>1 DEF OrderSound
  <2> QED BY <2>2, <2>3
<1>3. O!TypeOK'
  <2>1. orderTx' \in [Workers -> OrderRequests]
    BY <1>1, <1>2
  <2> QED BY <1>1, <2>1, OrderTypes, OrderTypesNext DEF OrdersInv
<1>4. (\A p \in Payments : PaymentSound(p)') /\ O!StatusIsPayments'
  BY <1>1 DEF OrdersInv, PaymentSound, O!StatusIsPayments
<1> QED BY <1>2, <1>3, <1>4 DEF OrdersInv

LEMMA CommitCheckoutStep ==
  ASSUME OrdersInv, NEW w \in Workers, O!CommitCheckout(w)
  PROVE  OrdersInv'
<1> DEFINE t == orderTx[w]
           c == t.order
           amount == Charge(t.loaded)
           awaiting == [t.loaded EXCEPT !.financial = "awaiting_payment"]
           r == O!Merged(orders[c], t.loaded, awaiting)
           charge == [order |-> c, amount |-> amount, fee |-> O!Fee(amount), net |-> O!Net(amount)]
<1>1. /\ t.at = "posting" /\ orders' = [orders EXCEPT ![c] = r]
      /\ reported' = [reported EXCEPT ![c] = r.financial]
      /\ payments' = [payments EXCEPT ![t.pay] = charge]
      /\ edited' = IF t.edited THEN edited \cup {t.pay} ELSE edited
      /\ orderTx' = [orderTx EXCEPT ![w] = O!Idle] /\ batches' = batches
  BY DEF O!CommitCheckout, O!End, Charge
<1>2. t \in OrderRequests /\ OrderSound(t)
  BY OrderTypes DEF OrdersInv
<1>3. /\ c \in Codes /\ t.loaded \in O!OrderRows /\ t.pay \in Payments /\ amount > 0
      /\ orders[c] # NULL /\ (~t.edited => O!SameAmount(orders[c], t.loaded))
  BY <1>1, <1>2 DEF OrderSound
<1>4. orders[c] \in O!OrderRows
  BY <1>3, OrderTypes DEF OrdersInv
<1>5. awaiting \in O!OrderRows /\ O!SameAmount(awaiting, t.loaded)
  BY <1>3 DEF O!OrderRows, O!Statuses, O!SameAmount
<1>6. r \in O!OrderRows /\ O!SameAmount(r, orders[c])
  <2> HIDE DEF awaiting, t
  <2> QED BY <1>3, <1>4, <1>5, MergedOrder
<1>7. charge \in O!PaymentRows
  <2>1. amount \in Nat \ {0}
    BY <1>3, ChargeNat
  <2>2. O!Fee(amount) \in Nat /\ O!Net(amount) \in Nat
    BY <2>1, FeeAndNet
  <2> HIDE DEF amount
  <2> QED BY <1>3, <2>1, <2>2 DEF O!PaymentRows
<1> HIDE DEF r, awaiting
<1>8. O!TypeOK'
  <2>1. r.financial \in O!Statuses
    BY <1>6 DEF O!OrderRows
  <2>2. edited' \subseteq Payments
    BY <1>1, <1>3 DEF OrdersInv, O!TypeOK
  <2> HIDE DEF charge
  <2> QED BY <1>1, <1>3, <1>6, <1>7, <2>1, <2>2, IdleOrder, OrderTypes, OrderTypesNext DEF OrdersInv
<1>9. /\ orders'[c] = r /\ reported'[c] = r.financial
      /\ \A d \in Codes \ {c} : orders'[d] = orders[d] /\ reported'[d] = reported[d]
  BY <1>1, <1>3 DEF OrdersInv, O!TypeOK
<1>10. \A d \in Codes : orders[d] # NULL => orders'[d] # NULL /\ O!SameAmount(orders'[d], orders[d])
  <2>1. r # NULL
    BY <1>6, OrderConstants
  <2> QED BY <1>6, <1>9, <2>1 DEF O!SameAmount
<1>11. ASSUME NEW v \in Workers PROVE OrderSound(orderTx[v])'
  <2>1. orderTx \in [Workers -> OrderRequests] /\ OrderSound(orderTx[v])
    BY OrderTypes DEF OrdersInv
  <2>2. orderTx'[v] \in OrderRequests /\ OrderSound(orderTx'[v])
    BY <1>1, <2>1, IdleOrder
  <2> QED BY <1>10, <2>2, OrderSoundKept
<1>12. ASSUME NEW p \in Payments PROVE PaymentSound(p)'
  <2>1. CASE p = t.pay
    <3>1. payments'[p] = charge
      BY <1>1, <2>1, OrderTypes DEF OrdersInv
    <3>2. p \notin edited' => amount = Charge(orders'[c])
      BY <1>1, <1>3, <1>6, <1>9, <2>1 DEF Charge, O!SameAmount
    <3>3. orders'[c] # NULL
      BY <1>3, <1>10
    <3> QED BY <3>1, <3>2, <3>3 DEF PaymentSound, Charge
  <2>2. CASE p # t.pay
    <3> SUFFICES ASSUME payments[p] # NULL PROVE PaymentSound(p)'
      BY <1>1, <2>2, OrderTypes DEF OrdersInv, PaymentSound
    <3> DEFINE row == payments[p]
    <3>1. /\ payments'[p] = row /\ row.order \in Codes /\ PaymentSound(p)
          /\ (p \in edited' <=> p \in edited)
      BY <1>1, <2>2, OrderTypes DEF OrdersInv, O!PaymentRows
    <3>2. orders[row.order] # NULL
      BY <3>1 DEF PaymentSound
    <3>3. orders'[row.order] # NULL /\ O!SameAmount(orders'[row.order], orders[row.order])
      BY <1>10, <3>1, <3>2
    <3> QED BY <3>1, <3>3 DEF PaymentSound, Charge, O!SameAmount
  <2> QED BY <2>1, <2>2
<1>13. O!StatusIsPayments'
  BY <1>9 DEF OrdersInv, O!StatusIsPayments
<1> QED BY <1>8, <1>11, <1>12, <1>13 DEF OrdersInv

LEMMA PaymentReportedStep ==
  ASSUME OrdersInv, NEW p \in Payments, NEW status \in O!Statuses, O!PaymentReported(p, status)
  PROVE  OrdersInv'
<1> DEFINE c == payments[p].order
           r == [orders[c] EXCEPT !.financial = status]
<1>1. /\ payments[p] # NULL /\ orders' = [orders EXCEPT ![c] = r]
      /\ reported' = [reported EXCEPT ![c] = status] /\ UNCHANGED <<batches, payments, orderTx, edited>>
  BY DEF O!PaymentReported
<1>2. c \in Codes /\ orders[c] \in O!OrderRows
  BY <1>1, OrderTypes DEF OrdersInv, PaymentSound, O!PaymentRows
<1>3. r \in O!OrderRows /\ r.financial = status /\ O!SameAmount(r, orders[c])
  BY <1>2 DEF O!OrderRows, O!SameAmount
<1> HIDE DEF r, c
<1>4. O!TypeOK'
  BY <1>1, <1>2, <1>3, OrderTypes, OrderTypesNext DEF OrdersInv
<1>5. /\ orders'[c] = r /\ reported'[c] = status
      /\ \A d \in Codes \ {c} : orders'[d] = orders[d] /\ reported'[d] = reported[d]
  BY <1>1, <1>2 DEF OrdersInv, O!TypeOK
<1>6. \A d \in Codes : orders[d] # NULL => orders'[d] # NULL /\ O!SameAmount(orders'[d], orders[d])
  BY <1>3, <1>5, OrderConstants DEF O!SameAmount
<1>7. ASSUME NEW v \in Workers PROVE OrderSound(orderTx[v])'
  <2>1. orderTx'[v] \in OrderRequests /\ OrderSound(orderTx'[v])
    BY <1>1, OrderTypes DEF OrdersInv
  <2> QED BY <1>6, <2>1, OrderSoundKept
<1>8. ASSUME NEW q \in Payments PROVE PaymentSound(q)'
  <2> SUFFICES ASSUME payments[q] # NULL PROVE PaymentSound(q)'
    BY <1>1 DEF PaymentSound
  <2>1. payments[q].order \in Codes /\ PaymentSound(q) /\ orders[payments[q].order] # NULL
    BY OrderTypes DEF OrdersInv, PaymentSound, O!PaymentRows
  <2>2. /\ orders'[payments[q].order] # NULL
        /\ O!SameAmount(orders'[payments[q].order], orders[payments[q].order])
    BY <1>6, <2>1
  <2> QED BY <1>1, <2>1, <2>2 DEF PaymentSound, Charge, O!SameAmount
<1>9. O!StatusIsPayments'
  BY <1>3, <1>5 DEF OrdersInv, O!StatusIsPayments
<1> QED BY <1>4, <1>7, <1>8, <1>9 DEF OrdersInv

LEMMA OrdersStep == OrdersInv /\ [O!Next]_(orderVars) => OrdersInv'
<1> SUFFICES ASSUME OrdersInv, [O!Next]_(orderVars) PROVE OrdersInv'
  OBVIOUS
<1>1. CASE UNCHANGED orderVars
  <2>1. UNCHANGED <<orders, batches, payments, orderTx, reported, edited>>
    BY <1>1 DEF orderVars
  <2>2. O!TypeOK'
    BY <2>1, OrderTypes, OrderTypesNext DEF OrdersInv
  <2> QED BY <2>1, <2>2 DEF OrdersInv, OrderSound, PaymentSound, O!StatusIsPayments
<1>2. ASSUME NEW w \in Workers,
             \/ \E c \in Codes, q \in OrderQuantities, r \in OrderPrices : O!LookUpCode(w, c, q, r)
             \/ \E c \in Codes, q \in OrderQuantities \cup {NULL}, r \in OrderPrices \cup {NULL} :
                  O!LoadForEdit(w, c, q, r)
             \/ \E c \in Codes, b \in Batches, lot \in Lots : O!LookUpLot(w, c, b, lot)
             \/ \E b \in Batches, lot \in Lots : O!LoadBatch(w, b, lot)
             \/ \E c \in Codes, p \in Payments : O!LoadForCheckout(w, c, p)
             \/ O!CommitCreate(w) \/ O!CommitEdit(w) \/ O!CommitBatch(w)
             \/ O!PostCheckout(w) \/ O!CommitCheckout(w) \/ O!Abort(w)
      PROVE  OrdersInv'
  BY <1>2, LookUpCodeStep, LoadOrderForEditStep, LookUpLotStep, LoadBatchStep, LoadForCheckoutStep,
     CommitCreateStep, CommitOrderEditStep, CommitBatchStep, PostCheckoutStep, CommitCheckoutStep, AbortOrderStep
<1>3. ASSUME \/ \E c \in Codes : O!DeleteOrder(c)
             \/ \E b \in Batches : O!DeleteBatch(b)
             \/ \E p \in Payments, status \in O!Statuses \ {"awaiting_payment"} : O!PaymentReported(p, status)
      PROVE  OrdersInv'
  BY <1>3, DeleteOrderStep, DeleteBatchStep, PaymentReportedStep
<1>4. CASE O!Next
  BY <1>2, <1>3, <1>4 DEF O!Next
<1> QED BY <1>1, <1>4

\* What a sound payment charges.
LEMMA SoundCharges == OrdersInv => O!ChargesAreTheOrder
<1> SUFFICES ASSUME OrdersInv, NEW p \in Payments, payments[p] # NULL
             PROVE  LET row == payments[p]
                        exact == orders[row.order].quantity * orders[row.order].price
                    IN /\ p \notin edited => 100 * row.amount - exact \in -49..50
                       /\ row.fee + row.net = row.amount \/ (row.net = 0 /\ row.fee = MinFee /\ MinFee > row.amount)
  BY DEF O!ChargesAreTheOrder
<1> DEFINE row == payments[p]
<1>1. /\ row \in O!PaymentRows /\ row.fee = O!Fee(row.amount) /\ row.net = O!Net(row.amount)
      /\ orders[row.order] \in O!OrderRows /\ (p \notin edited => row.amount = Charge(orders[row.order]))
  BY OrderTypes DEF OrdersInv, PaymentSound, O!PaymentRows
<1>2. row.amount \in Nat /\ orders[row.order].quantity \in Nat /\ orders[row.order].price \in Nat
  BY <1>1, OrderConstants DEF O!PaymentRows, O!OrderRows
<1>3. row.fee + row.net = row.amount \/ (row.net = 0 /\ row.fee = MinFee /\ MinFee > row.amount)
  BY <1>1, <1>2, FeeAndNet
<1>4. p \notin edited => 100 * row.amount - orders[row.order].quantity * orders[row.order].price \in -49..50
  BY <1>1, <1>2, AmountBounds DEF Charge
<1> QED BY <1>3, <1>4

-----------------------------------------------------------------------------
(* Technical sheets *)

\* The type of one request's transaction.
SheetRequests ==
  [at: {"idle", "open"}, old: S!SheetRows \cup {NULL}, new: S!SheetRows \cup {NULL},
   todo: Seq(S!Steps), dirty: SUBSET (Rows \cup {S!Sheet}), held: SUBSET (Rows \cup {S!Sheet}),
   read: [Rows -> S!States \cup {NULL}], set: [Rows -> S!States \cup {NULL}], overlapped: BOOLEAN]

\* An open request makes the sheet a consistent one or leaves it alone; no row that it
\* read goes away, and what it read is what is there as long as nothing overlapped it.
SheetSound(t) ==
  t.at = "open" =>
    /\ sheet # NULL /\ t.old \in S!SheetRows /\ t.new \in S!SheetRows
    /\ t.new = t.old \/ t.new.total = S!Total(t.new.sizes)
    /\ \A r \in Rows : t.read[r] # NULL => steps[r] # NULL
    /\ ~t.overlapped => /\ t.old = sheet
                        /\ \A r \in Rows : t.set[r] # NULL => t.read[r] = steps[r]

SheetsInv ==
  /\ S!TypeOK
  /\ \A w \in Workers : SheetSound(sheetTx[w])
  /\ S!SheetIsConsistent

LEMMA SheetTypes ==
  S!TypeOK <=> /\ sheet \in S!SheetRows \cup {NULL}
               /\ steps \in [Rows -> S!States \cup {NULL}]
               /\ sheetTx \in [Workers -> SheetRequests]
               /\ sheetCount \in 0..MaxChanges
               /\ asked \in [Rows -> S!States \cup {NULL}]
               /\ sheetTorn \subseteq Rows \cup {S!Sheet}
  BY DEF S!TypeOK, SheetRequests

LEMMA SheetTypesNext ==
  S!TypeOK' <=> /\ sheet' \in S!SheetRows \cup {NULL}
                /\ steps' \in [Rows -> S!States \cup {NULL}]
                /\ sheetTx' \in [Workers -> SheetRequests]
                /\ sheetCount' \in 0..MaxChanges
                /\ asked' \in [Rows -> S!States \cup {NULL}]
                /\ sheetTorn' \subseteq Rows \cup {S!Sheet}
  BY DEF S!TypeOK, SheetRequests

LEMMA SheetConstants ==
  /\ IsFiniteSet(Sizes) /\ MaxChanges \in Nat /\ S!Sheet \notin Rows
  /\ \A body \in Bodies : body.sizes \in [Sizes -> Int] \cup {NULL} /\ body.steps \in Seq(S!Steps)
  /\ NULL \notin S!States /\ NULL \notin S!SheetRows
<1>1. S!SheetsAssumption
  BY WorkshopAssumption
<1>2. IsFiniteSet(Sizes)
  BY <1>1 DEF S!SheetsAssumption, S!IsFiniteSet, IsFiniteSet
<1> QED BY <1>1, <1>2 DEF S!SheetsAssumption

\* The columns made of a body's sizes are consistent.
LEMMA RowOfSound ==
  ASSUME NEW sizes \in [Sizes -> Int]
  PROVE  /\ S!RowOf(sizes) \in S!SheetRows
         /\ S!RowOf(sizes).total = S!Total(S!RowOf(sizes).sizes)
<1> DEFINE kept == [s \in Sizes |-> IF sizes[s] > 0 THEN sizes[s] ELSE 0]
<1>1. kept \in [Sizes -> Nat]
  OBVIOUS
<1>2. S!RowOf(sizes) = [sizes |-> kept, total |-> S!Total(kept)]
  BY DEF S!RowOf
<1> HIDE DEF kept
<1>3. S!Total(kept) = SumFunction(kept)
  BY DEF S!Total, S!SumFunction, S!SumFunctionOnSet, S!FoldFunctionOnSet, S!MapThenFoldSet,
         SumFunction, SumFunctionOnSet, FoldFunctionOnSet, MapThenFoldSet
<1>4. S!Total(kept) \in Nat
  BY <1>1, <1>3, SheetConstants, SumIsNat
<1> QED BY <1>1, <1>2, <1>4 DEF S!SheetRows

\* Merging columns gives a row of the same kind: what was written when what was loaded
\* is what is there, and what is there when nothing was changed.
LEMMA MergedSheet ==
  ASSUME NEW r \in S!SheetRows, NEW l \in S!SheetRows, NEW n \in S!SheetRows
  PROVE  /\ S!Merged(r, l, n) \in S!SheetRows
         /\ r = l => S!Merged(r, l, n) = n
         /\ n = l => S!Merged(r, l, n) = r
<1> DEFINE s == S!Merged(r, l, n)
<1>1. DOMAIN r = {"sizes", "total"}
  BY DEF S!SheetRows
<1>2. s = [sizes |-> IF n.sizes = l.sizes THEN r.sizes ELSE n.sizes,
           total |-> IF n.total = l.total THEN r.total ELSE n.total]
  BY <1>1 DEF S!Merged
<1>3. s \in S!SheetRows
  BY <1>2 DEF S!SheetRows
<1>4. ASSUME r = l PROVE s = n
  BY <1>2, <1>4 DEF S!SheetRows
<1>5. ASSUME n = l PROVE s = r
  BY <1>2, <1>5 DEF S!SheetRows
<1> QED BY <1>3, <1>4, <1>5

LEMMA MergedStep ==
  ASSUME NEW r \in S!States, NEW l \in S!States, NEW n \in S!States
  PROVE  /\ S!Merged(r, l, n) \in S!States
         /\ r = l => S!Merged(r, l, n) = n
<1> DEFINE s == S!Merged(r, l, n)
<1>1. DOMAIN r = {"completed", "date"}
  BY DEF S!States
<1>2. s = [completed |-> IF n.completed = l.completed THEN r.completed ELSE n.completed,
           date |-> IF n.date = l.date THEN r.date ELSE n.date]
  BY <1>1 DEF S!Merged
<1>3. s \in S!States
  BY <1>2 DEF S!States
<1>4. ASSUME r = l PROVE s = n
  BY <1>2, <1>4 DEF S!States
<1> QED BY <1>3, <1>4

LEMMA IdleSheet ==
  S!Idle \in SheetRequests /\ S!Idle.at = "idle" /\ S!Idle.overlapped = FALSE
  BY DEF S!Idle, SheetRequests

LEMMA SheetsInit == S!Init => SheetsInv
<1> SUFFICES ASSUME S!Init PROVE SheetsInv
  OBVIOUS
<1>1. sheetCount \in 0..MaxChanges
  BY SheetConstants DEF S!Init
<1>2. S!TypeOK
  BY <1>1, IdleSheet, SheetTypes DEF S!Init
<1>3. \A w \in Workers : SheetSound(sheetTx[w])
  BY IdleSheet DEF S!Init, SheetSound
<1> QED BY <1>2, <1>3 DEF SheetsInv, S!Init, S!SheetIsConsistent

\* A step of one request that commits nothing.
LEMMA SheetRequestStep ==
  ASSUME SheetsInv, NEW w \in Workers, NEW t \in SheetRequests, SheetSound(t),
         sheetTx' = [sheetTx EXCEPT ![w] = t], UNCHANGED <<sheet, steps, sheetCount, asked, sheetTorn>>
  PROVE  SheetsInv'
<1>1. sheetTx \in [Workers -> SheetRequests]
  BY SheetTypes DEF SheetsInv
<1>2. S!TypeOK'
  BY SheetTypes, SheetTypesNext DEF SheetsInv
<1>3. ASSUME NEW v \in Workers PROVE SheetSound(sheetTx[v])'
  <2>1. SheetSound(sheetTx'[v])
    BY <1>1 DEF SheetsInv
  <2> QED BY <2>1 DEF SheetSound
<1>4. S!SheetIsConsistent'
  BY DEF SheetsInv, S!SheetIsConsistent
<1> QED BY <1>2, <1>3, <1>4 DEF SheetsInv

LEMMA AbortSheetStep ==
  ASSUME SheetsInv, NEW w \in Workers, S!Abort(w)
  PROVE  SheetsInv'
<1>1. SheetSound(S!Idle)
  BY IdleSheet DEF SheetSound
<1> QED BY <1>1, IdleSheet, SheetRequestStep DEF S!Abort

LEMMA LoadSheetStep ==
  ASSUME SheetsInv, NEW w \in Workers, NEW body \in Bodies, S!LoadSheet(w, body)
  PROVE  SheetsInv'
<1> DEFINE new == IF body.sizes = NULL THEN sheet ELSE S!RowOf(body.sizes)
           dirty == IF new = sheet THEN {} ELSE {S!Sheet}
           t == [S!Idle EXCEPT !.at = "open", !.old = sheet, !.new = new, !.todo = body.steps,
                               !.dirty = dirty]
<1>1. /\ sheet # NULL /\ sheet \in S!SheetRows /\ sheetTx' = [sheetTx EXCEPT ![w] = t]
      /\ UNCHANGED <<sheet, steps, sheetCount, asked, sheetTorn>>
  BY DEF S!LoadSheet, SheetsInv, S!TypeOK
<1>2. new \in S!SheetRows /\ (new = sheet \/ new.total = S!Total(new.sizes))
  BY <1>1, SheetConstants, RowOfSound
<1>3. dirty \in SUBSET (Rows \cup {S!Sheet}) /\ body.steps \in Seq(S!Steps)
  BY SheetConstants
<1> HIDE DEF new, dirty
<1>4. /\ t.at = "open" /\ t.old = sheet /\ t.new = new /\ t \in SheetRequests
      /\ \A r \in Rows : t.read[r] = NULL /\ t.set[r] = NULL
  BY <1>1, <1>2, <1>3 DEF S!Idle, SheetRequests
<1> HIDE DEF t
<1>5. SheetSound(t)
  BY <1>1, <1>2, <1>4 DEF SheetSound
<1> QED BY <1>1, <1>4, <1>5, SheetRequestStep

LEMMA ReadStepStep ==
  ASSUME SheetsInv, NEW w \in Workers, S!ReadStep(w)
  PROVE  SheetsInv'
<1> DEFINE o == sheetTx[w]
           next == Head(o.todo)
           r == next.row
           rest == Tail(o.todo)
           dirty == IF next.state = steps[r] THEN {} ELSE {r}
           t == [o EXCEPT !.held = o.held \cup o.dirty, !.todo = rest, !.dirty = dirty,
                          !.read[r] = steps[r], !.set[r] = next.state]
<1>1. /\ o.at = "open" /\ o.todo # <<>> /\ sheetTx' = [sheetTx EXCEPT ![w] = t]
      /\ UNCHANGED <<sheet, steps, sheetCount, asked, sheetTorn>>
  BY DEF S!ReadStep
<1>2. o \in SheetRequests /\ SheetSound(o)
  BY SheetTypes DEF SheetsInv
<1>3. o.todo \in Seq(S!Steps)
  BY <1>2 DEF SheetRequests
<1>4. rest \in Seq(S!Steps) /\ next \in S!Steps
  <2> DEFINE q == o.todo
  <2>1. q \in Seq(S!Steps) /\ q # <<>>
    BY <1>1, <1>3
  <2> HIDE DEF q
  <2>2. Tail(q) \in Seq(S!Steps) /\ Head(q) \in S!Steps
    BY <2>1
  <2> QED BY <2>2 DEF q
<1>5. r \in Rows /\ next.state \in S!States /\ steps[r] \in S!States \cup {NULL}
  BY <1>4, SheetTypes DEF S!Steps, SheetsInv
<1>6. dirty \in SUBSET (Rows \cup {S!Sheet})
  BY <1>5
<1> HIDE DEF o, next, rest, dirty
<1>7. /\ t.at = o.at /\ t.old = o.old /\ t.new = o.new /\ t.overlapped = o.overlapped
      /\ t.read = [o.read EXCEPT ![r] = steps[r]] /\ t.set = [o.set EXCEPT ![r] = next.state]
      /\ t.held = o.held \cup o.dirty /\ t.todo = rest /\ t.dirty = dirty
  BY <1>2 DEF SheetRequests
<1>8. t \in SheetRequests
  <2>1. /\ t.read \in [Rows -> S!States \cup {NULL}] /\ t.set \in [Rows -> S!States \cup {NULL}]
    BY <1>2, <1>5, <1>7 DEF SheetRequests
  <2>2. t.held \in SUBSET (Rows \cup {S!Sheet})
    BY <1>2, <1>7 DEF SheetRequests
  <2> QED BY <1>2, <1>4, <1>6, <1>7, <2>1, <2>2 DEF SheetRequests
<1>9. \A k \in Rows : /\ t.read[k] = IF k = r THEN steps[r] ELSE o.read[k]
                      /\ t.set[k] = IF k = r THEN next.state ELSE o.set[k]
  BY <1>2, <1>5, <1>7 DEF SheetRequests
<1>10. SheetSound(t)
  <2> HIDE DEF t, r
  <2> QED BY <1>1, <1>2, <1>5, <1>7, <1>9 DEF SheetSound
<1> HIDE DEF t
<1> QED BY <1>1, <1>8, <1>10, SheetRequestStep

LEMMA CreateSheetStep ==
  ASSUME SheetsInv, NEW sizes \in [Sizes -> Int], S!CreateSheet(sizes)
  PROVE  SheetsInv'
<1>1. /\ sheet = NULL /\ sheet' = S!RowOf(sizes)
      /\ steps' = [r \in Rows |-> IF r \in Known THEN S!Default ELSE NULL] /\ asked' = steps'
      /\ UNCHANGED <<sheetTx, sheetCount, sheetTorn>>
  BY DEF S!CreateSheet
<1>2. S!Default \in S!States
  BY DEF S!Default, S!States
<1>3. S!TypeOK'
  BY <1>1, <1>2, RowOfSound, SheetTypes, SheetTypesNext DEF SheetsInv
<1>4. \A w \in Workers : SheetSound(sheetTx[w])'
  BY <1>1 DEF SheetsInv, SheetSound
<1>5. S!SheetIsConsistent'
  BY <1>1, RowOfSound DEF S!SheetIsConsistent
<1> QED BY <1>3, <1>4, <1>5 DEF SheetsInv

LEMMA CommitSheetStep ==
  ASSUME SheetsInv, NEW w \in Workers, S!Commit(w)
  PROVE  SheetsInv'
<1> DEFINE t == sheetTx[w]
           named == {r \in Rows : t.set[r] # NULL}
           rows == named \cup IF t.new = t.old THEN {} ELSE {S!Sheet}
<1>1. /\ t.at = "open" /\ sheetCount < MaxChanges /\ sheetCount' = sheetCount + 1
      /\ sheet' = S!Merged(sheet, t.old, t.new)
      /\ steps' = [r \in Rows |-> S!StepAfter(w, r)]
      /\ asked' = [r \in Rows |-> IF r \in named THEN t.set[r] ELSE asked[r]]
      /\ sheetTorn' = IF t.overlapped THEN sheetTorn \cup rows ELSE sheetTorn \ rows
      /\ sheetTx' = [v \in Workers |->
                       IF v = w THEN S!Idle ELSE IF sheetTx[v].at = "idle" THEN sheetTx[v]
                       ELSE [sheetTx[v] EXCEPT !.overlapped = TRUE]]
  BY DEF S!Commit
<1>2. /\ t \in SheetRequests /\ SheetSound(t) /\ t.old \in S!SheetRows /\ t.new \in S!SheetRows
      /\ sheet \in S!SheetRows
  BY <1>1, SheetTypes DEF SheetsInv, SheetSound
<1>3. /\ sheet' \in S!SheetRows /\ sheet' # NULL
      /\ ~t.overlapped => sheet' = t.new
      /\ t.new = t.old => sheet' = sheet
  <2>1. ~t.overlapped => sheet = t.old
    BY <1>1, <1>2 DEF SheetSound
  <2> HIDE DEF t
  <2> QED BY <1>1, <1>2, <2>1, MergedSheet, SheetConstants
<1>4. ASSUME NEW r \in Rows
      PROVE  /\ steps'[r] \in S!States \cup {NULL} /\ (steps[r] # NULL => steps'[r] # NULL)
             /\ r \notin named => steps'[r] = steps[r]
             /\ r \in named /\ ~t.overlapped => steps'[r] = t.set[r]
  <2>1. steps'[r] = S!StepAfter(w, r) /\ steps[r] \in S!States \cup {NULL}
    BY <1>1, SheetTypes DEF SheetsInv
  <2>2. CASE t.set[r] = NULL
    BY <2>1, <2>2 DEF S!StepAfter
  <2>3. CASE t.set[r] # NULL /\ t.read[r] = NULL
    <3>1. steps'[r] = t.set[r] /\ t.set[r] \in S!States
      BY <1>2, <2>1, <2>3 DEF S!StepAfter, SheetRequests
    <3> QED BY <2>3, <3>1
  <2>4. CASE t.set[r] # NULL /\ t.read[r] # NULL
    <3>1. /\ t.set[r] \in S!States /\ t.read[r] \in S!States /\ steps[r] \in S!States
          /\ (~t.overlapped => steps[r] = t.read[r])
      BY <1>1, <1>2, <2>1, <2>4 DEF SheetSound, SheetRequests
    <3>2. steps'[r] = S!Merged(steps[r], t.read[r], t.set[r])
      BY <2>1, <2>4 DEF S!StepAfter
    <3> HIDE DEF t
    <3>3. steps'[r] \in S!States /\ (~t.overlapped => steps'[r] = t.set[r])
      BY <3>1, <3>2, MergedStep
    <3> QED BY <2>4, <3>3, SheetConstants
  <2> QED BY <2>2, <2>3, <2>4
<1>5. ASSUME NEW v \in Workers
      PROVE  sheetTx'[v] \in SheetRequests /\ SheetSound(sheetTx[v])'
  <2>1. CASE v = w
    BY <1>1, <2>1, IdleSheet DEF SheetSound
  <2>2. CASE v # w /\ sheetTx[v].at = "idle"
    BY <1>1, <2>2, SheetTypes DEF SheetsInv, SheetSound
  <2>3. CASE v # w /\ sheetTx[v].at # "idle"
    <3> DEFINE o == sheetTx[v]
               n == [o EXCEPT !.overlapped = TRUE]
    <3>1. o \in SheetRequests /\ SheetSound(o) /\ sheetTx'[v] = n
      BY <1>1, <2>3, SheetTypes DEF SheetsInv
    <3> HIDE DEF o
    <3>2. /\ n \in SheetRequests /\ n.overlapped /\ n.at = o.at /\ n.old = o.old /\ n.new = o.new
          /\ n.read = o.read /\ n.set = o.set
      BY <3>1 DEF SheetRequests
    <3> HIDE DEF n
    <3> QED BY <1>3, <1>4, <3>1, <3>2 DEF SheetSound
  <2> QED BY <2>1, <2>2, <2>3
<1>6. S!TypeOK'
  <2>1. sheetTx' \in [Workers -> SheetRequests]
    BY <1>1, <1>5
  <2>2. steps' \in [Rows -> S!States \cup {NULL}]
    BY <1>1, <1>4
  <2>3. asked' \in [Rows -> S!States \cup {NULL}]
    <3>1. \A r \in Rows : t.set[r] \in S!States \cup {NULL} /\ asked[r] \in S!States \cup {NULL}
      BY <1>2, SheetTypes DEF SheetsInv, SheetRequests
    <3> QED BY <1>1, <3>1
  <2>4. sheetCount' \in 0..MaxChanges
    <3>1. sheetCount \in 0..MaxChanges
      BY DEF SheetsInv, S!TypeOK
    <3> QED BY <1>1, <3>1, SheetConstants
  <2>5. sheetTorn' \subseteq Rows \cup {S!Sheet}
    BY <1>1 DEF SheetsInv, S!TypeOK
  <2> QED BY <1>3, <2>1, <2>2, <2>3, <2>4, <2>5, SheetTypesNext
<1>7. S!SheetIsConsistent'
  <2>1. sheet # NULL
    BY <1>2, SheetConstants
  <2>2. ASSUME S!Sheet \notin sheetTorn' PROVE sheet'.total = S!Total(sheet'.sizes)
    <3>1. CASE t.new = t.old
      <4>1. S!Sheet \notin sheetTorn
        BY <1>1, <2>2, <3>1, SheetConstants
      <4> QED BY <1>3, <2>1, <3>1, <4>1 DEF SheetsInv, S!SheetIsConsistent
    <3>2. CASE t.new # t.old
      <4>1. ~t.overlapped
        BY <1>1, <2>2, <3>2
      <4> QED BY <1>1, <1>2, <1>3, <3>2, <4>1 DEF SheetSound
    <3> QED BY <3>1, <3>2
  <2>3. ASSUME NEW r \in Rows \ sheetTorn' PROVE steps'[r] = asked'[r]
    <3>1. CASE r \in named
      <4>1. ~t.overlapped
        BY <1>1, <3>1
      <4> QED BY <1>1, <1>4, <3>1, <4>1
    <3>2. CASE r \notin named
      <4>1. r \notin sheetTorn
        BY <1>1, <3>2, SheetConstants
      <4>2. steps[r] = asked[r]
        BY <2>1, <4>1 DEF SheetsInv, S!SheetIsConsistent
      <4>3. steps'[r] = steps[r] /\ asked'[r] = asked[r]
        BY <1>1, <1>4, <3>2
      <4> QED BY <4>2, <4>3
    <3> QED BY <3>1, <3>2
  <2> QED BY <2>2, <2>3 DEF S!SheetIsConsistent
<1> QED BY <1>5, <1>6, <1>7 DEF SheetsInv

LEMMA SheetsStep == SheetsInv /\ [S!Next]_(sheetVars) => SheetsInv'
<1> SUFFICES ASSUME SheetsInv, [S!Next]_(sheetVars) PROVE SheetsInv'
  OBVIOUS
<1>1. CASE UNCHANGED sheetVars
  <2>1. UNCHANGED <<sheet, steps, sheetTx, sheetCount, asked, sheetTorn>>
    BY <1>1 DEF sheetVars
  <2>2. S!TypeOK'
    BY <2>1, SheetTypes, SheetTypesNext DEF SheetsInv
  <2> QED BY <2>1, <2>2 DEF SheetsInv, SheetSound, S!SheetIsConsistent
<1>2. ASSUME NEW body \in Bodies, body.sizes # NULL, S!CreateSheet(body.sizes)
      PROVE  SheetsInv'
  BY <1>2, SheetConstants, CreateSheetStep
<1>3. CASE S!Next
  BY <1>2, <1>3, LoadSheetStep, ReadStepStep, CommitSheetStep, AbortSheetStep DEF S!Next
<1> QED BY <1>1, <1>3

-----------------------------------------------------------------------------
(* The workshop *)

\* Every part's invariant holds whichever part moves: the others stand still.
WorkshopInv == part \in Parts /\ InventoryInv /\ CostsInv /\ OrdersInv /\ SheetsInv

LEMMA WorkshopStarts == WorkshopInit => WorkshopInv
  BY InventoryInit, CostsInit, OrdersInit, SheetsInit DEF WorkshopInit, WorkshopInv

LEMMA WorkshopStep ==
  WorkshopInv /\ [WorkshopNext]_<<part, vars, costVars, orderVars, sheetVars>> => WorkshopInv'
<1> SUFFICES ASSUME WorkshopInv, [WorkshopNext]_<<part, vars, costVars, orderVars, sheetVars>>
             PROVE  WorkshopInv'
  OBVIOUS
<1>1. part' = part /\ [Next]_vars /\ [C!Next]_costVars /\ [O!Next]_orderVars /\ [S!Next]_sheetVars
  BY DEF WorkshopNext
<1>2. InventoryInv' /\ CostsInv' /\ OrdersInv' /\ SheetsInv'
  BY <1>1, InventoryStep, CostsStep, OrdersStep, SheetsStep DEF WorkshopInv
<1> QED BY <1>1, <1>2 DEF WorkshopInv

LEMMA WorkshopHolds == WorkshopSpec => []WorkshopInv
  BY WorkshopStarts, WorkshopStep, PTL DEF WorkshopSpec

-----------------------------------------------------------------------------
\* The rows of every part and the transactions of its requests keep their types: no
\* commit writes a stock, a total, an amount or a step that the columns do not hold.
THEOREM TypeCorrect == WorkshopSpec => []AllTypesOK
<1>1. WorkshopInv => AllTypesOK
  BY DEF WorkshopInv, InventoryInv, CostsInv, OrdersInv, SheetsInv, AllTypesOK, Parts
<1> QED BY <1>1, WorkshopHolds, PTL

\* An item's stock is what it was created with, plus what its movements brought in,
\* less what they took out, but for overlapped movements and withdrawals that
\* rounding takes away, for any quantities.
THEOREM StockKept == WorkshopSpec => []StockIsItsMovements
<1>1. WorkshopInv => StockIsItsMovements
  BY DEF WorkshopInv, InventoryInv
<1> QED BY <1>1, WorkshopHolds, PTL

\* A calculation's totals are the sums over its lines unless a request overlapped
\* its recalculation, for any number of materials and labor lines.
THEOREM TotalsKept == WorkshopSpec => []CalculationTotals
<1>1. WorkshopInv => CalculationTotals
  BY DEF WorkshopInv, CostsInv, CalculationTotals
<1> QED BY <1>1, WorkshopHolds, PTL

\* A line costs its quantity times its price unless an edit of one of them
\* overlapped another commit, whatever else overlapped.
THEOREM LinesKept == WorkshopSpec => []CalculationLines
<1>1. WorkshopInv => CalculationLines
  BY DEF WorkshopInv, CostsInv, CalculationLines
<1> QED BY <1>1, WorkshopHolds, PTL

\* A payment charges its order, rounded to the cent, and its fee and net add up to
\* it or the minimum fee exceeds it, for any percent, minimum fee and prices.
THEOREM ChargesKept == WorkshopSpec => []OrderCharges
<1>1. WorkshopInv => OrderCharges
  BY SoundCharges DEF WorkshopInv, OrderCharges
<1> QED BY <1>1, WorkshopHolds, PTL

\* No request of the orders API, whatever it overlaps with, changes the financial
\* status that payments gave an order.
THEOREM StatusKept == WorkshopSpec => []OrderStatus
<1>1. WorkshopInv => OrderStatus
  BY DEF WorkshopInv, OrdersInv, OrderStatus
<1> QED BY <1>1, WorkshopHolds, PTL

\* A sheet's total is the sum of its sizes and a step is as the last request that
\* named it left it, but where overlapping requests merged, for any sizes and steps.
THEOREM SheetsKept == WorkshopSpec => []SheetConsistency
<1>1. WorkshopInv => SheetConsistency
  BY DEF WorkshopInv, SheetsInv, SheetConsistency
<1> QED BY <1>1, WorkshopHolds, PTL
=============================================================================
