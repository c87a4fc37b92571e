------------------------------- MODULE MCWorkshop -------------------------------
(* The parts of a workshop on small instances. *)
EXTENDS Workshop, TLC

CONSTANTS s1, s2, r1, r2, d1   \* a sheet's sizes, rows of steps, a date

Of(a, b) == (s1 :> a) @@ (s2 :> b)
Step(r, completed, date) == [row |-> r, state |-> [completed |-> completed, date |-> date]]

\* r2 is a step that the sheet is not created with.
MCBodies ==
  [sizes: {Of(1, -1), Of(-1, 1), Of(1, 1)}, steps: {<<>>}]
    \cup [sizes: {Of(1, 1)}, steps: {<<Step(r1, TRUE, d1)>>}]
    \cup [sizes: {NULL},
          steps: {<<Step(r1, TRUE, NULL)>>, <<Step(r1, FALSE, NULL)>>,
                  <<Step(r1, TRUE, d1), Step(r2, TRUE, NULL)>>,
                  <<Step(r2, FALSE, NULL), Step(r1, FALSE, NULL)>>}]

MCSymmetry == Permutations(Workers) \cup Permutations(Payments)
=============================================================================
