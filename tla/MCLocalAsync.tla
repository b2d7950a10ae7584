---------------------------- MODULE MCLocalAsync ----------------------------
(***************************************************************************)
(* Model-checking instances of LocalAsync.                                 *)
(***************************************************************************)
EXTENDS LocalAsync, TLC

CONSTANTS k1, k2, t1, t2

OneKey   == {k1}
TwoKeys  == {k1, k2}

\* Both keys hash to the same stripe, or each to its own.
SameStripe == [k \in Keys |-> 0]
OwnStripe  == [k \in Keys |-> IF k = k1 THEN 0 ELSE 1]

\* Request threads are interchangeable; keys are when they share a stripe.
ThreadSymmetry == Permutations(Threads)
Symmetry       == Permutations(Threads) \cup Permutations(Keys)

=============================================================================
