---------------------------- MODULE MCObservers -----------------------------
(***************************************************************************)
(* An instance of Observers.tla: contents with equal values, and such that *)
(* one leads to another by deletions and additions around a row that stays.*)
(***************************************************************************)
EXTENDS Observers

MCTables == {<<1, 2>>, <<2, 1, 2>>}

TwoBuilders == Permutations(Builder)
=============================================================================
