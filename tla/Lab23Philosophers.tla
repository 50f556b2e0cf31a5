--------------------------- MODULE Lab23Philosophers ---------------------------
(***************************************************************************)
(* What the programs of Lab_23 in which the philosophers compete by        *)
(* themselves have in common: how many sit at the table.                   *)
(***************************************************************************)
EXTENDS Integers

CONSTANT N   \* philosophers and forks

ASSUME TableAssumption == N \in Nat /\ N >= 2

Philosophers == 0 .. N - 1
=============================================================================
