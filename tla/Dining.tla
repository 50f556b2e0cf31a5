------------------------------- MODULE Dining -------------------------------
(***************************************************************************)
(* What every dining-philosophers program of Lab_23 promises: philosophers *)
(* sit in a circle, and neighbours never eat at the same time.             *)
(***************************************************************************)
EXTENDS Integers

CONSTANT N   \* how many philosophers

VARIABLE eating   \* the philosophers who are eating

Philosophers == 0 .. N - 1

left(i) == (i + N - 1) % N
right(i) == (i + 1) % N

Init == eating = {}

Begin(i) ==
    /\ {i, left(i), right(i)} \cap eating = {}
    /\ eating' = eating \cup {i}

End(i) ==
    /\ i \in eating
    /\ eating' = eating \ {i}

Next == \E i \in Philosophers : Begin(i) \/ End(i)

Spec == Init /\ [][Next]_eating
=============================================================================
