----------------------------- MODULE Lab23Forks -----------------------------
(***************************************************************************)
(* The two dining-philosophers programs of Lab_23 that take one mutex per  *)
(* fork: lab23a_Dining_Philosopher_Naive.cpp, where everybody takes the    *)
(* left fork first, and lab23a_Dining_Philosopher_No_Deadlock_Free.cpp,    *)
(* where the last philosopher takes the right one first.  The programs are *)
(* otherwise the same; ordered says which one runs.                        *)
(***************************************************************************)
EXTENDS Lab23Philosophers

VARIABLES
    ordered,  \* is this the program that avoids deadlock?
    holder,   \* forks: who holds each mutex, Nobody if it is free
    at        \* where each thread is

forkVars == <<ordered, holder, at>>

Nobody == -1

LeftFork(i) == i

RightFork(i) == (i + 1) % N

\* (Bug) an off-by-one in the test for the last philosopher: it is never true.
Bug_FirstFork(i) == IF ordered /\ i = N THEN RightFork(i) ELSE LeftFork(i)

\* The fork philosopher i takes first, and the other one.
FirstFork(i) == IF ordered /\ i = N - 1 THEN RightFork(i) ELSE LeftFork(i)
SecondFork(i) == IF FirstFork(i) = LeftFork(i) THEN RightFork(i) ELSE LeftFork(i)

\* first and second: about to lock that fork; left down: the left fork is back,
\* the right one not yet.
ForkPCs == {"think", "first", "second", "eat", "leftdown"}

\* A fork is only ever in the hands of the two philosophers beside it.
ForksTypeOK ==
    /\ ordered \in BOOLEAN
    /\ holder \in [Philosophers -> Philosophers \cup {Nobody}]
    /\ \A f \in Philosophers : holder[f] \in {f, (f + N - 1) % N, Nobody}
    /\ at \in [Philosophers -> ForkPCs]

ForksInit ==
    /\ ordered \in BOOLEAN
    /\ holder = [f \in Philosophers |-> Nobody]
    /\ at = [i \in Philosophers |-> "think"]

-----------------------------------------------------------------------------

Goto(i, there) == at' = [at EXCEPT ![i] = there]

think(i) ==
    /\ at[i] = "think"
    /\ Goto(i, "first")
    /\ UNCHANGED <<ordered, holder>>

LockFirst(i) ==
    /\ at[i] = "first"
    /\ holder[FirstFork(i)] = Nobody
    /\ holder' = [holder EXCEPT ![FirstFork(i)] = i]
    /\ Goto(i, "second")
    /\ UNCHANGED ordered

\* (Bug) eats with one fork.
Bug_SecondNotLocked(i) ==
    /\ at[i] = "second"
    /\ Goto(i, "eat")
    /\ UNCHANGED <<ordered, holder>>

LockSecond(i) ==
    /\ at[i] = "second"
    /\ holder[SecondFork(i)] = Nobody
    /\ holder' = [holder EXCEPT ![SecondFork(i)] = i]
    /\ Goto(i, "eat")
    /\ UNCHANGED ordered

UnlockLeft(i) ==
    /\ at[i] = "eat"
    /\ holder' = [holder EXCEPT ![LeftFork(i)] = Nobody]
    /\ Goto(i, "leftdown")
    /\ UNCHANGED ordered

UnlockRight(i) ==
    /\ at[i] = "leftdown"
    /\ holder' = [holder EXCEPT ![RightFork(i)] = Nobody]
    /\ Goto(i, "think")
    /\ UNCHANGED ordered

philosopher(i) ==
    think(i) \/ LockFirst(i) \/ LockSecond(i) \/ UnlockLeft(i) \/ UnlockRight(i)

ForksNext == \E i \in Philosophers : philosopher(i)

-----------------------------------------------------------------------------

ForksTable == INSTANCE Dining WITH eating <- {i \in Philosophers : at[i] = "eat"}

\* Neighbours never eat at the same time, in either program.
ForksExclude == ForksTable!Spec

CanMove(i) ==
    \/ at[i] \in {"think", "eat", "leftdown"}
    \/ at[i] = "first" /\ holder[FirstFork(i)] = Nobody
    \/ at[i] = "second" /\ holder[SecondFork(i)] = Nobody

\* The program without the reversed order can stop in one way only, with every
\* philosopher holding its left fork; the program with it never stops.
OnlyCircularWait ==
    (\A i \in Philosophers : ~CanMove(i))
        => ~ordered /\ \A i \in Philosophers : holder[LeftFork(i)] = i

\* With the reversed order somebody eats again and again.
OrderedMakesProgress == ordered => []<>(\E i \in Philosophers : at[i] = "eat")
=============================================================================
