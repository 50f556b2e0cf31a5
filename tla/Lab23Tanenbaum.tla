--------------------------- MODULE Lab23Tanenbaum ---------------------------
(***************************************************************************)
(* The state-based dining philosophers of Lab_23                           *)
(* (lab23c_Dining_Philosopher_Starvation_Free.cpp): a state per            *)
(* philosopher, one mutex, and a condition variable per philosopher.       *)
(*                                                                         *)
(* state is touched under mutex only, so a step is a stretch of code from  *)
(* taking mutex to giving it back, in unlock or in pthread_cond_wait.  A   *)
(* neighbour may set state[i] to EATING well before thread i, still inside *)
(* take_forks, notices; pc[i] tells where the thread is.                   *)
(***************************************************************************)
EXTENDS Lab23Philosophers

VARIABLES
    state,  \* state
    pc      \* where each thread is

vars == <<state, pc>>

left(i) == (i + N - 1) % N
right(i) == (i + 1) % N

\* asleep and woken: in take_forks' pthread_cond_wait, before and after a wakeup.
PCs == {"think", "asleep", "woken", "eat"}

TypeOK ==
    /\ state \in [Philosophers -> {"THINKING", "HUNGRY", "EATING"}]
    /\ pc \in [Philosophers -> PCs]

Init ==
    /\ state = [i \in Philosophers |-> "THINKING"]
    /\ pc = [i \in Philosophers |-> "think"]

-----------------------------------------------------------------------------

\* (Bug) looks at the left neighbour only.
Bug_PassesLeftOnly(s, i) == s[i] = "HUNGRY" /\ s[left(i)] # "EATING"

\* The condition of test(i), in state s.
Passes(s, i) == s[i] = "HUNGRY" /\ s[left(i)] # "EATING" /\ s[right(i)] # "EATING"

\* test(i): the new state, and the threads signalled.
test(s, i) == IF Passes(s, i) THEN [s EXCEPT ![i] = "EATING"] ELSE s
signalled(s, i) == IF Passes(s, i) /\ pc[i] = "asleep" THEN {i} ELSE {}

take_forks(i) ==
    LET tested == test([state EXCEPT ![i] = "HUNGRY"], i) IN
    /\ pc[i] = "think"
    /\ state' = tested
    /\ pc' = [pc EXCEPT ![i] = IF tested[i] = "EATING" THEN "eat" ELSE "asleep"]

\* The while loop of take_forks, after a wakeup.
Recheck(i) ==
    /\ pc[i] = "woken"
    /\ pc' = [pc EXCEPT ![i] = IF state[i] = "EATING" THEN "eat" ELSE "asleep"]
    /\ UNCHANGED state

SpuriousWakeup(i) ==
    /\ pc[i] = "asleep"
    /\ pc' = [pc EXCEPT ![i] = "woken"]
    /\ UNCHANGED state

\* (Bug) lets only the left neighbour try.
Bug_TestLeftOnly(i) ==
    LET down == [state EXCEPT ![i] = "THINKING"] IN
    /\ pc[i] = "eat"
    /\ state' = test(down, left(i))
    /\ pc' = [j \in Philosophers |->
                 IF j = i THEN "think"
                 ELSE IF j \in signalled(down, left(i)) THEN "woken" ELSE pc[j]]

\* (Bug) marks the neighbours EATING without signalling them.
Bug_NoSignal(i) ==
    LET down == [state EXCEPT ![i] = "THINKING"] IN
    /\ pc[i] = "eat"
    /\ state' = test(test(down, left(i)), right(i))
    /\ pc' = [pc EXCEPT ![i] = "think"]

put_forks(i) ==
    LET down == [state EXCEPT ![i] = "THINKING"]
        tested == test(down, left(i))
        woken == signalled(down, left(i)) \cup signalled(tested, right(i)) IN
    /\ pc[i] = "eat"
    /\ state' = test(tested, right(i))
    /\ pc' = [j \in Philosophers |->
                 IF j = i THEN "think" ELSE IF j \in woken THEN "woken" ELSE pc[j]]

Philosopher(i) == take_forks(i) \/ Recheck(i) \/ put_forks(i)

Next == \E i \in Philosophers : Philosopher(i) \/ SpuriousWakeup(i)

Spec == Init /\ [][Next]_vars

\* Thoughts and meals end and a runnable thread is scheduled.
FairSpec == Spec /\ \A i \in Philosophers : WF_vars(Philosopher(i))

-----------------------------------------------------------------------------

Table == INSTANCE Dining WITH eating <- {i \in Philosophers : pc[i] = "eat"}

\* Whatever marks philosophers EATING, and however late they notice, two
\* neighbours are never both between take_forks and put_forks.
NeighboursExclude == Table!Spec

\* Nobody is left waiting when it could eat: a HUNGRY philosopher has a neighbour
\* marked EATING, who will test it again, and the one marked EATING is not asleep.
HungryIsHeldUp ==
    \A i \in Philosophers :
        /\ state[i] = "HUNGRY" => \E j \in {left(i), right(i)} : state[j] = "EATING"
        /\ pc[i] = "asleep" => state[i] = "HUNGRY"
        /\ pc[i] = "eat" => state[i] = "EATING"

\* The table never freezes: again and again somebody eats.
SomebodyEats == []<>(\E i \in Philosophers : pc[i] = "eat")

\* What the header of the file says it solves: no hungry philosopher starves.
NoStarvation == \A i \in Philosophers : state[i] = "HUNGRY" ~> state[i] = "EATING"
=============================================================================
