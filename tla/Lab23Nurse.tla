----------------------------- MODULE Lab23Nurse -----------------------------
(***************************************************************************)
(* The nurse-controlled dining philosophers of Lab_23 (lab23.cpp): one     *)
(* mutex, one condition variable, a FIFO queue of requests, and a flag per *)
(* fork.  A philosopher is served only at the front of the queue, with     *)
(* both forks free.                                                        *)
(*                                                                         *)
(* The nurse's state is touched under mutex_ only, so a step is a stretch  *)
(* of code from taking mutex_ to giving it back.  finishMeal notifies      *)
(* after it has given mutex_ back: a step of its own.                      *)
(***************************************************************************)
EXTENDS FifoQueue

CONSTANTS
    N,      \* kPhilosopherCount
    Meals   \* options.meals

ASSUME NurseAssumption ==
    /\ N \in Nat /\ N >= 2
    /\ Meals \in Nat \ {0}

VARIABLES
    pc,            \* where each philosopher's thread is
    forkInUse,     \* forkInUse_
    mealsServed,   \* mealsServed_
    requestQueue,  \* requestQueue_
    joined         \* has main joined all the threads?

vars == <<pc, forkInUse, mealsServed, requestQueue, joined>>

Philosophers == 0 .. N - 1
leftFork(i) == i
rightFork(i) == (i + 1) % N

\* thinking: before requestMeal; asleep and woken: in condition_.wait, before
\* and after a wakeup; eating: before finishMeal's lock; notify: after its unlock.
PCs == {"thinking", "asleep", "woken", "eating", "notify", "done"}

Waiting(i) == pc[i] \in {"asleep", "woken"}
InQueue(i) == Holds(requestQueue, i)
ForksFree(i) == ~forkInUse[leftFork(i)] /\ ~forkInUse[rightFork(i)]

TypeOK ==
    /\ pc \in [Philosophers -> PCs]
    /\ forkInUse \in [Philosophers -> BOOLEAN]
    /\ mealsServed \in [Philosophers -> 0 .. Meals]
    /\ requestQueue \in Seq(Philosophers)
    /\ joined \in BOOLEAN

Init ==
    /\ pc = [i \in Philosophers |-> "thinking"]
    /\ forkInUse = [f \in Philosophers |-> FALSE]
    /\ mealsServed = [i \in Philosophers |-> 0]
    /\ requestQueue = <<>>
    /\ joined = FALSE

-----------------------------------------------------------------------------

\* queue is requestQueue_ when philosopher i tests condition_.wait's predicate.
MayEat(i, queue) == Head(queue) = i /\ ForksFree(i)

\* (Bug) looks at the left fork only.
Bug_GrantOneFork(i, queue) ==
    /\ Head(queue) = i /\ ~forkInUse[leftFork(i)]
    /\ requestQueue' = Tail(queue)
    /\ forkInUse' = [forkInUse EXCEPT ![leftFork(i)] = TRUE, ![rightFork(i)] = TRUE]
    /\ pc' = [pc EXCEPT ![i] = "eating"]
    /\ UNCHANGED <<mealsServed, joined>>

\* (Bug) serves any philosopher whose forks are free, in any order.
Bug_GrantAnyone(i, queue) ==
    /\ ForksFree(i)
    /\ requestQueue' = SelectSeq(queue, LAMBDA j : j # i)
    /\ forkInUse' = [forkInUse EXCEPT ![leftFork(i)] = TRUE, ![rightFork(i)] = TRUE]
    /\ pc' = [pc EXCEPT ![i] = "eating"]
    /\ UNCHANGED <<mealsServed, joined>>

\* (Bug) leaves the served request in the queue.
Bug_GrantNotDequeued(i, queue) ==
    /\ MayEat(i, queue)
    /\ requestQueue' = queue
    /\ forkInUse' = [forkInUse EXCEPT ![leftFork(i)] = TRUE, ![rightFork(i)] = TRUE]
    /\ pc' = [pc EXCEPT ![i] = "eating"]
    /\ UNCHANGED <<mealsServed, joined>>

\* Leaving the wait; nobody is notified, although the queue has a new front.
Grant(i, queue) ==
    /\ MayEat(i, queue)
    /\ requestQueue' = Tail(queue)
    /\ forkInUse' = [forkInUse EXCEPT ![leftFork(i)] = TRUE, ![rightFork(i)] = TRUE]
    /\ pc' = [pc EXCEPT ![i] = "eating"]
    /\ UNCHANGED <<mealsServed, joined>>

\* requestMeal, up to the end of the call or to going to sleep in it.
RequestMeal(i) ==
    LET queue == Append(requestQueue, i) IN
    /\ pc[i] = "thinking"
    /\ \/ Grant(i, queue)
       \/ /\ ~MayEat(i, queue)
          /\ requestQueue' = queue
          /\ pc' = [pc EXCEPT ![i] = "asleep"]
          /\ UNCHANGED <<forkInUse, mealsServed, joined>>

\* A woken waiter has the mutex again and evaluates the predicate.
Recheck(i) ==
    /\ pc[i] = "woken"
    /\ \/ Grant(i, requestQueue)
       \/ /\ ~MayEat(i, requestQueue)
          /\ pc' = [pc EXCEPT ![i] = "asleep"]
          /\ UNCHANGED <<forkInUse, mealsServed, requestQueue, joined>>

SpuriousWakeup(i) ==
    /\ pc[i] = "asleep"
    /\ pc' = [pc EXCEPT ![i] = "woken"]
    /\ UNCHANGED <<forkInUse, mealsServed, requestQueue, joined>>

FinishMeal(i) ==
    /\ pc[i] = "eating"
    /\ forkInUse' = [forkInUse EXCEPT ![leftFork(i)] = FALSE, ![rightFork(i)] = FALSE]
    /\ mealsServed' = [mealsServed EXCEPT ![i] = @ + 1]
    /\ pc' = [pc EXCEPT ![i] = "notify"]
    /\ UNCHANGED <<requestQueue, joined>>

\* (Bug) notify_one in place of notify_all.
Bug_NotifyOne(i) ==
    LET next == IF mealsServed[i] < Meals THEN "thinking" ELSE "done"
        asleep == {j \in Philosophers : pc[j] = "asleep"} IN
    /\ pc[i] = "notify"
    /\ \/ asleep = {} /\ pc' = [pc EXCEPT ![i] = next]
       \/ \E j \in asleep : pc' = [pc EXCEPT ![i] = next, ![j] = "woken"]
    /\ UNCHANGED <<forkInUse, mealsServed, requestQueue, joined>>

\* (Bug) one iteration too many in philosopherTask.
Bug_OneMealMore(i) ==
    /\ pc[i] = "notify"
    /\ pc' = [j \in Philosophers |->
                 IF j = i THEN (IF mealsServed[i] <= Meals THEN "thinking" ELSE "done")
                 ELSE IF pc[j] = "asleep" THEN "woken" ELSE pc[j]]
    /\ UNCHANGED <<forkInUse, mealsServed, requestQueue, joined>>

\* notify_all, and the loop of philosopherTask.
NotifyAll(i) ==
    /\ pc[i] = "notify"
    /\ pc' = [j \in Philosophers |->
                 IF j = i THEN (IF mealsServed[i] < Meals THEN "thinking" ELSE "done")
                 ELSE IF pc[j] = "asleep" THEN "woken" ELSE pc[j]]
    /\ UNCHANGED <<forkInUse, mealsServed, requestQueue, joined>>

JoinAll ==
    /\ \A i \in Philosophers : pc[i] = "done"
    /\ joined' = TRUE
    /\ UNCHANGED <<pc, forkInUse, mealsServed, requestQueue>>

Philosopher(i) == RequestMeal(i) \/ Recheck(i) \/ FinishMeal(i) \/ NotifyAll(i)

Terminated == joined /\ UNCHANGED vars

Next ==
    \/ \E i \in Philosophers : Philosopher(i) \/ SpuriousWakeup(i)
    \/ JoinAll
    \/ Terminated

Spec == Init /\ [][Next]_vars

\* Runnable threads are scheduled; meals and thoughts end.
FairSpec == Spec /\ WF_vars(JoinAll) /\ \A i \in Philosophers : WF_vars(Philosopher(i))

-----------------------------------------------------------------------------

Table == INSTANCE Dining WITH eating <- {i \in Philosophers : pc[i] = "eating"}

\* The nurse implements the table: neighbours never eat at the same time.
NeighboursExclude == Table!Spec

\* The forks in use are those of the philosophers who are eating, and the queue
\* holds the waiting ones, each once, so Front() never meets an empty queue.
BooksAgree ==
    /\ \A f \in Philosophers :
          forkInUse[f] <=> \E i \in Philosophers : pc[i] = "eating" /\ f \in {leftFork(i), rightFork(i)}
    /\ \A i \in Philosophers : Waiting(i) <=> InQueue(i)
    /\ Distinct(requestQueue)

\* No lost wakeup: when the front of the queue could be served it is awake, or
\* somebody is eating or about to notify and will wake it later: leaving the wait
\* wakes nobody, so a new front can sleep beside two free forks until then.
FrontWillWake ==
    requestQueue # <<>> /\ ForksFree(Head(requestQueue)) =>
        \/ pc[Head(requestQueue)] = "woken"
        \/ \E i \in Philosophers : pc[i] \in {"eating", "notify"}

\* The nurse serves requests in the order they came: a philosopher who waits is
\* overtaken by nobody, neighbour or not.
ServedInOrder ==
    [][\A i, j \in Philosophers :
          Waiting(i) /\ pc[j] # "eating" /\ pc'[j] = "eating" =>
              \E k \in 1 .. Len(requestQueue) :
                  requestQueue[k] = j /\ \A l \in 1 .. k - 1 : requestQueue[l] # i]_vars

\* Every philosopher gets all its meals and the program ends.
AllMealsServed == <>(joined /\ \A i \in Philosophers : mealsServed[i] = Meals)
=============================================================================
