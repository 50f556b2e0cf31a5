------------------------- MODULE Lab23Nurse_proofs -------------------------
(***************************************************************************)
(* The safety properties of Lab23Nurse, for every number of philosophers   *)
(* and of meals, and that it implements the abstract table.                *)
(***************************************************************************)
EXTENDS Lab23Nurse, DataLemmas

Forks(i) == {leftFork(i), rightFork(i)}

\* Two philosophers who eat share no fork.
ForksApart ==
    \A i, j \in Philosophers :
        i # j /\ pc[i] = "eating" /\ pc[j] = "eating" => Forks(i) \cap Forks(j) = {}

\* Whoever is in an iteration of philosopherTask has meals left.
MealsLeft ==
    \A i \in Philosophers :
        pc[i] \in {"thinking", "asleep", "woken", "eating"} => mealsServed[i] < Meals

\* Inductive: BooksAgree says which forks are in use, ForksApart that a meal's end
\* frees no fork of another's, and both are needed for FrontWillWake.
IInv == TypeOK /\ BooksAgree /\ ForksApart /\ MealsLeft /\ FrontWillWake

-----------------------------------------------------------------------------

\* leftFork and rightFork name forks.
LEMMA ForkNames ==
    ASSUME NEW i \in Philosophers
    PROVE  leftFork(i) \in Philosophers /\ rightFork(i) \in Philosophers
  BY NurseAssumption DEF Philosophers, leftFork, rightFork

LEMMA InitInv == Init => IInv
  <1> SUFFICES ASSUME Init PROVE IInv
    OBVIOUS
  <1>1. TypeOK
    <2>1. <<>> \in Seq(Philosophers) /\ 0 \in 0 .. Meals
      BY NurseAssumption, EmptyQueue
    <2> QED
      BY <2>1 DEF Init, TypeOK, PCs
  <1>2. BooksAgree
    BY EmptyQueue DEF Init, BooksAgree, Waiting, InQueue
  <1> QED
    BY <1>1, <1>2, NurseAssumption DEF Init, IInv, ForksApart, MealsLeft, FrontWillWake

\* A grant, with the request in the queue as the predicate of the wait sees it.
LEMMA GrantInv ==
    ASSUME NEW i \in Philosophers, NEW queue \in Seq(Philosophers),
           IInv, Grant(i, queue), queue # <<>>, Distinct(queue),
           pc[i] \in {"thinking", "woken"},
           \A j \in Philosophers : Holds(queue, j) <=> Waiting(j) \/ j = i
    PROVE  IInv'
  <1>1. /\ Head(queue) = i
        /\ ~forkInUse[leftFork(i)] /\ ~forkInUse[rightFork(i)]
        /\ requestQueue' = Tail(queue)
        /\ forkInUse' = [forkInUse EXCEPT ![leftFork(i)] = TRUE, ![rightFork(i)] = TRUE]
        /\ pc' = [pc EXCEPT ![i] = "eating"]
        /\ UNCHANGED <<mealsServed, joined>>
    BY DEF Grant, MayEat, ForksFree
  <1>2. /\ Tail(queue) \in Seq(Philosophers) /\ Distinct(Tail(queue))
        /\ \A j \in Philosophers : Holds(Tail(queue), j) <=> Waiting(j) /\ j # i
    BY <1>1, Dequeue DEF Waiting
  <1>3. /\ forkInUse \in [Philosophers -> BOOLEAN] /\ pc \in [Philosophers -> PCs]
        /\ leftFork(i) \in Philosophers /\ rightFork(i) \in Philosophers
    BY ForkNames DEF IInv, TypeOK
  <1>4. /\ forkInUse' \in [Philosophers -> BOOLEAN]
        /\ \A f \in Philosophers : forkInUse'[f] <=> forkInUse[f] \/ f \in Forks(i)
    BY <1>1, <1>3, ForkNames DEF Forks
  <1>5. TypeOK'
    BY <1>1, <1>2, <1>3, <1>4 DEF IInv, TypeOK, PCs
  <1>6. \A j \in Philosophers : pc'[j] = "eating" <=> pc[j] = "eating" \/ j = i
    BY <1>1, <1>3
  <1>7. BooksAgree'
    <2>1. ASSUME NEW f \in Philosophers
          PROVE  forkInUse'[f] <=> \E j \in Philosophers : pc'[j] = "eating" /\ f \in {leftFork(j), rightFork(j)}
      <3>1. forkInUse[f] <=> \E j \in Philosophers : pc[j] = "eating" /\ f \in {leftFork(j), rightFork(j)}
        BY DEF IInv, BooksAgree
      <3> QED
        BY <1>4, <1>6, <3>1 DEF Forks
    <2>2. \A j \in Philosophers : Waiting(j)' <=> InQueue(j)'
      BY <1>1, <1>2, <1>3 DEF Waiting, InQueue
    <2>3. Distinct(requestQueue)'
      BY <1>1, <1>2
    <2> QED
      BY <2>1, <2>2, <2>3 DEF BooksAgree
  <1>8. ForksApart'
    <2>1. ASSUME NEW j \in Philosophers, pc[j] = "eating" PROVE Forks(j) \cap Forks(i) = {}
      BY <1>1, <1>3, <2>1, ForkNames DEF IInv, BooksAgree, Forks
    <2> QED
      BY <1>6, <2>1 DEF IInv, ForksApart
  <1>9. MealsLeft'
    BY <1>1, <1>3 DEF IInv, MealsLeft
  <1>10. FrontWillWake'
    BY <1>1, <1>3 DEF FrontWillWake
  <1> QED
    BY <1>5, <1>7, <1>8, <1>9, <1>10 DEF IInv

\* Going to sleep, in requestMeal or after a wakeup.
LEMMA SleepInv ==
    ASSUME NEW i \in Philosophers, IInv,
           \/ RequestMeal(i) /\ ~MayEat(i, Append(requestQueue, i))
           \/ Recheck(i) /\ ~MayEat(i, requestQueue)
    PROVE  IInv'
  <1>1. /\ pc' = [pc EXCEPT ![i] = "asleep"]
        /\ UNCHANGED <<forkInUse, mealsServed, joined>>
        /\ pc[i] \in {"thinking", "woken"}
        /\ \/ /\ pc[i] = "thinking" /\ requestQueue' = Append(requestQueue, i)
              /\ ~MayEat(i, Append(requestQueue, i))
           \/ /\ pc[i] = "woken" /\ requestQueue' = requestQueue
              /\ ~MayEat(i, requestQueue)
    BY DEF RequestMeal, Recheck, Grant
  <1>2. TypeOK /\ requestQueue \in Seq(Philosophers) /\ pc \in [Philosophers -> PCs]
    BY DEF IInv, TypeOK
  <1>3. /\ requestQueue' \in Seq(Philosophers) /\ Distinct(requestQueue')
        /\ \A j \in Philosophers : Holds(requestQueue', j) <=> Holds(requestQueue, j) \/ j = i
    <2>1. CASE pc[i] = "thinking"
      <3>1. ~Holds(requestQueue, i)
        BY <2>1 DEF IInv, BooksAgree, Waiting, InQueue
      <3>2. requestQueue' = Append(requestQueue, i) /\ Distinct(requestQueue)
        BY <1>1, <2>1 DEF IInv, BooksAgree
      <3> QED
        BY <1>2, <3>1, <3>2, Enqueue
    <2>2. CASE pc[i] = "woken"
      BY <1>1, <1>2, <2>2 DEF IInv, BooksAgree, Waiting, InQueue
    <2> QED
      BY <1>1, <2>1, <2>2
  <1>4. TypeOK'
    BY <1>1, <1>2, <1>3 DEF TypeOK, PCs
  <1>5. \A j \in Philosophers : pc'[j] = IF j = i THEN "asleep" ELSE pc[j]
    BY <1>1, <1>2
  <1>6. BooksAgree'
    BY <1>1, <1>3, <1>5 DEF IInv, BooksAgree, Waiting, InQueue
  <1>7. ForksApart' /\ MealsLeft'
    BY <1>1, <1>5 DEF IInv, ForksApart, MealsLeft
  <1>8. FrontWillWake'
    <2>1. requestQueue' # <<>> /\ Head(requestQueue') \in Philosophers
      BY <1>3, EmptyQueue, HeadTailProperties
    <2>2. CASE Head(requestQueue') = i
      <3>1. ~ForksFree(i)
        BY <1>1, <2>2 DEF MayEat
      <3> QED
        BY <1>1, <2>2, <3>1 DEF FrontWillWake, ForksFree
    <2>3. CASE Head(requestQueue') # i
      <3>1. requestQueue # <<>> /\ Head(requestQueue') = Head(requestQueue)
        <4>1. CASE pc[i] = "woken"
          BY <1>1, <2>1, <4>1
        <4>2. CASE pc[i] = "thinking"
          <5>1. requestQueue' = Append(requestQueue, i)
            BY <1>1, <4>2
          <5>2. requestQueue = <<>> => Head(requestQueue') = i
            BY <1>2, <5>1
          <5>3. requestQueue # <<>> => Head(requestQueue') = Head(requestQueue)
            BY <1>2, <5>1
          <5> QED
            BY <2>3, <5>2, <5>3
        <4> QED
          BY <1>1, <4>1, <4>2
      <3>2. Head(requestQueue) \in Philosophers
        BY <2>1, <3>1
      <3> QED
        BY <1>1, <1>5, <2>3, <3>1, <3>2 DEF IInv, FrontWillWake, ForksFree
    <2> QED
      BY <2>2, <2>3
  <1> QED
    BY <1>4, <1>6, <1>7, <1>8 DEF IInv

\* RequestMeal and Recheck: a grant or a wait.
LEMMA ServeInv ==
    ASSUME NEW i \in Philosophers, IInv, RequestMeal(i) \/ Recheck(i)
    PROVE  IInv'
  <1>1. requestQueue \in Seq(Philosophers) /\ Distinct(requestQueue)
    BY DEF IInv, TypeOK, BooksAgree
  <1>2. \A j \in Philosophers : Holds(requestQueue, j) <=> Waiting(j)
    BY DEF IInv, BooksAgree, InQueue
  <1>3. CASE RequestMeal(i)
    <2> DEFINE queue == Append(requestQueue, i)
    <2>1. pc[i] = "thinking" /\ ~Waiting(i)
      BY <1>3 DEF RequestMeal, Waiting
    <2>2. /\ queue \in Seq(Philosophers) /\ Distinct(queue) /\ Holds(queue, i)
          /\ \A j \in Philosophers : Holds(queue, j) <=> Waiting(j) \/ j = i
      BY <1>1, <1>2, <2>1, Enqueue
    <2>3. queue # <<>>
      BY <2>2, EmptyQueue
    <2>4. Grant(i, queue) \/ ~MayEat(i, queue)
      BY <1>3 DEF RequestMeal
    <2> HIDE DEF queue
    <2>5. CASE Grant(i, queue)
      BY <2>1, <2>2, <2>3, <2>5, GrantInv
    <2>6. CASE ~MayEat(i, queue)
      BY <1>3, <2>6, SleepInv DEF queue
    <2> QED
      BY <2>4, <2>5, <2>6
  <1>4. CASE Recheck(i)
    <2>1. pc[i] = "woken" /\ Waiting(i)
      BY <1>4 DEF Recheck, Waiting
    <2>2. requestQueue # <<>>
      BY <1>2, <2>1, EmptyQueue
    <2>3. CASE Grant(i, requestQueue)
      BY <1>1, <1>2, <2>1, <2>2, <2>3, GrantInv
    <2>4. CASE ~MayEat(i, requestQueue)
      BY <1>4, <2>4, SleepInv
    <2> QED
      BY <1>4, <2>3, <2>4 DEF Recheck
  <1> QED
    BY <1>3, <1>4

LEMMA FinishInv ==
    ASSUME NEW i \in Philosophers, IInv, FinishMeal(i)
    PROVE  IInv'
  <1>1. /\ pc[i] = "eating"
        /\ forkInUse' = [forkInUse EXCEPT ![leftFork(i)] = FALSE, ![rightFork(i)] = FALSE]
        /\ mealsServed' = [mealsServed EXCEPT ![i] = @ + 1]
        /\ pc' = [pc EXCEPT ![i] = "notify"]
        /\ UNCHANGED <<requestQueue, joined>>
    BY DEF FinishMeal
  <1>2. /\ forkInUse \in [Philosophers -> BOOLEAN] /\ pc \in [Philosophers -> PCs]
        /\ mealsServed \in [Philosophers -> 0 .. Meals] /\ mealsServed[i] < Meals
    BY <1>1 DEF IInv, TypeOK, MealsLeft
  <1>3. /\ \A j \in Philosophers : pc'[j] = IF j = i THEN "notify" ELSE pc[j]
        /\ \A f \in Philosophers : forkInUse'[f] <=> forkInUse[f] /\ f \notin Forks(i)
    BY <1>1, <1>2, ForkNames DEF Forks
  <1>4. TypeOK'
    <2>1. mealsServed[i] + 1 \in 0 .. Meals
      BY <1>2, NurseAssumption
    <2>2. mealsServed' \in [Philosophers -> 0 .. Meals]
      BY <1>1, <1>2, <2>1
    <2> QED
      BY <1>1, <1>2, <2>2, ForkNames DEF IInv, TypeOK, PCs
  <1>5. BooksAgree'
    <2>1. ASSUME NEW f \in Philosophers
          PROVE  forkInUse'[f] <=> \E j \in Philosophers : pc'[j] = "eating" /\ f \in {leftFork(j), rightFork(j)}
      <3>1. forkInUse[f] <=> \E j \in Philosophers : pc[j] = "eating" /\ f \in Forks(j)
        BY DEF IInv, BooksAgree, Forks
      <3>2. \A j \in Philosophers : j # i /\ pc[j] = "eating" => Forks(j) \cap Forks(i) = {}
        BY <1>1 DEF IInv, ForksApart
      <3>3. forkInUse'[f] <=> \E j \in Philosophers : pc'[j] = "eating" /\ f \in Forks(j)
        BY <1>3, <3>1, <3>2
      <3> QED
        BY <3>3 DEF Forks
    <2>2. \A j \in Philosophers : Waiting(j)' <=> InQueue(j)'
      BY <1>1, <1>3 DEF IInv, BooksAgree, Waiting, InQueue
    <2> QED
      BY <1>1, <2>1, <2>2 DEF IInv, BooksAgree
  <1>6. ForksApart' /\ MealsLeft'
    BY <1>1, <1>2, <1>3 DEF IInv, ForksApart, MealsLeft
  <1>7. FrontWillWake'
    BY <1>3 DEF FrontWillWake
  <1> QED
    BY <1>4, <1>5, <1>6, <1>7 DEF IInv

\* Wakeups: whoever stands in the queue waits, so notify_all wakes its front.
LEMMA WakeInv ==
    ASSUME NEW i \in Philosophers, IInv, NotifyAll(i) \/ SpuriousWakeup(i)
    PROVE  IInv'
  <1> DEFINE next == IF mealsServed[i] < Meals THEN "thinking" ELSE "done"
  <1>1. /\ UNCHANGED <<forkInUse, mealsServed, requestQueue, joined>>
        /\ pc \in [Philosophers -> PCs]
        /\ requestQueue \in Seq(Philosophers)
    BY DEF IInv, TypeOK, NotifyAll, SpuriousWakeup
  <1>2. /\ pc' \in [Philosophers -> PCs]
        /\ \A j \in Philosophers : j # i => pc'[j] = pc[j] \/ (pc[j] = "asleep" /\ pc'[j] = "woken")
        /\ \/ /\ pc[i] = "notify" /\ pc'[i] = next
              /\ \A j \in Philosophers : j # i => pc'[j] # "asleep"
           \/ /\ pc[i] = "asleep" /\ pc'[i] = "woken"
              /\ \A j \in Philosophers : j # i => pc'[j] = pc[j]
    <2>1. CASE NotifyAll(i)
      BY <1>1, <2>1 DEF NotifyAll, PCs
    <2>2. CASE SpuriousWakeup(i)
      BY <1>1, <2>2 DEF SpuriousWakeup, PCs
    <2> QED
      BY <2>1, <2>2
  <1>3. TypeOK'
    BY <1>1, <1>2 DEF IInv, TypeOK
  <1>4. \A j \in Philosophers : /\ Waiting(j)' <=> Waiting(j)
                                /\ pc'[j] = "eating" <=> pc[j] = "eating"
    BY <1>1, <1>2 DEF Waiting, PCs
  <1>5. BooksAgree'
    BY <1>1, <1>4 DEF IInv, BooksAgree, InQueue
  <1>6. ForksApart'
    BY <1>4 DEF IInv, ForksApart
  <1>7. MealsLeft'
    BY <1>1, <1>2 DEF IInv, MealsLeft, PCs
  <1>8. FrontWillWake'
    <2> DEFINE front == Head(requestQueue)
    <2>1. SUFFICES ASSUME requestQueue # <<>>, ForksFree(front)
                   PROVE  pc'[front] = "woken" \/ \E j \in Philosophers : pc'[j] \in {"eating", "notify"}
      BY <1>1 DEF FrontWillWake, ForksFree
    <2>2. front \in Philosophers /\ Waiting(front)
      BY <1>1, <2>1, Dequeue DEF IInv, BooksAgree, InQueue
    <2>3. CASE pc[i] = "notify"
      BY <1>2, <1>4, <2>2, <2>3 DEF Waiting
    <2>4. CASE pc[i] = "asleep"
      BY <1>2, <2>1, <2>2, <2>4 DEF IInv, FrontWillWake
    <2> QED
      BY <1>2, <2>3, <2>4
  <1> QED
    BY <1>3, <1>5, <1>6, <1>7, <1>8 DEF IInv

LEMMA StepInv == IInv /\ [Next]_vars => IInv'
  <1> SUFFICES ASSUME IInv, [Next]_vars PROVE IInv'
    OBVIOUS
  <1>1. CASE JoinAll
    BY <1>1 DEF JoinAll, IInv, TypeOK, BooksAgree, ForksApart, MealsLeft, FrontWillWake,
                Waiting, InQueue, ForksFree
  <1>2. CASE UNCHANGED vars
    BY <1>2 DEF vars, IInv, TypeOK, BooksAgree, ForksApart, MealsLeft, FrontWillWake,
                Waiting, InQueue, ForksFree
  <1> QED
    BY <1>1, <1>2, ServeInv, FinishInv, WakeInv DEF Next, Philosopher, Terminated

\* Every reachable state satisfies the inductive invariant, its type invariant
\* included.
THEOREM Invariance == Spec => []IInv
  <1> QED
    BY InitInv, StepInv, PTL DEF Spec

\* The fork flags and the request queue agree with what the philosophers do, so
\* the nurse never looks at the front of an empty queue.
THEOREM BooksKept == Spec => []BooksAgree
  <1>1. IInv => BooksAgree
    BY DEF IInv
  <1> QED
    BY <1>1, Invariance, PTL

\* A front that could be served is awake or will be woken: although a grant
\* notifies nobody, no wakeup is lost.
THEOREM NoLostWakeup == Spec => []FrontWillWake
  <1>1. IInv => FrontWillWake
    BY DEF IInv
  <1> QED
    BY <1>1, Invariance, PTL

-----------------------------------------------------------------------------

\* Only a grant begins a meal, and it is a grant to the front of the queue, or to
\* a newcomer when nobody waits.
LEMMA BeginsByGrant ==
    ASSUME IInv, [Next]_vars, NEW j \in Philosophers, pc[j] # "eating", pc'[j] = "eating"
    PROVE  /\ pc[j] \in {"thinking", "woken"}
           /\ ForksFree(j)
           /\ pc' = [pc EXCEPT ![j] = "eating"]
           /\ \/ requestQueue = <<>>
              \/ requestQueue # <<>> /\ Head(requestQueue) = j
  <1>1. pc \in [Philosophers -> PCs] /\ requestQueue \in Seq(Philosophers)
    BY DEF IInv, TypeOK
  <1>2. RequestMeal(j) \/ Recheck(j)
    <2>1. ASSUME NEW i \in Philosophers, NotifyAll(i) \/ SpuriousWakeup(i) \/ FinishMeal(i) PROVE FALSE
      BY <1>1, <2>1 DEF NotifyAll, SpuriousWakeup, FinishMeal
    <2>2. ASSUME NEW i \in Philosophers, i # j, RequestMeal(i) \/ Recheck(i) PROVE FALSE
      BY <1>1, <2>2 DEF RequestMeal, Recheck, Grant
    <2> QED
      BY <2>1, <2>2 DEF Next, Philosopher, JoinAll, Terminated, vars
  <1>3. CASE RequestMeal(j)
    <2>1. pc[j] = "thinking" /\ Grant(j, Append(requestQueue, j))
      BY <1>1, <1>3 DEF RequestMeal
    <2>2. requestQueue = <<>>
      <3>1. SUFFICES ASSUME requestQueue # <<>> PROVE FALSE
        OBVIOUS
      <3>2. Head(requestQueue) = j
        BY <1>1, <2>1, <3>1 DEF Grant, MayEat
      <3>3. Holds(requestQueue, j)
        BY <1>1, <3>1, <3>2, Dequeue DEF IInv, BooksAgree
      <3> QED
        BY <2>1, <3>3 DEF IInv, BooksAgree, InQueue, Waiting
    <2> QED
      BY <2>1, <2>2 DEF Grant, MayEat
  <1>4. CASE Recheck(j)
    <2>1. pc[j] = "woken" /\ Grant(j, requestQueue)
      BY <1>1, <1>4 DEF Recheck
    <2> QED
      BY <2>1 DEF Grant, MayEat
  <1> QED
    BY <1>2, <1>3, <1>4

\* Requests are served in the order they came.
THEOREM InOrder == Spec => ServedInOrder
  <1>1. ASSUME IInv, [Next]_vars, NEW i \in Philosophers, NEW j \in Philosophers,
               Waiting(i), pc[j] # "eating", pc'[j] = "eating"
        PROVE  \E k \in 1 .. Len(requestQueue) :
                  requestQueue[k] = j /\ \A l \in 1 .. k - 1 : requestQueue[l] # i
    <2>1. Holds(requestQueue, i) /\ requestQueue \in Seq(Philosophers)
      BY <1>1 DEF IInv, TypeOK, BooksAgree, InQueue
    <2>2. requestQueue # <<>>
      BY <2>1, EmptyQueue
    <2>3. Head(requestQueue) = j
      BY <1>1, <2>2, BeginsByGrant
    <2>4. 1 \in 1 .. Len(requestQueue) /\ requestQueue[1] = j
      BY <2>1, <2>2, <2>3, LenProperties, EmptySeq
    <2>5. \A l \in 1 .. 1 - 1 : requestQueue[l] # i
      OBVIOUS
    <2> QED
      BY <2>4, <2>5
  <1>2. IInv /\ [Next]_vars =>
          [\A i, j \in Philosophers :
              Waiting(i) /\ pc[j] # "eating" /\ pc'[j] = "eating" =>
                  \E k \in 1 .. Len(requestQueue) :
                      requestQueue[k] = j /\ \A l \in 1 .. k - 1 : requestQueue[l] # i]_vars
    BY <1>1
  <1> QED
    BY <1>2, Invariance, PTL DEF Spec, ServedInOrder

\* A philosopher shares its right fork with its right neighbour and its left one
\* with its left neighbour.
LEMMA Circle ==
    ASSUME NEW i \in Philosophers
    PROVE  /\ Table!left(i) \in Philosophers /\ Table!right(i) \in Philosophers
           /\ rightFork(Table!left(i)) = leftFork(i)
           /\ leftFork(Table!right(i)) = rightFork(i)
  <1>1. N \in Nat /\ N >= 2 /\ i \in Nat /\ i < N
    BY NurseAssumption DEF Philosophers
  <1>2. ASSUME NEW x \in Nat, x < N PROVE x % N = x /\ (x + N) % N = x
    BY <1>1, <1>2
  <1>3. (i + 1) % N = IF i = N - 1 THEN 0 ELSE i + 1
    BY <1>1, <1>2
  <1>4. (i + N - 1) % N = IF i = 0 THEN N - 1 ELSE i - 1
    BY <1>1, <1>2
  <1> QED
    BY <1>1, <1>2, <1>3, <1>4 DEF Table!left, Table!right, leftFork, rightFork, Philosophers

\* The nurse implements the table: every step begins one meal, ends one, or leaves
\* the eaters as they are.
THEOREM Implements == Spec => NeighboursExclude
  <1> DEFINE eaters == {i \in Philosophers : pc[i] = "eating"}
  <1>1. Init => Table!Init
    BY DEF Init, Table!Init
  <1>2. ASSUME IInv, [Next]_vars
        PROVE  Table!Next \/ eaters' = eaters
    <2>1. pc \in [Philosophers -> PCs] /\ Philosophers = Table!Philosophers
      BY <1>2 DEF IInv, TypeOK, Philosophers, Table!Philosophers
    <2>2. ASSUME NEW i \in Philosophers, pc[i] # "eating", pc'[i] = "eating" PROVE Table!Begin(i)
      <3>1. ForksFree(i) /\ pc' = [pc EXCEPT ![i] = "eating"]
        BY <1>2, <2>2, BeginsByGrant
      <3>2. pc[Table!left(i)] # "eating"
        BY <1>2, <3>1, Circle, ForkNames DEF IInv, BooksAgree, ForksFree
      <3>3. pc[Table!right(i)] # "eating"
        BY <1>2, <3>1, Circle, ForkNames DEF IInv, BooksAgree, ForksFree
      <3>4. eaters' = eaters \cup {i}
        BY <2>1, <3>1
      <3> QED
        BY <2>2, <3>2, <3>3, <3>4 DEF Table!Begin
    <2>3. ASSUME NEW i \in Philosophers, FinishMeal(i) PROVE Table!End(i)
      BY <2>1, <2>3 DEF FinishMeal, Table!End
    <2>4. CASE \E i \in Philosophers : pc[i] # "eating" /\ pc'[i] = "eating"
      BY <2>1, <2>2, <2>4 DEF Table!Next
    <2>5. CASE \E i \in Philosophers : FinishMeal(i)
      BY <2>1, <2>3, <2>5 DEF Table!Next
    <2>6. ASSUME \A i \in Philosophers : ~FinishMeal(i)
          PROVE  \A i \in Philosophers : pc[i] = "eating" => pc'[i] = "eating"
      <3>1. CASE JoinAll \/ UNCHANGED vars
        BY <3>1 DEF JoinAll, vars
      <3>2. ASSUME NEW i \in Philosophers, RequestMeal(i) \/ Recheck(i) \/ NotifyAll(i) \/ SpuriousWakeup(i)
            PROVE  \A j \in Philosophers : pc[j] = "eating" => pc'[j] = "eating"
        BY <2>1, <3>2 DEF RequestMeal, Recheck, Grant, NotifyAll, SpuriousWakeup
      <3> QED
        BY <1>2, <2>6, <3>1, <3>2 DEF Next, Philosopher, Terminated
    <2> QED
      BY <2>4, <2>5, <2>6
  <1>3. IInv /\ [Next]_vars => [Table!Next]_eaters
    BY <1>2
  <1> QED
    BY <1>1, <1>3, Invariance, PTL DEF Spec, NeighboursExclude, Table!Spec
=============================================================================
