------------------------- MODULE Philosophers_proofs ------------------------
(***************************************************************************)
(* The philosophers: those with states, for every number of them, those    *)
(* with a mutex per fork, in either order, and the two workers of Lab_22.  *)
(* The table is implemented by the first two.                              *)
(***************************************************************************)
EXTENDS Lab23Tanenbaum, LockOrder, TLAPS

-----------------------------------------------------------------------------
(* The philosophers with states *)

States == [Philosophers -> {"THINKING", "HUNGRY", "EATING"}]

\* Neighbours are never both marked EATING, and a HUNGRY philosopher has a
\* neighbour who is.
Exclude(s) == \A i \in Philosophers : s[i] = "EATING" => s[right(i)] # "EATING"
HeldUp(s, i) == s[i] = "HUNGRY" => \E j \in {left(i), right(i)} : s[j] = "EATING"

\* A thread is thinking exactly when its state says so.
PlacesAgree == \A i \in Philosophers : pc[i] = "think" <=> state[i] = "THINKING"

\* Inductive: the table's rule on the marks, and where the threads are.
IInv == TypeOK /\ Exclude(state) /\ PlacesAgree /\ HungryIsHeldUp

-----------------------------------------------------------------------------

\* left and right (lines 38 and 39 of the program) are each other's inverses on
\* the circle, and a philosopher is not its own neighbour.
LEMMA Circle ==
    ASSUME NEW i \in Philosophers
    PROVE  /\ left(i) \in Philosophers /\ right(i) \in Philosophers
           /\ left(right(i)) = i /\ right(left(i)) = i
           /\ left(i) # i /\ right(i) # i
  <1>1. N \in Nat /\ N >= 2 /\ i \in Nat /\ i < N
    BY TableAssumption DEF Philosophers
  <1>2. ASSUME NEW x \in Nat, x < N PROVE x % N = x /\ (x + N) % N = x
    BY <1>1, <1>2
  <1>3. right(i) = IF i = N - 1 THEN 0 ELSE i + 1
    BY <1>1, <1>2 DEF right
  <1>4. left(i) = IF i = 0 THEN N - 1 ELSE i - 1
    BY <1>1, <1>2 DEF left
  <1> QED
    BY <1>1, <1>2, <1>3, <1>4 DEF left, right, Philosophers

\* test(j) marks j or nobody, keeps every mark, leaves j held up or not HUNGRY,
\* and holds up whom was held up before.
LEMMA Testing ==
    ASSUME NEW s \in States, Exclude(s), NEW j \in Philosophers
    PROVE  /\ test(s, j) \in States
           /\ Exclude(test(s, j))
           /\ \A k \in Philosophers : k # j => test(s, j)[k] = s[k]
           /\ test(s, j)[j] = IF Passes(s, j) THEN "EATING" ELSE s[j]
           /\ Passes(s, j) => s[j] = "HUNGRY"
           /\ HeldUp(test(s, j), j)
           /\ \A k \in Philosophers : HeldUp(s, k) => HeldUp(test(s, j), k)
  <1> DEFINE r == test(s, j)
  <1>1. /\ r \in States
        /\ \A k \in Philosophers : k # j => r[k] = s[k]
        /\ r[j] = IF Passes(s, j) THEN "EATING" ELSE s[j]
        /\ Passes(s, j) => s[j] = "HUNGRY" /\ s[left(j)] # "EATING" /\ s[right(j)] # "EATING"
        /\ s[j] = "HUNGRY" /\ ~Passes(s, j) => s[left(j)] = "EATING" \/ s[right(j)] = "EATING"
    BY DEF test, Passes, States
  <1> HIDE DEF r
  <1>2. Exclude(r)
    <2>1. SUFFICES ASSUME NEW k \in Philosophers, r[k] = "EATING", r[right(k)] = "EATING"
                   PROVE  FALSE
      BY DEF Exclude
    <2>2. CASE k = j
      BY <1>1, <2>1, <2>2, Circle DEF Exclude
    <2>3. CASE right(k) = j
      BY <1>1, <2>1, <2>3, Circle DEF Exclude
    <2> QED
      BY <1>1, <2>1, <2>2, <2>3, Circle DEF Exclude
  <1>3. HeldUp(r, j)
    BY <1>1, Circle DEF HeldUp
  <1>4. ASSUME NEW k \in Philosophers, HeldUp(s, k) PROVE HeldUp(r, k)
    <2>1. \A m \in Philosophers : s[m] = "EATING" => r[m] = "EATING"
      BY <1>1
    <2> QED
      BY <1>1, <1>4, <2>1, Circle DEF HeldUp
  <1> QED
    BY <1>1, <1>2, <1>3, <1>4 DEF r

LEMMA InitInv == Init => IInv
  BY DEF Init, IInv, TypeOK, PCs, Exclude, PlacesAgree, HungryIsHeldUp

LEMMA TakeForksInv ==
    ASSUME NEW i \in Philosophers, IInv, take_forks(i)
    PROVE  IInv'
  <1> DEFINE hungry == [state EXCEPT ![i] = "HUNGRY"]
             tested == test(hungry, i)
  <1>1. /\ pc[i] = "think"
        /\ state' = tested
        /\ pc' = [pc EXCEPT ![i] = IF tested[i] = "EATING" THEN "eat" ELSE "asleep"]
    BY DEF take_forks
  <1>2. /\ state \in States /\ pc \in [Philosophers -> PCs]
        /\ state[i] = "THINKING"
    BY <1>1 DEF IInv, TypeOK, States, PlacesAgree
  <1>3. /\ hungry \in States /\ hungry[i] = "HUNGRY"
        /\ \A k \in Philosophers : k # i => hungry[k] = state[k]
    BY <1>2 DEF States
  <1>4. Exclude(hungry)
    BY <1>2, <1>3, Circle DEF IInv, Exclude
  <1>5. \A k \in Philosophers : k # i => HeldUp(hungry, k)
    BY <1>2, <1>3, Circle DEF IInv, HungryIsHeldUp, HeldUp
  <1> HIDE DEF hungry, tested
  <1>6. /\ tested \in States
        /\ Exclude(tested)
        /\ \A k \in Philosophers : k # i => tested[k] = hungry[k]
        /\ tested[i] \in {"HUNGRY", "EATING"}
        /\ \A k \in Philosophers : HeldUp(tested, k)
    BY <1>3, <1>4, <1>5, Testing DEF tested
  <1>7. TypeOK'
    BY <1>1, <1>2, <1>6 DEF TypeOK, States, PCs
  <1>8. PlacesAgree'
    BY <1>1, <1>2, <1>3, <1>6 DEF IInv, PlacesAgree
  <1>9. HungryIsHeldUp'
    BY <1>1, <1>2, <1>3, <1>6 DEF IInv, HungryIsHeldUp, HeldUp
  <1> QED
    BY <1>1, <1>6, <1>7, <1>8, <1>9 DEF IInv

LEMMA WaitInv ==
    ASSUME NEW i \in Philosophers, IInv, Recheck(i) \/ SpuriousWakeup(i)
    PROVE  IInv'
  <1> USE DEF IInv, TypeOK
  <1>1. /\ pc[i] \in {"asleep", "woken"}
        /\ \/ pc' = [pc EXCEPT ![i] = "woken"]
           \/ pc' = [pc EXCEPT ![i] = "eat"] /\ state[i] = "EATING"
           \/ pc' = [pc EXCEPT ![i] = "asleep"] /\ state[i] # "EATING"
        /\ UNCHANGED state
    BY DEF Recheck, SpuriousWakeup
  <1>2. state[i] # "THINKING"
    BY <1>1 DEF PlacesAgree
  <1>3. TypeOK'
    BY <1>1 DEF PCs
  <1>4. PlacesAgree'
    BY <1>1, <1>2 DEF PlacesAgree
  <1>5. HungryIsHeldUp'
    BY <1>1, <1>2 DEF HungryIsHeldUp
  <1> QED
    BY <1>1, <1>3, <1>4, <1>5 DEF Exclude

LEMMA PutForksInv ==
    ASSUME NEW i \in Philosophers, IInv, put_forks(i)
    PROVE  IInv'
  <1> DEFINE l == left(i)
             r == right(i)
             down == [state EXCEPT ![i] = "THINKING"]
             tested == test(down, l)
             final == test(tested, r)
             woken == signalled(down, l) \cup signalled(tested, r)
  <1>1. /\ pc[i] = "eat"
        /\ state' = final
        /\ pc' = [j \in Philosophers |-> IF j = i THEN "think" ELSE IF j \in woken THEN "woken" ELSE pc[j]]
    BY DEF put_forks
  <1>2. /\ state \in States /\ pc \in [Philosophers -> PCs]
        /\ state[i] = "EATING"
        /\ l \in Philosophers /\ r \in Philosophers /\ l # i /\ r # i
    BY <1>1, Circle DEF IInv, TypeOK, States, HungryIsHeldUp
  <1>3. /\ down \in States /\ down[i] = "THINKING"
        /\ \A k \in Philosophers : k # i => down[k] = state[k]
    BY <1>2 DEF States
  <1>4. Exclude(down)
    BY <1>2, <1>3, Circle DEF IInv, Exclude
  <1>5. \A k \in Philosophers \ {l, r} : HeldUp(down, k)
    <2>1. SUFFICES ASSUME NEW k \in Philosophers \ {l, r}, down[k] = "HUNGRY"
                   PROVE  \E j \in {left(k), right(k)} : down[j] = "EATING"
      BY DEF HeldUp
    <2>2. k # i /\ state[k] = "HUNGRY"
      BY <1>3, <2>1
    <2>3. PICK j \in {left(k), right(k)} : state[j] = "EATING"
      BY <2>2 DEF IInv, HungryIsHeldUp
    <2>4. j \in Philosophers /\ j # i
      BY Circle
    <2> QED
      BY <1>3, <2>3, <2>4
  <1> HIDE DEF down, l, r
  <1>6. /\ tested \in States
        /\ Exclude(tested)
        /\ \A k \in Philosophers : k # l => tested[k] = down[k]
        /\ tested[l] = IF Passes(down, l) THEN "EATING" ELSE down[l]
        /\ Passes(down, l) => down[l] = "HUNGRY"
        /\ HeldUp(tested, l)
        /\ \A k \in Philosophers : HeldUp(down, k) => HeldUp(tested, k)
    BY <1>2, <1>3, <1>4, Testing
  <1> HIDE DEF tested
  <1>7. /\ final \in States
        /\ Exclude(final)
        /\ \A k \in Philosophers : k # r => final[k] = tested[k]
        /\ final[r] = IF Passes(tested, r) THEN "EATING" ELSE tested[r]
        /\ Passes(tested, r) => tested[r] = "HUNGRY"
        /\ HeldUp(final, r)
        /\ \A k \in Philosophers : HeldUp(tested, k) => HeldUp(final, k)
    BY <1>2, <1>6, Testing
  <1> HIDE DEF final
  <1>8. \A k \in Philosophers : HeldUp(final, k)
    BY <1>2, <1>5, <1>6, <1>7
  <1>9. /\ \A k \in woken : k \in {l, r} /\ pc[k] = "asleep"
        /\ Passes(down, l) /\ pc[l] = "asleep" => l \in woken
        /\ Passes(tested, r) /\ pc[r] = "asleep" => r \in woken
    BY DEF signalled
  <1> HIDE DEF woken
  <1>10. /\ final[i] = "THINKING"
         /\ \A k \in Philosophers \ {i} :
               \/ final[k] = state[k]
               \/ state[k] = "HUNGRY" /\ final[k] = "EATING" /\ (pc[k] = "asleep" => k \in woken)
    BY <1>2, <1>3, <1>6, <1>7, <1>9
  <1>11. TypeOK'
    BY <1>1, <1>2, <1>7 DEF TypeOK, States, PCs
  <1>12. PlacesAgree'
    BY <1>1, <1>2, <1>9, <1>10 DEF IInv, PlacesAgree
  <1>13. HungryIsHeldUp'
    <2>1. \A k \in Philosophers : /\ pc'[k] = "asleep" => state'[k] = "HUNGRY"
                                  /\ pc'[k] = "eat" => state'[k] = "EATING"
      BY <1>1, <1>2, <1>9, <1>10 DEF IInv, HungryIsHeldUp
    <2>2. \A k \in Philosophers : HeldUp(state', k)
      BY <1>1, <1>8
    <2> QED
      BY <2>1, <2>2 DEF HungryIsHeldUp, HeldUp
  <1> QED
    BY <1>1, <1>7, <1>11, <1>12, <1>13 DEF IInv

LEMMA StepInv == IInv /\ [Next]_vars => IInv'
  <1> SUFFICES ASSUME IInv, [Next]_vars PROVE IInv'
    OBVIOUS
  <1>1. CASE UNCHANGED vars
    BY <1>1 DEF vars, IInv, TypeOK, Exclude, PlacesAgree, HungryIsHeldUp
  <1> QED
    BY <1>1, TakeForksInv, WaitInv, PutForksInv DEF Next, Philosopher

\* Every reachable state satisfies the inductive invariant, its type invariant
\* included.
THEOREM Invariance == Spec => []IInv
  <1> QED
    BY InitInv, StepInv, PTL DEF Spec

\* A HUNGRY philosopher always has a neighbour marked EATING, and no philosopher
\* marked EATING is left asleep: nobody waits without being waited for.
THEOREM NobodyForgotten == Spec => []HungryIsHeldUp
  <1>1. IInv => HungryIsHeldUp
    BY DEF IInv
  <1> QED
    BY <1>1, Invariance, PTL

\* The program implements the table: every step begins one meal, ends one, or
\* leaves the eaters as they are.
THEOREM Implements == Spec => NeighboursExclude
  <1> DEFINE eaters == {i \in Philosophers : pc[i] = "eat"}
  <1>1. Init => Table!Init
    BY DEF Init, Table!Init
  <1>2. ASSUME IInv, IInv', [Next]_vars
        PROVE  Table!Next \/ eaters' = eaters
    <2>1. \A i \in Philosophers : Table!left(i) = left(i) /\ Table!right(i) = right(i)
      BY DEF Table!left, Table!right, left, right
    <2>2. ASSUME NEW i \in Philosophers, pc[i] # "eat", pc'[i] = "eat",
                 \A k \in Philosophers \ {i} : pc'[k] = "eat" <=> pc[k] = "eat"
          PROVE  Table!Begin(i)
      <3>1. state'[i] = "EATING"
        BY <1>2, <2>2 DEF IInv, HungryIsHeldUp
      <3>2. state'[right(i)] # "EATING" /\ state'[left(i)] # "EATING"
        BY <1>2, <3>1, Circle DEF IInv, Exclude
      <3>3. pc'[right(i)] # "eat" /\ pc'[left(i)] # "eat"
        BY <1>2, <3>2, Circle DEF IInv, HungryIsHeldUp
      <3>4. pc[right(i)] # "eat" /\ pc[left(i)] # "eat"
        BY <2>2, <3>3, Circle
      <3>5. eaters' = eaters \cup {i}
        BY <2>2
      <3> QED
        BY <2>1, <2>2, <3>4, <3>5 DEF Table!Begin
    <2>3. ASSUME NEW i \in Philosophers, put_forks(i) PROVE Table!End(i)
      <3>1. pc[i] = "eat" /\ pc'[i] = "think"
        BY <2>3 DEF put_forks
      <3>2. \A k \in Philosophers \ {i} : pc'[k] = "eat" <=> pc[k] = "eat"
        BY <2>3 DEF put_forks, signalled
      <3>3. eaters' = eaters \ {i}
        BY <3>1, <3>2
      <3> QED
        BY <3>1, <3>3 DEF Table!End
    <2>4. ASSUME NEW i \in Philosophers, take_forks(i) \/ Recheck(i) \/ SpuriousWakeup(i)
          PROVE  Table!Begin(i) \/ eaters' = eaters
      <3>1. /\ pc[i] # "eat"
            /\ \A k \in Philosophers \ {i} : pc'[k] = pc[k]
        BY <1>2, <2>4 DEF take_forks, Recheck, SpuriousWakeup, IInv, TypeOK
      <3>2. CASE pc'[i] = "eat"
        BY <2>2, <3>1, <3>2
      <3>3. CASE pc'[i] # "eat"
        BY <3>1, <3>3
      <3> QED
        BY <3>2, <3>3
    <2>5. CASE UNCHANGED vars
      BY <2>5 DEF vars
    <2>6. Philosophers = Table!Philosophers
      BY DEF Philosophers, Table!Philosophers
    <2> QED
      BY <1>2, <2>3, <2>4, <2>5, <2>6 DEF Next, Philosopher, Table!Next
  <1>3. IInv /\ IInv' /\ [Next]_vars => [Table!Next]_eaters
    BY <1>2
  <1> QED
    BY <1>1, <1>3, Invariance, PTL DEF Spec, NeighboursExclude, Table!Spec

-----------------------------------------------------------------------------
(* One mutex per fork *)

\* The forks a philosopher has where it is in the program.
HasLeft(i) == at[i] = "eat" \/ (at[i] = "second" /\ FirstFork(i) = LeftFork(i))
HasRight(i) ==
    at[i] \in {"eat", "leftdown"} \/ (at[i] = "second" /\ FirstFork(i) = RightFork(i))

\* A philosopher holds the forks its place in the program says, and no others.
HandsAgree ==
    \A i \in Philosophers :
        /\ holder[LeftFork(i)] = i <=> HasLeft(i)
        /\ holder[RightFork(i)] = i <=> HasRight(i)

\* Inductive: it is the program counters that say who holds what.
ForksIInv == ForksTypeOK /\ HandsAgree

\* Fork i lies between philosopher i and the one before it.
LEMMA ForkCircle ==
    ASSUME NEW i \in Philosophers
    PROVE  /\ LeftFork(i) \in Philosophers /\ RightFork(i) \in Philosophers
           /\ LeftFork(i) # RightFork(i)
           /\ (RightFork(i) + N - 1) % N = i
           /\ (i + N - 1) % N \in Philosophers
           /\ RightFork((i + N - 1) % N) = i
           /\ RightFork(i) = IF i = N - 1 THEN 0 ELSE i + 1
           /\ (i + N - 1) % N # i
           /\ i # Nobody
  <1>1. N \in Nat /\ N >= 2 /\ i \in Nat /\ i < N
    BY TableAssumption DEF Philosophers
  <1>2. ASSUME NEW x \in Nat, x < N PROVE x % N = x /\ (x + N) % N = x
    BY <1>1, <1>2
  <1>3. RightFork(i) = IF i = N - 1 THEN 0 ELSE i + 1
    BY <1>1, <1>2 DEF RightFork
  <1>4. (i + N - 1) % N = IF i = 0 THEN N - 1 ELSE i - 1
    BY <1>1, <1>2
  <1>5. RightFork((i + N - 1) % N) = i
    BY <1>1, <1>2, <1>4 DEF RightFork
  <1>6. (RightFork(i) + N - 1) % N = i
    BY <1>1, <1>2, <1>3
  <1> QED
    BY <1>1, <1>3, <1>4, <1>5, <1>6 DEF LeftFork, Philosophers, Nobody

\* The fork locked first and the one locked second are the two beside the philosopher.
LEMMA TwoForks ==
    ASSUME NEW i \in Philosophers
    PROVE  \/ FirstFork(i) = LeftFork(i) /\ SecondFork(i) = RightFork(i)
           \/ FirstFork(i) = RightFork(i) /\ SecondFork(i) = LeftFork(i)
  BY DEF FirstFork, SecondFork

\* All forks are on the table.
LEMMA ForksInitInv == ForksInit => ForksIInv
  <1> SUFFICES ASSUME ForksInit PROVE ForksIInv
    OBVIOUS
  <1>1. ForksTypeOK
    BY DEF ForksInit, ForksTypeOK, ForkPCs
  <1>2. HandsAgree
    BY ForkCircle DEF ForksInit, HandsAgree, HasLeft, HasRight
  <1> QED
    BY <1>1, <1>2 DEF ForksIInv

\* Taking a free fork, or putting one back, changes what one hand of one philosopher
\* holds and nobody else's.
LEMMA OneHand ==
    ASSUME ForksIInv, NEW i \in Philosophers, NEW f \in {LeftFork(i), RightFork(i)},
           NEW v \in {i, Nobody}, holder[f] \in {i, Nobody},
           holder' = [holder EXCEPT ![f] = v]
    PROVE  /\ holder' \in [Philosophers -> Philosophers \cup {Nobody}]
           /\ \A g \in Philosophers : holder'[g] \in {g, (g + N - 1) % N, Nobody}
           /\ \A j \in Philosophers \ {i} :
                 /\ holder'[LeftFork(j)] = j <=> holder[LeftFork(j)] = j
                 /\ holder'[RightFork(j)] = j <=> holder[RightFork(j)] = j
           /\ holder'[f] = v
           /\ \A g \in Philosophers \ {f} : holder'[g] = holder[g]
  <1>1. f \in Philosophers /\ i \in {f, (f + N - 1) % N}
    BY ForkCircle DEF LeftFork
  <1>2. holder' \in [Philosophers -> Philosophers \cup {Nobody}]
    BY <1>1 DEF ForksIInv, ForksTypeOK
  <1>3. holder'[f] = v /\ \A g \in Philosophers \ {f} : holder'[g] = holder[g]
    BY <1>1 DEF ForksIInv, ForksTypeOK
  <1>4. \A g \in Philosophers : holder'[g] \in {g, (g + N - 1) % N, Nobody}
    BY <1>1, <1>3 DEF ForksIInv, ForksTypeOK
  <1>5. ASSUME NEW j \in Philosophers \ {i}, NEW g \in {LeftFork(j), RightFork(j)}
        PROVE  holder'[g] = j <=> holder[g] = j
    BY <1>3, <1>5, ForkCircle
  <1> QED
    BY <1>2, <1>3, <1>4, <1>5

\* A mutex is taken only if it is free, and given back only by its holder.
LEMMA ForksStepInv == ForksIInv /\ [ForksNext]_forkVars => ForksIInv'
  <1> SUFFICES ASSUME ForksIInv, [ForksNext]_forkVars PROVE ForksIInv'
    OBVIOUS
  <1>1. CASE UNCHANGED forkVars
    BY <1>1 DEF ForksIInv, ForksTypeOK, HandsAgree, HasLeft, HasRight, forkVars, FirstFork,
                LeftFork, RightFork
  <1>2. ASSUME NEW i \in Philosophers, philosopher(i) PROVE ForksIInv'
    <2>0. /\ ordered' = ordered /\ ordered \in BOOLEAN
          /\ at \in [Philosophers -> ForkPCs]
          /\ holder \in [Philosophers -> Philosophers \cup {Nobody}]
          /\ \A j \in Philosophers : FirstFork(j)' = FirstFork(j)
      BY <1>2 DEF ForksIInv, ForksTypeOK, philosopher, think, LockFirst, LockSecond, UnlockLeft,
                  UnlockRight, FirstFork, LeftFork, RightFork
    <2>1. CASE think(i)
      <3>1. at' = [at EXCEPT ![i] = "first"] /\ holder' = holder /\ at[i] = "think"
        BY <2>1 DEF think, Goto
      <3>2. ForksTypeOK'
        BY <2>0, <3>1 DEF ForksIInv, ForksTypeOK, ForkPCs
      <3>3. HandsAgree'
        BY <2>0, <3>1, ForkCircle DEF ForksIInv, HandsAgree, HasLeft, HasRight, LeftFork, RightFork
      <3> QED
        BY <3>2, <3>3 DEF ForksIInv
    <2>2. CASE LockFirst(i)
      <3>1. /\ at' = [at EXCEPT ![i] = "second"] /\ at[i] = "first"
            /\ holder[FirstFork(i)] = Nobody
            /\ holder' = [holder EXCEPT ![FirstFork(i)] = i]
        BY <2>2 DEF LockFirst, Goto
      <3>2. FirstFork(i) \in {LeftFork(i), RightFork(i)}
        BY TwoForks
      <3>3. /\ holder' \in [Philosophers -> Philosophers \cup {Nobody}]
            /\ \A g \in Philosophers : holder'[g] \in {g, (g + N - 1) % N, Nobody}
            /\ \A j \in Philosophers \ {i} :
                  /\ holder'[LeftFork(j)] = j <=> holder[LeftFork(j)] = j
                  /\ holder'[RightFork(j)] = j <=> holder[RightFork(j)] = j
            /\ holder'[FirstFork(i)] = i
            /\ \A g \in Philosophers \ {FirstFork(i)} : holder'[g] = holder[g]
        BY <3>1, <3>2, OneHand
      <3>4. ForksTypeOK'
        BY <2>0, <3>1, <3>3 DEF ForksTypeOK, ForkPCs
      <3>5. HandsAgree'
        BY <2>0, <3>1, <3>2, <3>3, ForkCircle
        DEF ForksIInv, HandsAgree, HasLeft, HasRight, LeftFork, RightFork
      <3> QED
        BY <3>4, <3>5 DEF ForksIInv
    <2>3. CASE LockSecond(i)
      <3>1. /\ at' = [at EXCEPT ![i] = "eat"] /\ at[i] = "second"
            /\ holder[SecondFork(i)] \in {i, Nobody}
            /\ holder' = [holder EXCEPT ![SecondFork(i)] = i]
        BY <2>3, TwoForks DEF LockSecond, Goto
      <3>2. SecondFork(i) \in {LeftFork(i), RightFork(i)} /\ i \in {i, Nobody}
        BY TwoForks
      <3>3. /\ holder' \in [Philosophers -> Philosophers \cup {Nobody}]
            /\ \A g \in Philosophers : holder'[g] \in {g, (g + N - 1) % N, Nobody}
            /\ \A j \in Philosophers \ {i} :
                  /\ holder'[LeftFork(j)] = j <=> holder[LeftFork(j)] = j
                  /\ holder'[RightFork(j)] = j <=> holder[RightFork(j)] = j
            /\ holder'[SecondFork(i)] = i
            /\ \A g \in Philosophers \ {SecondFork(i)} : holder'[g] = holder[g]
        BY <3>1, <3>2, OneHand
      <3>4. ForksTypeOK'
        BY <2>0, <3>1, <3>3 DEF ForksTypeOK, ForkPCs
      <3>5. HandsAgree'
        BY <2>0, <3>1, <3>2, <3>3, ForkCircle, TwoForks
        DEF ForksIInv, HandsAgree, HasLeft, HasRight, LeftFork, RightFork
      <3> QED
        BY <3>4, <3>5 DEF ForksIInv
    <2>4. CASE UnlockLeft(i)
      <3>1. /\ at' = [at EXCEPT ![i] = "leftdown"] /\ at[i] = "eat"
            /\ holder[LeftFork(i)] \in {i, Nobody}
            /\ holder' = [holder EXCEPT ![LeftFork(i)] = Nobody]
        BY <2>4 DEF UnlockLeft, Goto, ForksIInv, HandsAgree, HasLeft, HasRight
      <3>2. LeftFork(i) \in {LeftFork(i), RightFork(i)} /\ Nobody \in {i, Nobody}
        BY TwoForks
      <3>3. /\ holder' \in [Philosophers -> Philosophers \cup {Nobody}]
            /\ \A g \in Philosophers : holder'[g] \in {g, (g + N - 1) % N, Nobody}
            /\ \A j \in Philosophers \ {i} :
                  /\ holder'[LeftFork(j)] = j <=> holder[LeftFork(j)] = j
                  /\ holder'[RightFork(j)] = j <=> holder[RightFork(j)] = j
            /\ holder'[LeftFork(i)] = Nobody
            /\ \A g \in Philosophers \ {LeftFork(i)} : holder'[g] = holder[g]
        BY <3>1, <3>2, OneHand
      <3>4. ForksTypeOK'
        BY <2>0, <3>1, <3>3 DEF ForksTypeOK, ForkPCs
      <3>5. HandsAgree'
        BY <2>0, <3>1, <3>2, <3>3, ForkCircle, TwoForks
        DEF ForksIInv, HandsAgree, HasLeft, HasRight, LeftFork, RightFork
      <3> QED
        BY <3>4, <3>5 DEF ForksIInv
    <2>5. CASE UnlockRight(i)
      <3>1. /\ at' = [at EXCEPT ![i] = "think"] /\ at[i] = "leftdown"
            /\ holder[RightFork(i)] \in {i, Nobody}
            /\ holder' = [holder EXCEPT ![RightFork(i)] = Nobody]
        BY <2>5 DEF UnlockRight, Goto, ForksIInv, HandsAgree, HasLeft, HasRight
      <3>2. RightFork(i) \in {LeftFork(i), RightFork(i)} /\ Nobody \in {i, Nobody}
        BY TwoForks
      <3>3. /\ holder' \in [Philosophers -> Philosophers \cup {Nobody}]
            /\ \A g \in Philosophers : holder'[g] \in {g, (g + N - 1) % N, Nobody}
            /\ \A j \in Philosophers \ {i} :
                  /\ holder'[LeftFork(j)] = j <=> holder[LeftFork(j)] = j
                  /\ holder'[RightFork(j)] = j <=> holder[RightFork(j)] = j
            /\ holder'[RightFork(i)] = Nobody
            /\ \A g \in Philosophers \ {RightFork(i)} : holder'[g] = holder[g]
        BY <3>1, <3>2, OneHand
      <3>4. ForksTypeOK'
        BY <2>0, <3>1, <3>3 DEF ForksTypeOK, ForkPCs
      <3>5. HandsAgree'
        BY <2>0, <3>1, <3>2, <3>3, ForkCircle, TwoForks
        DEF ForksIInv, HandsAgree, HasLeft, HasRight, LeftFork, RightFork
      <3> QED
        BY <3>4, <3>5 DEF ForksIInv
    <2> QED
      BY <1>2, <2>1, <2>2, <2>3, <2>4, <2>5 DEF philosopher
  <1> QED
    BY <1>1, <1>2 DEF ForksNext

\* Who cannot move waits for a neighbour that has its fork; from one to the next that goes
\* all the way round, and a last philosopher that begins with the other fork breaks it.
LEMMA ForksWait == ForksIInv => OnlyCircularWait
  <1> SUFFICES ASSUME ForksIInv, \A i \in Philosophers : ~CanMove(i)
               PROVE  ~ordered /\ \A i \in Philosophers : holder[LeftFork(i)] = i
    BY DEF OnlyCircularWait
  <1>1. \A i \in Philosophers :
           \/ at[i] = "first" /\ holder[FirstFork(i)] # Nobody
           \/ at[i] = "second" /\ holder[SecondFork(i)] # Nobody
    BY DEF CanMove, ForksIInv, ForksTypeOK, ForkPCs
  \* A fork that is not free is in the hand of a philosopher who has taken its first one.
  <1>2. ASSUME NEW i \in Philosophers, holder[i] # Nobody
        PROVE  \/ at[i] = "second" /\ FirstFork(i) = i /\ holder[i] = i
               \/ LET j == (i + N - 1) % N IN at[j] = "second" /\ FirstFork(j) = RightFork(j)
    <2>1. holder[i] = i \/ holder[i] = (i + N - 1) % N
      BY <1>2 DEF ForksIInv, ForksTypeOK
    <2>2. CASE holder[i] = i
      BY <1>1, <2>2 DEF ForksIInv, HandsAgree, HasLeft, LeftFork
    <2>3. CASE holder[i] = (i + N - 1) % N
      <3>1. PICK j \in Philosophers : j = (i + N - 1) % N /\ RightFork(j) = i
        BY ForkCircle
      <3>2. HasRight(j)
        BY <2>3, <3>1 DEF ForksIInv, HandsAgree
      <3>3. at[j] = "second" /\ FirstFork(j) = RightFork(j)
        BY <1>1, <3>2 DEF HasRight
      <3> QED
        BY <3>1, <3>3
    <2> QED
      BY <2>1, <2>2, <2>3
  <1>3. CASE ~ordered
    <2>1. \A i \in Philosophers : FirstFork(i) = i /\ RightFork(i) # i
      BY <1>3, ForkCircle DEF FirstFork, LeftFork
    <2>2. ASSUME NEW i \in Philosophers PROVE holder[LeftFork(i)] = i
      <3>1. CASE at[i] = "first"
        <4>1. holder[i] # Nobody
          BY <1>1, <2>1, <3>1
        <4>2. CASE holder[i] = i
          BY <4>2 DEF LeftFork
        <4>3. CASE holder[i] # i
          <5>1. PICK j \in Philosophers : j = (i + N - 1) % N /\ RightFork(j) = i
            BY ForkCircle
          <5>2. FirstFork(j) = RightFork(j)
            BY <1>2, <4>1, <4>3, <5>1
          <5> QED
            BY <2>1, <5>2
        <4> QED
          BY <4>2, <4>3
      <3>2. CASE at[i] = "second"
        BY <2>1, <3>2 DEF ForksIInv, HandsAgree, HasLeft, LeftFork
      <3> QED
        BY <1>1, <3>1, <3>2
    <2> QED
      BY <1>3, <2>2
  <1>4. CASE ordered
    <2> DEFINE last == N - 1
               before == N - 2
    <2>1. /\ N \in Nat /\ N >= 2
          /\ last \in Philosophers /\ before \in Philosophers /\ last # before
          /\ RightFork(last) = 0 /\ 0 \in Philosophers /\ last # 0
          /\ (last + N - 1) % N = before
          /\ (0 + N - 1) % N = last
      <3>1. N \in Nat /\ N >= 2
        BY TableAssumption
      <3>2. last \in Philosophers /\ before \in Philosophers /\ 0 \in Philosophers
        BY <3>1 DEF Philosophers
      <3>3. RightFork(last) = 0 /\ RightFork(before) = last
        BY <3>1, <3>2, ForkCircle
      <3> QED
        BY <3>1, <3>2, <3>3, ForkCircle
    <2>2. \A i \in Philosophers : FirstFork(i) = IF i = last THEN 0 ELSE i
      BY <1>4, <2>1 DEF FirstFork, LeftFork
    <2>3. SecondFork(last) = last
      BY <2>1, <2>2 DEF SecondFork, LeftFork, RightFork
    <2> HIDE DEF last, before
    <2>4. \A i \in Philosophers : FirstFork(i) = RightFork(i) => i = last
      BY <2>2, ForkCircle DEF LeftFork
    \* Nobody holds the last fork, so the last philosopher does not hold its first one ...
    <2>5. holder[last] = Nobody
      BY <1>2, <2>1, <2>2, <2>4
    <2>6. at[last] = "first" /\ holder[0] # Nobody
      BY <1>1, <2>1, <2>2, <2>3, <2>5
    \* ... and the others are past theirs; the one before last then finds its second one free.
    <2>7. ASSUME NEW i \in Philosophers, at[i] = "first" PROVE i = last
      <3>1. SUFFICES ASSUME i # last PROVE FALSE
        OBVIOUS
      <3>2. holder[i] # Nobody /\ FirstFork(i) = i
        BY <1>1, <2>2, <2>7, <3>1
      <3>3. at[(i + N - 1) % N] = "second" /\ (i + N - 1) % N = last
        BY <1>2, <2>4, <2>7, <3>2, ForkCircle
      <3> QED
        BY <2>6, <3>3
    <2>8. at[before] = "second" /\ SecondFork(before) = last
      BY <1>1, <2>1, <2>2, <2>7, ForkCircle DEF SecondFork, LeftFork
    <2> QED
      BY <1>1, <2>1, <2>5, <2>8
  <1> QED
    BY <1>3, <1>4 DEF ForksIInv, ForksTypeOK

\* Neither lab touches the other one's variables.
LEMMA LockStepInv == ForksIInv /\ [LockNext]_lockVars => ForksIInv'
  <1> SUFFICES ASSUME ForksIInv, [LockNext]_lockVars PROVE [ForksNext]_forkVars
    BY ForksStepInv
  <1> QED
    BY DEF LockNext, lockVars, forkVars

\* The inductive invariant, for every number of philosophers of either program.
THEOREM ForksInvariance == LockSpec => []ForksIInv
  <1>1. LockInit => ForksIInv
    BY ForksInitInv DEF LockInit
  <1> QED
    BY <1>1, LockStepInv, PTL DEF LockSpec

\* If no philosopher can move it is the naive program, and every one of them holds its
\* left fork: with the order of the last one reversed the program never stops.
THEOREM OnlyWait == LockSpec => []OnlyCircularWait
  BY ForksInvariance, ForksWait, PTL

\* Both programs implement the table.
THEOREM ForksImplement == LockSpec => ForksExclude
  <1> DEFINE eaters == {i \in Philosophers : at[i] = "eat"}
  <1>1. LockInit => ForksTable!Init
    BY DEF LockInit, ForksInit, ForksTable!Init
  <1>2. ASSUME ForksIInv, ForksIInv', [LockNext]_lockVars
        PROVE  ForksTable!Next \/ eaters' = eaters
    <2>1. [ForksNext]_forkVars
      BY <1>2 DEF LockNext, lockVars, forkVars
    <2>2. \A i \in Philosophers :
             /\ ForksTable!right(i) = RightFork(i)
             /\ ForksTable!left(i) = (i + N - 1) % N
      BY DEF ForksTable!left, ForksTable!right, RightFork
    <2>3. Philosophers = ForksTable!Philosophers
      BY DEF Philosophers, ForksTable!Philosophers
    <2>4. ASSUME NEW i \in Philosophers, LockSecond(i) PROVE ForksTable!Begin(i)
      <3>1. /\ at[i] = "second" /\ at' = [at EXCEPT ![i] = "eat"]
            /\ at \in [Philosophers -> ForkPCs]
        BY <1>2, <2>4 DEF LockSecond, Goto, ForksIInv, ForksTypeOK
      <3>2. at'[i] = "eat" /\ \A j \in Philosophers \ {i} : at'[j] = at[j]
        BY <3>1
      \* Both forks of i are in its hands now, and a neighbour that eats has one of them.
      <3>3. holder'[LeftFork(i)] = i /\ holder'[RightFork(i)] = i
        BY <1>2, <3>2 DEF ForksIInv, HandsAgree, HasLeft, HasRight
      <3>4. at'[RightFork(i)] # "eat"
        BY <1>2, <3>3, ForkCircle DEF ForksIInv, HandsAgree, HasLeft, LeftFork
      <3>5. at'[(i + N - 1) % N] # "eat"
        BY <1>2, <3>3, ForkCircle DEF ForksIInv, HandsAgree, HasRight, LeftFork
      <3>6. {i, RightFork(i), (i + N - 1) % N} \cap eaters = {}
        BY <3>1, <3>2, <3>4, <3>5, ForkCircle DEF LeftFork
      <3>7. eaters' = eaters \cup {i}
        BY <3>2
      <3> QED
        BY <2>2, <3>6, <3>7 DEF ForksTable!Begin
    <2>5. ASSUME NEW i \in Philosophers, UnlockLeft(i) PROVE ForksTable!End(i)
      <3>1. /\ at[i] = "eat" /\ at' = [at EXCEPT ![i] = "leftdown"]
            /\ at \in [Philosophers -> ForkPCs]
        BY <1>2, <2>5 DEF UnlockLeft, Goto, ForksIInv, ForksTypeOK
      <3>2. i \in eaters /\ eaters' = eaters \ {i}
        BY <3>1
      <3> QED
        BY <3>2 DEF ForksTable!End
    <2>6. ASSUME NEW i \in Philosophers, think(i) \/ LockFirst(i) \/ UnlockRight(i)
          PROVE  eaters' = eaters
      <3>1. PICK there \in {"first", "second", "think"} :
               at[i] # "eat" /\ at' = [at EXCEPT ![i] = there]
        BY <2>6 DEF think, LockFirst, UnlockRight, Goto
      <3>2. at \in [Philosophers -> ForkPCs]
        BY <1>2 DEF ForksIInv, ForksTypeOK
      <3> QED
        BY <3>1, <3>2
    <2>7. CASE UNCHANGED forkVars
      BY <2>7 DEF forkVars
    <2> QED
      BY <2>1, <2>3, <2>4, <2>5, <2>6, <2>7 DEF ForksNext, philosopher, ForksTable!Next
  <1>3. ForksIInv /\ ForksIInv' /\ [LockNext]_lockVars => [ForksTable!Next]_eaters
    BY <1>2
  <1> QED
    BY <1>1, <1>3, ForksInvariance, PTL DEF LockSpec, ForksExclude, ForksTable!Spec

-----------------------------------------------------------------------------
(* Lab_22. *)

\* The calls of their scripts the two workers of Lab_22 are at.
First == place[1]
Second == place[2]

\* How far either worker can be while the other one is where it is: the sequence steps
\* let neither past its second lock, and a mutex is held from its lock on.
Lab22IInv ==
    /\ First \in 1 .. 6 /\ Second \in 1 .. 6
    /\ place \in [Workers -> 1 .. 6]
    /\ created \in 0 .. 2
    /\ First >= 2 => created >= 1
    /\ Second >= 2 => created >= 2
    /\ sequenceStep = IF Second = 6 THEN 4 ELSE IF First >= 5 THEN 3
                      ELSE IF Second >= 3 THEN 2 ELSE IF First >= 2 THEN 1 ELSE 0
    /\ Second >= 2 => First >= 2
    /\ First >= 3 => Second >= 3
    /\ Second >= 4 => First >= 5
    /\ First >= 6 => Second >= 6
    /\ mutexHolder \in [{"first", "second"} -> 0 .. 2]
    /\ mutexHolder["first"] = IF First >= 4 THEN 1 ELSE 0
    /\ mutexHolder["second"] = IF Second >= 5 THEN 2 ELSE 0
    /\ First = 6 => 1 \notin asleep
    /\ Second = 6 => 2 \notin asleep

\* The call of its script a worker is at.
LEMMA Calls ==
    /\ Len(script[1]) = 8 /\ Len(script[2]) = 8
    /\ script[1][1] = call("advance", 1) /\ script[1][2] = call("wait", 2)
    /\ script[1][3] = call("lock", "first") /\ script[1][4] = call("advance", 3)
    /\ script[1][5] = call("wait", 4) /\ script[1][6] = call("lock", "second")
    /\ script[2][1] = call("wait", 1) /\ script[2][2] = call("advance", 2)
    /\ script[2][3] = call("wait", 3) /\ script[2][4] = call("lock", "second")
    /\ script[2][5] = call("advance", 4) /\ script[2][6] = call("lock", "first")
  BY DEF script, call

\* A call of the first worker ...
LEMMA FirstWorker ==
    ASSUME Lab22IInv, Worker(1)
    PROVE  Lab22IInv'
  <1> USE DEF Lab22IInv, First, Second, Workers
  <1>1. CASE wait_for_step(1)
    BY <1>1, Calls DEF wait_for_step, At, Arg, GoOn, call
  <1>2. CASE advance_to_step(1)
    BY <1>2, Calls DEF advance_to_step, At, Arg, GoOn, call
  <1>3. CASE UseMutex(1)
    <2>1. PICK op \in {"lock", "unlock"} :
             /\ At(1, op)
             /\ op = "lock" => mutexHolder[Arg(1)] = 0
             /\ mutexHolder' = [mutexHolder EXCEPT ![Arg(1)] = IF op = "lock" THEN 1 ELSE 0]
             /\ GoOn(1)
             /\ UNCHANGED <<sequenceStep, created, asleep>>
      BY <1>3 DEF UseMutex
    <2>2. op = "lock" /\ place[1] \in {3, 6}
      BY <2>1, Calls DEF At, call
    \* The second lock is never granted: the other worker holds that mutex by then.
    <2>3. place[1] = 3 /\ Arg(1) = "first"
      <3>1. place[1] = 6 => Arg(1) = "second"
        BY Calls DEF Arg, call
      <3> QED
        BY <2>1, <2>2, <3>1, Calls DEF Arg, call
    <2>4. place' = [place EXCEPT ![1] = 4]
      BY <2>1, <2>3 DEF GoOn
    <2>5. mutexHolder' = [mutexHolder EXCEPT !["first"] = 1]
      BY <2>1, <2>2, <2>3
    <2>6. /\ mutexHolder' \in [{"first", "second"} -> 0 .. 2]
          /\ mutexHolder'["first"] = IF First' >= 4 THEN 1 ELSE 0
          /\ mutexHolder'["second"] = IF Second' >= 5 THEN 2 ELSE 0
      BY <2>3, <2>4, <2>5
    <2>7. /\ place'[1] = 4 /\ place'[2] = place[2]
          /\ place' \in [Workers -> 1 .. 6]
      BY <2>4
    <2>8. UNCHANGED <<sequenceStep, created, asleep>>
      BY <2>1
    <2> QED
      BY <2>3, <2>6, <2>7, <2>8
  <1> QED
    BY <1>1, <1>2, <1>3 DEF Worker

\* ... and of the second.
LEMMA SecondWorker ==
    ASSUME Lab22IInv, Worker(2)
    PROVE  Lab22IInv'
  <1> USE DEF Lab22IInv, First, Second, Workers
  <1>1. CASE wait_for_step(2)
    BY <1>1, Calls DEF wait_for_step, At, Arg, GoOn, call
  <1>2. CASE advance_to_step(2)
    BY <1>2, Calls DEF advance_to_step, At, Arg, GoOn, call
  <1>3. CASE UseMutex(2)
    <2>1. PICK op \in {"lock", "unlock"} :
             /\ At(2, op)
             /\ op = "lock" => mutexHolder[Arg(2)] = 0
             /\ mutexHolder' = [mutexHolder EXCEPT ![Arg(2)] = IF op = "lock" THEN 2 ELSE 0]
             /\ GoOn(2)
             /\ UNCHANGED <<sequenceStep, created, asleep>>
      BY <1>3 DEF UseMutex
    <2>2. op = "lock" /\ place[2] \in {4, 6}
      BY <2>1, Calls DEF At, call
    \* The second lock is never granted: the other worker holds that mutex by then.
    <2>3. place[2] = 4 /\ Arg(2) = "second"
      <3>1. place[2] = 6 => Arg(2) = "first"
        BY Calls DEF Arg, call
      <3> QED
        BY <2>1, <2>2, <3>1, Calls DEF Arg, call
    <2>4. place' = [place EXCEPT ![2] = 5]
      BY <2>1, <2>3 DEF GoOn
    <2>5. mutexHolder' = [mutexHolder EXCEPT !["second"] = 2]
      BY <2>1, <2>2, <2>3
    <2>6. /\ mutexHolder' \in [{"first", "second"} -> 0 .. 2]
          /\ mutexHolder'["first"] = IF First' >= 4 THEN 1 ELSE 0
          /\ mutexHolder'["second"] = IF Second' >= 5 THEN 2 ELSE 0
      BY <2>3, <2>4, <2>5
    <2>7. /\ place'[2] = 5 /\ place'[1] = place[1]
          /\ place' \in [Workers -> 1 .. 6]
      BY <2>4
    <2>8. UNCHANGED <<sequenceStep, created, asleep>>
      BY <2>1
    <2> QED
      BY <2>3, <2>6, <2>7, <2>8
  <1> QED
    BY <1>1, <1>2, <1>3 DEF Worker

\* The steps of main and of the condition variable too.
LEMMA Lab22StepInv == Lab22IInv /\ [LockNext]_lockVars => Lab22IInv'
  <1> SUFFICES ASSUME Lab22IInv, [LockNext]_lockVars PROVE Lab22IInv'
    OBVIOUS
  <1>1. Lab22Next \/ UNCHANGED lab22Vars
    BY DEF LockNext, lockVars
  <1>2. CASE CreateWorker
    BY <1>2 DEF CreateWorker, Lab22IInv, First, Second, Workers
  <1>3. ASSUME NEW w \in Workers, Wakeup(w) PROVE Lab22IInv'
    BY <1>3 DEF Wakeup, Lab22IInv, First, Second, Workers
  <1>4. CASE UNCHANGED lab22Vars
    BY <1>4 DEF lab22Vars, Lab22IInv, First, Second
  <1>5. ASSUME NEW w \in Workers, Worker(w) PROVE Lab22IInv'
    BY <1>5, FirstWorker, SecondWorker DEF Workers
  <1> QED
    BY <1>1, <1>2, <1>3, <1>4, <1>5 DEF Lab22Next

\* Neither worker of Lab_22 ever gets its second mutex: each is at most at that lock.
NeitherGetsBoth ==
    /\ First <= 6 /\ Second <= 6
    /\ First = 6 /\ Second = 6 => Deadlocked

\* The inductive invariant of the two workers.
THEOREM Lab22Invariance == LockSpec => []Lab22IInv
  <1>1. LockInit => Lab22IInv
    BY DEF LockInit, Lab22Init, Lab22IInv, First, Second, Workers
  <1> QED
    BY <1>1, Lab22StepInv, PTL DEF LockSpec

\* The safety half of AlwaysDeadlocks ...
THEOREM Lab22NeverPasses == LockSpec => []NeitherGetsBoth
  <1>1. Lab22IInv => NeitherGetsBoth
    BY Calls DEF Lab22IInv, NeitherGetsBoth, Deadlocked, At, Arg, call, First, Second, Workers
  <1> QED
    BY <1>1, Lab22Invariance, PTL

\* ... and the circular wait, once there, is there for good.
THEOREM Lab22StaysDeadlocked == LockSpec => [][Deadlocked => Deadlocked']_lockVars
  <1>1. ASSUME Lab22IInv, Deadlocked, LockNext PROVE Deadlocked'
    <2>1. ASSUME NEW w \in Workers PROVE ~Worker(w)
      <3>1. /\ ~At(w, "wait") /\ ~At(w, "advance") /\ ~At(w, "unlock") /\ At(w, "lock")
            /\ mutexHolder[Arg(w)] # 0
        BY <1>1 DEF Deadlocked, At, Workers
      <3> QED
        BY <3>1 DEF Worker, wait_for_step, advance_to_step, UseMutex
    <2>2. ASSUME NEW w \in Workers PROVE ~Wakeup(w)
      BY <1>1 DEF Wakeup, Deadlocked, At, Workers
    <2>3. CASE CreateWorker
      BY <1>1, <2>3 DEF CreateWorker, Deadlocked, At, Arg, Lab22IInv
    <2>4. CASE UNCHANGED lab22Vars
      BY <1>1, <2>4 DEF lab22Vars, Deadlocked, At, Arg
    <2> QED
      BY <1>1, <2>1, <2>2, <2>3, <2>4 DEF LockNext, Lab22Next
  <1> QED
    BY <1>1, Lab22Invariance, PTL DEF LockSpec
=============================================================================
