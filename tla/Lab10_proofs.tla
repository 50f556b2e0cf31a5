---------------------------- MODULE Lab10_proofs ----------------------------
(***************************************************************************)
(* The safety properties of Lab10Semaphore, for every number of threads    *)
(* and of permits.                                                         *)
(***************************************************************************)
EXTENDS Lab10Semaphore, DataLemmas, FiniteSetTheorems

\* main has created the first threads and none of the others.
CreatedInOrder == \A t \in Threads : pc[t] = "unborn" <=> t >= created

\* Inductive: conservation needs the queue to keep a dequeued thread apart from
\* the critical ones, and CreatedInOrder to know that a new thread is not one.
IInv == TypeOK /\ CreatedInOrder /\ PermitsConserved /\ QueueIsWaiters /\ FrontWillWake

-----------------------------------------------------------------------------

LEMMA ThreadsFinite == IsFiniteSet(Threads)
  BY Lab10Assumption, FS_Interval DEF Threads

\* How the number of threads in the critical section follows pc.
LEMMA CriticalSame ==
    ASSUME \A t \in Threads : pc'[t] = "critical" <=> pc[t] = "critical"
    PROVE  Critical' = Critical
  BY DEF Critical

LEMMA CriticalEnter ==
    ASSUME NEW t \in Threads, pc[t] # "critical",
           pc \in [Threads -> PCs], pc' = [pc EXCEPT ![t] = "critical"]
    PROVE  /\ Cardinality(Critical') = Cardinality(Critical) + 1
           /\ Cardinality(Critical) \in Nat /\ t \in Critical'
  <1>1. Critical' = Critical \cup {t} /\ t \notin Critical
    BY DEF Critical
  <1>2. IsFiniteSet(Critical)
    BY ThreadsFinite, FS_Subset DEF Critical
  <1> QED
    BY <1>1, <1>2, FS_AddElement, FS_CardinalityType

LEMMA CriticalLeave ==
    ASSUME NEW t \in Threads, pc[t] = "critical",
           pc'[t] # "critical",
           \A u \in Threads \ {t} : pc'[u] = "critical" <=> pc[u] = "critical"
    PROVE  /\ Cardinality(Critical') = Cardinality(Critical) - 1
           /\ Cardinality(Critical') \in Nat
  <1>1. Critical' = Critical \ {t} /\ t \in Critical
    BY DEF Critical
  <1>2. IsFiniteSet(Critical) /\ IsFiniteSet(Critical')
    BY <1>1, ThreadsFinite, FS_Subset DEF Critical
  <1> QED
    BY <1>1, <1>2, FS_RemoveElement, FS_CardinalityType

-----------------------------------------------------------------------------

\* All permits are free and nobody is queued before main creates a thread.
LEMMA InitInv == Init => IInv
  <1> SUFFICES ASSUME Init PROVE IInv
    OBVIOUS
  <1> USE Lab10Assumption DEF Init
  <1>1. TypeOK
    <2>1. waitQueue \in Seq(Threads)
      BY EmptyQueue
    <2>2. value \in 0 .. SEMAPHORE_PERMITS /\ created \in 0 .. THREAD_COUNT
      OBVIOUS
    <2> QED
      BY <2>1, <2>2 DEF TypeOK, PCs
  <1>2. CreatedInOrder
    BY DEF CreatedInOrder, Threads
  <1>3. PermitsConserved
    <2>1. Critical = {}
      BY DEF Critical
    <2> QED
      BY <2>1, FS_EmptySet DEF PermitsConserved
  <1>4. QueueIsWaiters
    BY EmptyQueue DEF QueueIsWaiters, Waiting, InQueue
  <1>5. FrontWillWake
    BY DEF FrontWillWake
  <1> QED
    BY <1>1, <1>2, <1>3, <1>4, <1>5 DEF IInv

\* The front of a queue that is not empty is a waiting thread.
LEMMA FrontWaits ==
    ASSUME IInv, waitQueue # <<>>
    PROVE  Head(waitQueue) \in Threads /\ Waiting(Head(waitQueue))
  <1>1. Head(waitQueue) \in Threads /\ Holds(waitQueue, Head(waitQueue))
    BY Dequeue DEF IInv, TypeOK, QueueIsWaiters
  <1> QED
    BY <1>1 DEF IInv, QueueIsWaiters, InQueue

LEMMA CreateInv == IInv /\ CreateWorker => IInv'
  <1> SUFFICES ASSUME IInv, CreateWorker PROVE IInv'
    OBVIOUS
  <1> USE DEF IInv, TypeOK
  <1>1. /\ created \in Threads
        /\ pc[created] = "unborn"
        /\ pc' = [pc EXCEPT ![created] = "down"]
        /\ created' = created + 1
        /\ UNCHANGED <<value, waitQueue, joined>>
    BY Lab10Assumption DEF CreateWorker, CreatedInOrder, Threads
  <1>2. TypeOK'
    BY <1>1, Lab10Assumption DEF PCs, Threads
  <1>3. CreatedInOrder'
    BY <1>1 DEF CreatedInOrder, Threads
  <1>4. Critical' = Critical
    BY <1>1, CriticalSame
  <1>5. PermitsConserved'
    BY <1>1, <1>4 DEF PermitsConserved
  <1>6. QueueIsWaiters'
    BY <1>1 DEF QueueIsWaiters, Waiting, InQueue
  <1>7. FrontWillWake'
    BY <1>1, <1>4, FrontWaits DEF FrontWillWake, Waiting
  <1> QED
    BY <1>2, <1>3, <1>5, <1>6, <1>7

LEMMA DownAtOnceInv ==
    ASSUME NEW t \in Threads, IInv, DownAtOnce(t)
    PROVE  IInv'
  <1> USE DEF IInv, TypeOK
  <1>1. /\ pc[t] = "down" /\ value # 0 /\ value' = value - 1
        /\ pc' = [pc EXCEPT ![t] = "critical"]
        /\ UNCHANGED <<waitQueue, created, joined>>
    BY DEF DownAtOnce
  <1>2. /\ Cardinality(Critical') = Cardinality(Critical) + 1
        /\ Cardinality(Critical) \in Nat /\ t \in Critical'
    BY <1>1, CriticalEnter
  <1>3. TypeOK'
    BY <1>1, Lab10Assumption DEF PCs
  <1>4. CreatedInOrder' /\ QueueIsWaiters'
    BY <1>1 DEF CreatedInOrder, QueueIsWaiters, Waiting, InQueue
  <1>5. PermitsConserved' /\ FrontWillWake'
    BY <1>1, <1>2, Lab10Assumption DEF PermitsConserved, FrontWillWake
  <1> QED
    BY <1>3, <1>4, <1>5

LEMMA DownEnqueueInv ==
    ASSUME NEW t \in Threads, IInv, DownEnqueue(t)
    PROVE  IInv'
  <1> USE DEF IInv, TypeOK
  <1>1. /\ pc[t] = "down" /\ value = 0
        /\ waitQueue' = Append(waitQueue, t)
        /\ pc' = [pc EXCEPT ![t] = "asleep"]
        /\ UNCHANGED <<value, created, joined>>
    BY DEF DownEnqueue
  <1>2. ~Holds(waitQueue, t) /\ Distinct(waitQueue)
    BY <1>1 DEF QueueIsWaiters, Waiting, InQueue
  <1>3. /\ waitQueue' \in Seq(Threads)
        /\ \A u : Holds(waitQueue', u) <=> Holds(waitQueue, u) \/ u = t
        /\ Distinct(waitQueue')
    BY <1>1, <1>2, Enqueue
  <1>4. TypeOK'
    BY <1>1, <1>3 DEF PCs
  <1>5. CreatedInOrder' /\ QueueIsWaiters'
    BY <1>1, <1>3 DEF CreatedInOrder, QueueIsWaiters, Waiting, InQueue
  <1>6. Critical' = Critical
    BY <1>1, CriticalSame
  <1>7. PermitsConserved' /\ FrontWillWake'
    BY <1>1, <1>6 DEF PermitsConserved, FrontWillWake
  <1> QED
    BY <1>4, <1>5, <1>7

LEMMA DownLeaveInv ==
    ASSUME NEW t \in Threads, IInv, DownLeave(t)
    PROVE  IInv'
  <1> USE DEF IInv, TypeOK
  <1>1. /\ pc[t] = "woken" /\ value # 0 /\ value' = value - 1
        /\ Head(waitQueue) = t
        /\ waitQueue' = Tail(waitQueue)
        /\ pc' = [pc EXCEPT ![t] = "critical"]
        /\ UNCHANGED <<created, joined>>
    BY DEF DownLeave
  <1>2. waitQueue # <<>>
    BY <1>1, EmptyQueue DEF QueueIsWaiters, Waiting, InQueue
  <1>3. /\ waitQueue' \in Seq(Threads)
        /\ \A u : Holds(waitQueue', u) <=> Holds(waitQueue, u) /\ u # t
        /\ Distinct(waitQueue')
    BY <1>1, <1>2, Dequeue DEF QueueIsWaiters
  <1>4. /\ Cardinality(Critical') = Cardinality(Critical) + 1
        /\ Cardinality(Critical) \in Nat /\ t \in Critical'
    BY <1>1, CriticalEnter
  <1>5. TypeOK'
    BY <1>1, <1>3, Lab10Assumption DEF PCs
  <1>6. CreatedInOrder' /\ QueueIsWaiters'
    BY <1>1, <1>3 DEF CreatedInOrder, QueueIsWaiters, Waiting, InQueue
  <1>7. PermitsConserved' /\ FrontWillWake'
    BY <1>1, <1>4, Lab10Assumption DEF PermitsConserved, FrontWillWake
  <1> QED
    BY <1>5, <1>6, <1>7

\* Going back to sleep and waking up by chance only move a waiting thread
\* between the two ways of waiting.
LEMMA WaitingInv ==
    ASSUME NEW t \in Threads, IInv, DownSleepAgain(t) \/ SpuriousWakeup(t)
    PROVE  IInv'
  <1> USE DEF IInv, TypeOK
  <1>1. /\ pc[t] \in {"asleep", "woken"}
        /\ \/ pc' = [pc EXCEPT ![t] = "woken"]
           \/ pc' = [pc EXCEPT ![t] = "asleep"] /\ (value = 0 \/ Head(waitQueue) # t)
        /\ UNCHANGED <<value, waitQueue, created, joined>>
    BY DEF DownSleepAgain, SpuriousWakeup
  <1>2. TypeOK' /\ CreatedInOrder' /\ QueueIsWaiters'
    BY <1>1 DEF PCs, CreatedInOrder, QueueIsWaiters, Waiting, InQueue
  <1>3. Critical' = Critical
    BY <1>1, CriticalSame
  <1>4. PermitsConserved' /\ FrontWillWake'
    BY <1>1, <1>3 DEF PermitsConserved, FrontWillWake
  <1> QED
    BY <1>2, <1>4

LEMMA UpInv ==
    ASSUME NEW t \in Threads, IInv, Up(t)
    PROVE  IInv'
  <1> USE DEF IInv, TypeOK
  <1>1. /\ pc[t] = "critical" /\ value' = value + 1
        /\ pc' \in [Threads -> PCs] /\ pc'[t] = "done"
        /\ \A u \in Threads \ {t} :
              pc'[u] = IF waitQueue # <<>> /\ pc[u] = "asleep" THEN "woken" ELSE pc[u]
        /\ UNCHANGED <<waitQueue, created, joined>>
    BY DEF Up, PCs
  <1>2. /\ Cardinality(Critical') = Cardinality(Critical) - 1
        /\ Cardinality(Critical') \in Nat
    BY <1>1, CriticalLeave
  <1>3. IsFiniteSet(Critical) /\ Cardinality(Critical) \in Nat
    BY ThreadsFinite, FS_Subset, FS_CardinalityType DEF Critical
  <1>4. PermitsConserved'
    BY <1>1, <1>2, <1>3, Lab10Assumption DEF PermitsConserved
  <1>5. TypeOK'
    BY <1>1, <1>2, <1>4, Lab10Assumption DEF PermitsConserved
  <1>6. CreatedInOrder'
    BY <1>1 DEF CreatedInOrder
  <1>7. QueueIsWaiters'
    BY <1>1 DEF QueueIsWaiters, Waiting, InQueue
  <1>8. FrontWillWake'
    BY <1>1, FrontWaits DEF FrontWillWake, Waiting
  <1> QED
    BY <1>4, <1>5, <1>6, <1>7, <1>8

LEMMA IdleInv ==
    ASSUME IInv, UNCHANGED <<pc, value, waitQueue, created>>, joined' \in BOOLEAN
    PROVE  IInv'
  BY DEF IInv, TypeOK, CreatedInOrder, PermitsConserved, Critical, QueueIsWaiters, Waiting, InQueue,
         FrontWillWake

LEMMA StepInv == IInv /\ [Next]_vars => IInv'
  <1> SUFFICES ASSUME IInv, [Next]_vars PROVE IInv'
    OBVIOUS
  <1>1. CASE JoinAll \/ UNCHANGED vars
    <2>1. UNCHANGED <<pc, value, waitQueue, created>> /\ joined' \in BOOLEAN
      BY <1>1 DEF JoinAll, vars, IInv, TypeOK
    <2> QED
      BY <2>1, IdleInv
  <1>2. ASSUME NEW t \in Threads, Worker(t) \/ SpuriousWakeup(t) PROVE IInv'
    BY <1>2, DownAtOnceInv, DownEnqueueInv, DownLeaveInv, WaitingInv, UpInv DEF Worker
  <1> QED
    BY <1>1, <1>2, CreateInv DEF Next, Terminated

\* Every reachable state satisfies the inductive invariant, its type invariant
\* included.
THEOREM Invariance == Spec => []IInv
  <1> QED
    BY InitInv, StepInv, PTL DEF Spec

\* No interleaving loses or invents a permit.
THEOREM Conservation == Spec => []PermitsConserved
  <1>1. IInv => PermitsConserved
    BY DEF IInv
  <1> QED
    BY <1>1, Invariance, PTL

\* With one permit that is mutual exclusion.
THEOREM MutualExclusion ==
    ASSUME SEMAPHORE_PERMITS = 1
    PROVE  Spec => [](\A t, u \in Critical : t = u)
  <1>1. ASSUME IInv PROVE \A t, u \in Critical : t = u
    <2>1. IsFiniteSet(Critical)
      BY ThreadsFinite, FS_Subset DEF Critical
    <2>2. Cardinality(Critical) \in {0, 1}
      BY <1>1, <2>1, FS_CardinalityType DEF IInv, TypeOK, PermitsConserved
    <2>3. Critical = {} \/ \E x : Critical = {x}
      BY <2>1, <2>2, FS_EmptySet, FS_Singleton
    <2> QED
      BY <2>3
  <1>2. IInv => \A t, u \in Critical : t = u
    BY <1>1
  <1> QED
    BY <1>2, Invariance, PTL

\* The queue's entries and the threads in Down's loop correspond one to one.
THEOREM QueueMatchesWaiters == Spec => []QueueIsWaiters
  <1>1. IInv => QueueIsWaiters
    BY DEF IInv
  <1> QED
    BY <1>1, Invariance, PTL

\* No wakeup is lost, for any number of permits.
THEOREM NoLostWakeup == Spec => []FrontWillWake
  <1>1. IInv => FrontWillWake
    BY DEF IInv
  <1> QED
    BY <1>1, Invariance, PTL

\* Queued threads are served in the order they queued.
THEOREM ServedInOrder == Spec => QueuedInOrder
  <1> DEFINE Step ==
        \A t \in Threads :
          InQueue(t) /\ pc'[t] = "critical" => t = Head(waitQueue) /\ waitQueue' = Tail(waitQueue)
  <1>1. ASSUME IInv, [Next]_vars PROVE Step
    <2> SUFFICES ASSUME NEW t \in Threads, InQueue(t), pc'[t] = "critical"
                 PROVE  t = Head(waitQueue) /\ waitQueue' = Tail(waitQueue)
      OBVIOUS
    <2>1. pc[t] \in {"asleep", "woken"}
      BY <1>1 DEF IInv, QueueIsWaiters, Waiting
    <2>2. ~(CreateWorker \/ JoinAll \/ UNCHANGED vars)
      BY <1>1, <2>1 DEF CreateWorker, JoinAll, vars, IInv, TypeOK
    <2>3. ASSUME NEW u \in Threads, Worker(u) \/ SpuriousWakeup(u)
          PROVE  t = Head(waitQueue) /\ waitQueue' = Tail(waitQueue)
      BY <1>1, <2>1, <2>3
         DEF Worker, SpuriousWakeup, DownAtOnce, DownEnqueue, DownLeave, DownSleepAgain, Up, IInv, TypeOK
    <2> QED
      BY <1>1, <2>2, <2>3 DEF Next, Terminated
  <1>2. IInv /\ [Next]_vars => [Step]_vars
    BY <1>1
  <1> QED
    BY <1>2, Invariance, PTL DEF Spec, QueuedInOrder
=============================================================================
