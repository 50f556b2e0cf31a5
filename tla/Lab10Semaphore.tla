--------------------------- MODULE Lab10Semaphore ---------------------------
(***************************************************************************)
(* The counting semaphore of Lab_10 and the worker threads of lab10.cpp:   *)
(* main creates the workers one after another, each calls Down once, works *)
(* in its critical section and calls Up once, and main joins them all.     *)
(*                                                                         *)
(* Every access to value_ and waitQueue_ is made under lock_, so a step is *)
(* one stretch of code from taking lock_ to giving it back, in unlock or   *)
(* in pthread_cond_wait.  A thread inside pthread_cond_wait is "asleep"    *)
(* until a broadcast or a spurious wakeup makes it "woken": it then still  *)
(* has to get lock_ back, in competition with the others, and rechecks.    *)
(***************************************************************************)
EXTENDS FifoQueue, FiniteSets

CONSTANTS
    THREAD_COUNT,
    SEMAPHORE_PERMITS

ASSUME Lab10Assumption ==
    /\ THREAD_COUNT \in Nat \ {0}
    /\ SEMAPHORE_PERMITS \in Nat

VARIABLES
    pc,         \* where each worker is
    value,      \* value_
    waitQueue,  \* waitQueue_
    created,    \* workers main has created so far
    joined      \* has main joined all workers and left?

vars == <<pc, value, waitQueue, created, joined>>

Threads == 0 .. THREAD_COUNT - 1

PCs == {"unborn", "down", "asleep", "woken", "critical", "done"}

Critical == {t \in Threads : pc[t] = "critical"}
Waiting(t) == pc[t] \in {"asleep", "woken"}
InQueue(t) == Holds(waitQueue, t)

TypeOK ==
    /\ pc \in [Threads -> PCs]
    /\ value \in 0 .. SEMAPHORE_PERMITS
    /\ waitQueue \in Seq(Threads)
    /\ created \in 0 .. THREAD_COUNT
    /\ joined \in BOOLEAN

Init ==
    /\ pc = [t \in Threads |-> "unborn"]
    /\ value = SEMAPHORE_PERMITS
    /\ waitQueue = <<>>
    /\ created = 0
    /\ joined = FALSE

-----------------------------------------------------------------------------

\* main's loop around pthread_create, when no creation fails.
CreateWorker ==
    /\ created < THREAD_COUNT
    /\ pc' = [pc EXCEPT ![created] = "down"]
    /\ created' = created + 1
    /\ UNCHANGED <<value, waitQueue, joined>>

JoinAll ==
    /\ created = THREAD_COUNT
    /\ \A t \in Threads : pc[t] = "done"
    /\ joined' = TRUE
    /\ UNCHANGED <<pc, value, waitQueue, created>>

\* Down() with a permit to spare: the wait queue is not looked at.
DownAtOnce(t) ==
    /\ pc[t] = "down"
    /\ value # 0
    /\ value' = value - 1
    /\ pc' = [pc EXCEPT ![t] = "critical"]
    /\ UNCHANGED <<waitQueue, created, joined>>

\* Down() without one: join the queue, find value_ still 0, and sleep.
DownEnqueue(t) ==
    /\ pc[t] = "down"
    /\ value = 0
    /\ waitQueue' = Append(waitQueue, t)
    /\ pc' = [pc EXCEPT ![t] = "asleep"]
    /\ UNCHANGED <<value, created, joined>>

\* (Bug) leaves the wait loop as soon as there is a permit, front or not.
Bug_NotOnlyFront(t) ==
    /\ pc[t] = "woken"
    /\ value # 0
    /\ waitQueue' = SelectSeq(waitQueue, LAMBDA u : u # t)
    /\ value' = value - 1
    /\ pc' = [pc EXCEPT ![t] = "critical"]
    /\ UNCHANGED <<created, joined>>

\* (Bug) leaves the queue without taking the permit.
Bug_PermitNotTaken(t) ==
    /\ pc[t] = "woken"
    /\ value # 0 /\ Head(waitQueue) = t
    /\ waitQueue' = Tail(waitQueue)
    /\ pc' = [pc EXCEPT ![t] = "critical"]
    /\ UNCHANGED <<value, created, joined>>

\* (Bug) takes the permit without leaving the queue.
Bug_NotDequeued(t) ==
    /\ pc[t] = "woken"
    /\ value # 0 /\ Head(waitQueue) = t
    /\ value' = value - 1
    /\ pc' = [pc EXCEPT ![t] = "critical"]
    /\ UNCHANGED <<waitQueue, created, joined>>

\* The wait loop is left only by the front of the queue with a permit there.
DownLeave(t) ==
    /\ pc[t] = "woken"
    /\ value # 0 /\ Head(waitQueue) = t
    /\ waitQueue' = Tail(waitQueue)
    /\ value' = value - 1
    /\ pc' = [pc EXCEPT ![t] = "critical"]
    /\ UNCHANGED <<created, joined>>

\* Any other woken thread waits again.
DownSleepAgain(t) ==
    /\ pc[t] = "woken"
    /\ value = 0 \/ Head(waitQueue) # t
    /\ pc' = [pc EXCEPT ![t] = "asleep"]
    /\ UNCHANGED <<value, waitQueue, created, joined>>

\* pthread_cond_wait may return without any broadcast.
SpuriousWakeup(t) ==
    /\ pc[t] = "asleep"
    /\ pc' = [pc EXCEPT ![t] = "woken"]
    /\ UNCHANGED <<value, waitQueue, created, joined>>

\* (Bug) signals one sleeping thread, any one, in place of a broadcast.
Bug_SignalOne(t) ==
    LET sleepers == {u \in Threads : pc[u] = "asleep"} IN
    /\ pc[t] = "critical"
    /\ value' = value + 1
    /\ \/ /\ sleepers = {}
          /\ pc' = [pc EXCEPT ![t] = "done"]
       \/ \E u \in sleepers : pc' = [pc EXCEPT ![t] = "done", ![u] = "woken"]
    /\ UNCHANGED <<waitQueue, created, joined>>

\* Up() broadcasts iff somebody is queued; only queued threads can be asleep.
Up(t) ==
    /\ pc[t] = "critical"
    /\ value' = value + 1
    /\ pc' = [u \in Threads |->
                 IF u = t THEN "done"
                 ELSE IF waitQueue # <<>> /\ pc[u] = "asleep" THEN "woken"
                 ELSE pc[u]]
    /\ UNCHANGED <<waitQueue, created, joined>>

Worker(t) ==
    \/ DownAtOnce(t)
    \/ DownEnqueue(t)
    \/ DownLeave(t)
    \/ DownSleepAgain(t)
    \/ Up(t)

Terminated == joined /\ UNCHANGED vars

Next ==
    \/ CreateWorker
    \/ JoinAll
    \/ \E t \in Threads : Worker(t) \/ SpuriousWakeup(t)
    \/ Terminated

Spec == Init /\ [][Next]_vars

\* Each thread that can get on does: the kernel schedules every runnable thread
\* and lock_ is held for finitely long.  Nothing is assumed of spurious wakeups.
Fairness ==
    /\ WF_vars(CreateWorker)
    /\ WF_vars(JoinAll)
    /\ \A t \in Threads : WF_vars(Worker(t))

FairSpec == Spec /\ Fairness

-----------------------------------------------------------------------------

\* No permit is lost or invented by any interleaving of Down, Up, wakeups and
\* overtaking: at most SEMAPHORE_PERMITS workers are in the critical section.
PermitsConserved == value + Cardinality(Critical) = SEMAPHORE_PERMITS

\* The queue holds exactly the threads inside Down's wait loop, each once, so
\* Front() and De_Q() are never called on an empty queue (queue.h throws then).
QueueIsWaiters ==
    /\ \A t \in Threads : Waiting(t) <=> InQueue(t)
    /\ Distinct(waitQueue)

\* No lost wakeup: with a permit free and threads queued, the first of them is
\* awake, or a thread that holds a permit has yet to call Up and will broadcast.
\* With one permit a free permit means an empty critical section, so the front is
\* awake; with two or more it may sleep beside a free permit until the next Up,
\* since leaving Down's wait loop wakes nobody.
FrontWillWake ==
    value > 0 /\ waitQueue # <<>> =>
        \/ pc[Head(waitQueue)] = "woken"
        \/ Critical # {}

\* Queued threads get their permits in the order they queued, whoever wakes
\* first: only the front goes from the queue to the critical section.
QueuedInOrder ==
    [][\A t \in Threads :
          InQueue(t) /\ pc'[t] = "critical" =>
              t = Head(waitQueue) /\ waitQueue' = Tail(waitQueue)]_vars

\* Every worker gets through and main joins them all: overtaking by late workers
\* and threads woken in the wrong order never block the others for good.
AllJoined == <>joined
=============================================================================
