------------------------- MODULE Lab11BoundedBuffer -------------------------
(***************************************************************************)
(* The bounded buffer of Lab_11 (lab11.cpp): a ring of BUFFER_SIZE slots   *)
(* between a producer and a consumer thread, one mutex, and the condition  *)
(* variables not_full and not_empty.                                       *)
(*                                                                         *)
(* The ring is only touched under buffer_mutex, so a step is a stretch of  *)
(* code from taking the mutex to giving it back, in unlock or in           *)
(* pthread_cond_wait.  The producer waits on not_full only and the         *)
(* consumer on not_empty only.                                             *)
(***************************************************************************)
EXTENDS Integers, Sequences

CONSTANTS
    BUFFER_SIZE,
    PRODUCE_COUNT

ASSUME Lab11Assumption ==
    /\ BUFFER_SIZE \in Nat \ {0}
    /\ PRODUCE_COUNT \in Nat \ {0}

VARIABLES
    buffer, in, out, count,   \* the ring
    producer, consumer,       \* where each thread is
    item,                     \* the producer's loop variable
    iteration,                \* the consumer's loop variable
    consumed,                 \* history: the items the consumer read, in order
    main                      \* where main is

ring == <<buffer, in, out, count>>
vars11 == <<buffer, in, out, count, producer, consumer, item, iteration, consumed, main>>

Slots == 0 .. BUFFER_SIZE - 1

\* unborn: not created yet; lock: about to take the mutex at the top of an
\* iteration; asleep: inside pthread_cond_wait; woken: about to take the mutex
\* again and recheck; io: in simulate_IO_work, after the unlock.
PCs11 == {"unborn", "lock", "asleep", "woken", "io", "done"}
Active(p) == p \in {"lock", "woken"}

TypeOK11 ==
    /\ buffer \in [Slots -> 0 .. PRODUCE_COUNT]
    /\ in \in Slots
    /\ out \in Slots
    /\ count \in 0 .. BUFFER_SIZE
    /\ producer \in PCs11
    /\ consumer \in PCs11
    /\ item \in 0 .. PRODUCE_COUNT
    /\ iteration \in 0 .. PRODUCE_COUNT
    /\ consumed \in Seq(0 .. PRODUCE_COUNT)
    /\ main \in {"create_producer", "create_consumer", "join", "destroyed"}

Init11 ==
    /\ buffer = [s \in Slots |-> 0]
    /\ in = 0
    /\ out = 0
    /\ count = 0
    /\ producer = "unborn"
    /\ consumer = "unborn"
    /\ item = 0
    /\ iteration = 0
    /\ consumed = <<>>
    /\ main = "create_producer"

-----------------------------------------------------------------------------

\* main, when no pthread call fails.
CreateProducer ==
    /\ main = "create_producer"
    /\ producer' = "lock"
    /\ main' = "create_consumer"
    /\ UNCHANGED <<ring, consumer, item, iteration, consumed>>

CreateConsumer ==
    /\ main = "create_consumer"
    /\ consumer' = "lock"
    /\ main' = "join"
    /\ UNCHANGED <<ring, producer, item, iteration, consumed>>

JoinAndDestroy11 ==
    /\ main = "join"
    /\ producer = "done"
    /\ consumer = "done"
    /\ main' = "destroyed"
    /\ UNCHANGED <<ring, producer, consumer, item, iteration, consumed>>

\* pthread_cond_signal: wakes the thread if it sleeps on that condition.
Signalled(p) == IF p = "asleep" THEN "woken" ELSE p

\* A loop of PRODUCE_COUNT iterations, after the one whose number was i.
AfterIteration(i) == IF i < PRODUCE_COUNT THEN "lock" ELSE "done"

ProducerWait ==
    /\ Active(producer)
    /\ count = BUFFER_SIZE
    /\ producer' = "asleep"
    /\ UNCHANGED <<ring, consumer, item, iteration, consumed, main>>

\* (Bug) the wait is guarded with an if: a woken producer inserts unconditionally.
Bug_ProduceIf ==
    /\ Active(producer)
    /\ producer = "lock" => count # BUFFER_SIZE
    /\ buffer' = [buffer EXCEPT ![in] = item]
    /\ in' = (in + 1) % BUFFER_SIZE
    /\ count' = count + 1
    /\ item' = item + 1
    /\ producer' = "io"
    /\ consumer' = Signalled(consumer)
    /\ UNCHANGED <<out, iteration, consumed, main>>

Produce ==
    /\ Active(producer)
    /\ count # BUFFER_SIZE
    /\ buffer' = [buffer EXCEPT ![in] = item]
    /\ in' = (in + 1) % BUFFER_SIZE
    /\ count' = count + 1
    /\ item' = item + 1
    /\ producer' = "io"
    /\ consumer' = Signalled(consumer)
    /\ UNCHANGED <<out, iteration, consumed, main>>

ProducerIODone ==
    /\ producer = "io"
    /\ producer' = AfterIteration(item)
    /\ UNCHANGED <<ring, consumer, item, iteration, consumed, main>>

ConsumerWait ==
    /\ Active(consumer)
    /\ count = 0
    /\ consumer' = "asleep"
    /\ UNCHANGED <<ring, producer, item, iteration, consumed, main>>

\* (Bug) the consumer does not signal not_full.
Bug_ConsumeNoSignal ==
    /\ Active(consumer)
    /\ count # 0
    /\ consumed' = Append(consumed, buffer[out])
    /\ out' = (out + 1) % BUFFER_SIZE
    /\ count' = count - 1
    /\ iteration' = iteration + 1
    /\ consumer' = "io"
    /\ UNCHANGED <<buffer, in, producer, item, main>>

Consume ==
    /\ Active(consumer)
    /\ count # 0
    /\ consumed' = Append(consumed, buffer[out])
    /\ out' = (out + 1) % BUFFER_SIZE
    /\ count' = count - 1
    /\ iteration' = iteration + 1
    /\ consumer' = "io"
    /\ producer' = Signalled(producer)
    /\ UNCHANGED <<buffer, in, item, main>>

ConsumerIODone ==
    /\ consumer = "io"
    /\ consumer' = AfterIteration(iteration)
    /\ UNCHANGED <<ring, producer, item, iteration, consumed, main>>

SpuriousWakeup11 ==
    \/ /\ producer = "asleep"
       /\ producer' = "woken"
       /\ UNCHANGED <<ring, consumer, item, iteration, consumed, main>>
    \/ /\ consumer = "asleep"
       /\ consumer' = "woken"
       /\ UNCHANGED <<ring, producer, item, iteration, consumed, main>>

ProducerStep == ProducerWait \/ Produce \/ ProducerIODone
ConsumerStep == ConsumerWait \/ Consume \/ ConsumerIODone
MainStep11 == CreateProducer \/ CreateConsumer \/ JoinAndDestroy11

Terminated11 == main = "destroyed" /\ UNCHANGED vars11

Next11 == ProducerStep \/ ConsumerStep \/ MainStep11 \/ SpuriousWakeup11 \/ Terminated11

Spec11 == Init11 /\ [][Next11]_vars11

\* A runnable thread is scheduled and gets the mutex; spurious wakeups need not come.
FairSpec11 == Spec11 /\ WF_vars11(ProducerStep) /\ WF_vars11(ConsumerStep) /\ WF_vars11(MainStep11)

-----------------------------------------------------------------------------

\* What bufferItemsLocked() lists: the count items from slot out on.
bufferItems == [i \in 1 .. count |-> buffer[(out + i - 1) % BUFFER_SIZE]]

Channel == INSTANCE FifoChannel WITH
    Capacity <- BUFFER_SIZE, Total <- PRODUCE_COUNT,
    pending <- bufferItems, sent <- item, delivered <- consumed

\* The ring, its indices and the two threads implement a FIFO channel: nothing
\* lost, repeated, reordered or overwritten, and neither side is held up for ever.
ImplementsChannel == Channel!Spec

\* The run ends: both threads finish all their iterations and main destroys the
\* mutex and the conditions, which nobody uses any more.
EventuallyDestroyed == <>(main = "destroyed")
=============================================================================
