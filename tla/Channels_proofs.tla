--------------------------- MODULE Channels_proofs --------------------------
(***************************************************************************)
(* The safety of both channels: that the ring of Lab_11 implements a FIFO  *)
(* channel, and that the mailboxes of Lab_21 keep their promises, for any  *)
(* size of the ring and any numbers of items, messages and reads.          *)
(***************************************************************************)
EXTENDS Lab11BoundedBuffer, Lab21Mailboxes, SequenceTheorems, TLAPS

-----------------------------------------------------------------------------
(* Lab_11 *)

\* A thread that is in an iteration, or not yet created, has not done all of them.
InLoop11 ==
    /\ producer = "unborn" <=> main = "create_producer"
    /\ consumer = "unborn" <=> main \in {"create_producer", "create_consumer"}
    /\ producer \notin {"io", "done"} => item < PRODUCE_COUNT
    /\ consumer \notin {"io", "done"} => iteration < PRODUCE_COUNT

\* The slots between out and in, going round, are the count full ones.
RingAgrees == in = (out + count) % BUFFER_SIZE

\* The ring holds the items produced and not yet consumed, in order.
Contents ==
    /\ item = iteration + count
    /\ \A k \in 1 .. count : buffer[(out + k - 1) % BUFFER_SIZE] = iteration + k - 1

\* The consumer has read the items 0, 1, 2, ..., each once and in the order produced.
ReceivedInOrder ==
    /\ Len(consumed) = iteration
    /\ \A k \in 1 .. iteration : consumed[k] = k - 1

IInv11 == TypeOK11 /\ InLoop11 /\ RingAgrees /\ Contents /\ ReceivedInOrder

-----------------------------------------------------------------------------
(* The ring. *)

\* Going round the ring from a slot, by no more than its length.
LEMMA GoingRound ==
    ASSUME NEW s \in Slots, NEW k \in 0 .. BUFFER_SIZE
    PROVE  (s + k) % BUFFER_SIZE = IF s + k < BUFFER_SIZE THEN s + k ELSE s + k - BUFFER_SIZE
  <1>1. ASSUME NEW x \in Nat, x < BUFFER_SIZE
        PROVE  x % BUFFER_SIZE = x /\ (x + BUFFER_SIZE) % BUFFER_SIZE = x
    BY <1>1, Lab11Assumption
  <1>2. CASE s + k < BUFFER_SIZE
    BY <1>1, <1>2, Lab11Assumption DEF Slots
  <1>3. CASE s + k >= BUFFER_SIZE
    <2>1. s + k - BUFFER_SIZE \in Nat /\ s + k - BUFFER_SIZE < BUFFER_SIZE
      BY <1>3, Lab11Assumption DEF Slots
    <2>2. (s + k - BUFFER_SIZE) + BUFFER_SIZE = s + k
      BY Lab11Assumption DEF Slots
    <2>3. (s + k) % BUFFER_SIZE = s + k - BUFFER_SIZE
      BY <1>1, <2>1, <2>2
    <2> QED
      BY <1>3, <2>3, Lab11Assumption DEF Slots
  <1> QED
    BY <1>2, <1>3, Lab11Assumption DEF Slots

\* Every place in the ring is a slot.
LEMMA InRing ==
    ASSUME NEW s \in Slots, NEW k \in 0 .. BUFFER_SIZE
    PROVE  (s + k) % BUFFER_SIZE \in Slots
  BY GoingRound, Lab11Assumption DEF Slots

\* The first place from a slot is the slot.
LEMMA FirstPlace ==
    ASSUME NEW s \in Slots PROVE (s + 1 - 1) % BUFFER_SIZE = s
  <1>1. 0 \in 0 .. BUFFER_SIZE
    BY Lab11Assumption
  <1>2. (s + 0) % BUFFER_SIZE = IF s + 0 < BUFFER_SIZE THEN s + 0 ELSE s + 0 - BUFFER_SIZE
    BY <1>1, GoingRound
  <1>3. s + 0 = s /\ s + 1 - 1 = s /\ s < BUFFER_SIZE
    BY Lab11Assumption DEF Slots
  <1> QED
    BY <1>2, <1>3

\* A slot counted from the one after s is one further on counted from s.
LEMMA OneFurther ==
    ASSUME NEW s \in Slots, NEW k \in 1 .. BUFFER_SIZE
    PROVE  /\ (s + 1) % BUFFER_SIZE \in Slots
           /\ (((s + 1) % BUFFER_SIZE) + (k - 1)) % BUFFER_SIZE = (s + k) % BUFFER_SIZE
  <1> DEFINE r == (s + 1) % BUFFER_SIZE
  <1>1. 1 \in 0 .. BUFFER_SIZE /\ k \in 0 .. BUFFER_SIZE /\ k - 1 \in 0 .. BUFFER_SIZE
    BY Lab11Assumption
  <1>2. r = IF s + 1 < BUFFER_SIZE THEN s + 1 ELSE s + 1 - BUFFER_SIZE
    BY <1>1, GoingRound
  <1>3. r \in Slots
    BY <1>2, Lab11Assumption DEF Slots
  <1> HIDE DEF r
  <1>4. (r + (k - 1)) % BUFFER_SIZE = IF r + (k - 1) < BUFFER_SIZE THEN r + (k - 1) ELSE r + (k - 1) - BUFFER_SIZE
    BY <1>1, <1>3, GoingRound
  <1>5. (s + k) % BUFFER_SIZE = IF s + k < BUFFER_SIZE THEN s + k ELSE s + k - BUFFER_SIZE
    BY <1>1, GoingRound
  <1>6. (r + (k - 1)) % BUFFER_SIZE = (s + k) % BUFFER_SIZE
    BY <1>2, <1>4, <1>5, Lab11Assumption DEF Slots
  <1> QED
    BY <1>3, <1>6 DEF r

\* One place further on is the next slot.
LEMMA NextPlace ==
    ASSUME NEW s \in Slots, NEW n \in 0 .. BUFFER_SIZE - 1
    PROVE  (s + (n + 1)) % BUFFER_SIZE = (((s + n) % BUFFER_SIZE) + 1) % BUFFER_SIZE
  <1> DEFINE r == (s + n) % BUFFER_SIZE
  <1>1. n \in 0 .. BUFFER_SIZE /\ n + 1 \in 0 .. BUFFER_SIZE /\ 1 \in 0 .. BUFFER_SIZE
    BY Lab11Assumption
  <1>2. r = IF s + n < BUFFER_SIZE THEN s + n ELSE s + n - BUFFER_SIZE
    BY <1>1, GoingRound
  <1>3. r \in Slots
    BY <1>1, InRing
  <1> HIDE DEF r
  <1>4. (s + (n + 1)) % BUFFER_SIZE =
            IF s + (n + 1) < BUFFER_SIZE THEN s + (n + 1) ELSE s + (n + 1) - BUFFER_SIZE
    BY <1>1, GoingRound
  <1>5. (r + 1) % BUFFER_SIZE = IF r + 1 < BUFFER_SIZE THEN r + 1 ELSE r + 1 - BUFFER_SIZE
    BY <1>1, <1>3, GoingRound
  <1>6. (s + (n + 1)) % BUFFER_SIZE = (r + 1) % BUFFER_SIZE
    BY <1>2, <1>4, <1>5, Lab11Assumption DEF Slots
  <1> QED
    BY <1>6 DEF r

\* Two places less than a round apart are two slots.
LEMMA OtherSlot ==
    ASSUME NEW s \in Slots, NEW n \in 0 .. BUFFER_SIZE - 1, NEW k \in 0 .. n - 1
    PROVE  (s + k) % BUFFER_SIZE # (s + n) % BUFFER_SIZE
  <1>1. n \in 0 .. BUFFER_SIZE /\ k \in 0 .. BUFFER_SIZE
    BY Lab11Assumption
  <1>2. (s + k) % BUFFER_SIZE = IF s + k < BUFFER_SIZE THEN s + k ELSE s + k - BUFFER_SIZE
    BY <1>1, GoingRound
  <1>3. (s + n) % BUFFER_SIZE = IF s + n < BUFFER_SIZE THEN s + n ELSE s + n - BUFFER_SIZE
    BY <1>1, GoingRound
  <1> QED
    BY <1>1, <1>2, <1>3, Lab11Assumption DEF Slots

-----------------------------------------------------------------------------
(* The invariant. *)

LEMMA InitInv11 == Init11 => IInv11
  <1> SUFFICES ASSUME Init11 PROVE IInv11
    OBVIOUS
  <1>1. TypeOK11
    BY Lab11Assumption DEF Init11, TypeOK11, PCs11, Slots
  <1>2. InLoop11 /\ Contents
    BY Lab11Assumption DEF Init11, InLoop11, Contents
  <1>3. RingAgrees
    <2>1. 0 \in Slots /\ 0 \in 0 .. BUFFER_SIZE
      BY Lab11Assumption DEF Slots
    <2> QED
      BY <2>1, GoingRound, Lab11Assumption DEF Init11, RingAgrees
  <1>4. ReceivedInOrder
    BY EmptySeq DEF Init11, ReceivedInOrder
  <1> QED
    BY <1>1, <1>2, <1>3, <1>4 DEF IInv11

\* The item goes into the first free slot and overwrites no full one.
LEMMA ProduceInv ==
    ASSUME IInv11, Produce PROVE IInv11'
  <1>1. count \in 0 .. BUFFER_SIZE - 1 /\ out \in Slots /\ in \in Slots /\ item \in 0 .. PRODUCE_COUNT - 1
    BY Lab11Assumption DEF IInv11, TypeOK11, InLoop11, Produce, Active
  <1>2. (in + 1) % BUFFER_SIZE \in Slots
    BY <1>1, InRing, Lab11Assumption
  <1>3. TypeOK11'
    BY <1>1, <1>2, Lab11Assumption DEF IInv11, TypeOK11, Produce, Signalled, PCs11
  <1>4. InLoop11'
    BY <1>1 DEF IInv11, TypeOK11, InLoop11, Produce, Signalled, Active
  <1>5. RingAgrees'
    <2>1. (out + (count + 1)) % BUFFER_SIZE = (((out + count) % BUFFER_SIZE) + 1) % BUFFER_SIZE
      BY <1>1, NextPlace
    <2> QED
      BY <2>1 DEF IInv11, RingAgrees, Produce
  <1>6. Contents'
    <2>1. ASSUME NEW k \in 1 .. count PROVE buffer'[(out + k - 1) % BUFFER_SIZE] = iteration + k - 1
      <3>1. (out + (k - 1)) % BUFFER_SIZE # in /\ (out + (k - 1)) % BUFFER_SIZE \in Slots
        <4>1. k - 1 \in 0 .. count - 1 /\ k - 1 \in 0 .. BUFFER_SIZE
          BY <1>1, Lab11Assumption
        <4>2. (out + (k - 1)) % BUFFER_SIZE # (out + count) % BUFFER_SIZE
          BY <1>1, <4>1, OtherSlot
        <4> QED
          BY <1>1, <4>1, <4>2, InRing DEF IInv11, RingAgrees
      <3>2. out + k - 1 = out + (k - 1)
        BY <1>1 DEF Slots
      <3>3. buffer'[(out + k - 1) % BUFFER_SIZE] = buffer[(out + k - 1) % BUFFER_SIZE]
        BY <3>1, <3>2 DEF IInv11, TypeOK11, Produce
      <3> QED
        BY <3>3 DEF IInv11, Contents
    <2>2. buffer'[(out + (count + 1) - 1) % BUFFER_SIZE] = iteration + (count + 1) - 1
      <3>1. out + (count + 1) - 1 = out + count
        BY <1>1 DEF Slots
      <3>2. buffer'[(out + count) % BUFFER_SIZE] = item
        BY <1>1 DEF IInv11, TypeOK11, RingAgrees, Produce
      <3>3. item = iteration + count /\ iteration \in Nat
        BY DEF IInv11, TypeOK11, Contents
      <3> QED
        BY <1>1, <3>1, <3>2, <3>3
    <2>3. item' = iteration' + count'
      BY <1>1 DEF IInv11, TypeOK11, Contents, Produce
    <2>4. UNCHANGED <<out, iteration>> /\ count' = count + 1
      BY DEF Produce
    <2>5. \A k \in 1 .. count + 1 : k \in 1 .. count \/ k = count + 1
      BY <1>1
    <2> QED
      BY <2>1, <2>2, <2>3, <2>4, <2>5 DEF Contents
  <1>7. ReceivedInOrder'
    BY DEF IInv11, ReceivedInOrder, Produce
  <1> QED
    BY <1>3, <1>4, <1>5, <1>6, <1>7 DEF IInv11

\* The item comes out of the first full slot.
LEMMA ConsumeInv ==
    ASSUME IInv11, Consume PROVE IInv11'
  <1>1. /\ count \in 1 .. BUFFER_SIZE /\ out \in Slots
        /\ iteration \in 0 .. PRODUCE_COUNT - 1 /\ consumed \in Seq(0 .. PRODUCE_COUNT)
    BY Lab11Assumption DEF IInv11, TypeOK11, InLoop11, Consume, Active
  <1>2. (out + 1) % BUFFER_SIZE \in Slots
    BY <1>1, InRing, Lab11Assumption
  <1>3. buffer[out] \in 0 .. PRODUCE_COUNT
    BY <1>1 DEF IInv11, TypeOK11
  <1>4. /\ consumed' \in Seq(0 .. PRODUCE_COUNT)
        /\ Len(consumed') = Len(consumed) + 1
        /\ \A k \in 1 .. Len(consumed) : consumed'[k] = consumed[k]
        /\ consumed'[Len(consumed) + 1] = buffer[out]
    BY <1>1, <1>3, AppendProperties DEF Consume
  <1>5. TypeOK11'
    BY <1>1, <1>2, <1>4, Lab11Assumption DEF IInv11, TypeOK11, Consume, Signalled, PCs11
  <1>6. InLoop11'
    BY <1>1 DEF IInv11, TypeOK11, InLoop11, Consume, Signalled, Active
  <1>7. ASSUME NEW k \in 1 .. BUFFER_SIZE
        PROVE  (out' + (k - 1)) % BUFFER_SIZE = (out + k) % BUFFER_SIZE
    BY <1>1, OneFurther DEF Consume
  <1>8. RingAgrees'
    BY <1>1, <1>7 DEF IInv11, RingAgrees, Consume
  <1>9. Contents'
    <2>1. ASSUME NEW k \in 1 .. count - 1
          PROVE  buffer[(out' + k - 1) % BUFFER_SIZE] = (iteration + 1) + k - 1
      <3>1. (out' + (k - 1)) % BUFFER_SIZE = (out + k) % BUFFER_SIZE
        <4>1. k \in 1 .. BUFFER_SIZE
          BY <1>1, Lab11Assumption
        <4> QED
          BY <4>1, <1>7
      <3>2. out' + (k - 1) = out' + k - 1 /\ out + k = out + (k + 1) - 1
        BY <1>1, <1>5 DEF TypeOK11, Slots
      <3>3. k + 1 \in 1 .. count
        BY <1>1
      <3>4. buffer[(out + (k + 1) - 1) % BUFFER_SIZE] = iteration + (k + 1) - 1
        BY <3>3 DEF IInv11, Contents
      <3> QED
        BY <1>1, <3>1, <3>2, <3>4
    <2>2. item' = iteration' + count'
      BY <1>1 DEF IInv11, TypeOK11, Contents, Consume
    <2> QED
      BY <2>1, <2>2 DEF Contents, Consume
  <1>10. ReceivedInOrder'
    <2>1. buffer[out] = iteration
      <3>1. (out + 1 - 1) % BUFFER_SIZE = out
        BY <1>1, FirstPlace
      <3>2. buffer[(out + 1 - 1) % BUFFER_SIZE] = iteration + 1 - 1
        BY <1>1 DEF IInv11, Contents
      <3> QED
        BY <1>1, <3>1, <3>2
    <2> QED
      BY <1>1, <1>4, <2>1 DEF IInv11, ReceivedInOrder, Consume
  <1> QED
    BY <1>5, <1>6, <1>8, <1>9, <1>10 DEF IInv11

\* The other steps move a thread or main and leave the ring alone.
LEMMA StepInv11 == IInv11 /\ [Next11]_vars11 => IInv11'
  <1> SUFFICES ASSUME IInv11, [Next11]_vars11 PROVE IInv11'
    OBVIOUS
  <1> DEFINE Quiet == UNCHANGED <<ring, item, iteration, consumed>>
  <1>1. CASE Produce
    BY <1>1, ProduceInv
  <1>2. CASE Consume
    BY <1>2, ConsumeInv
  <1>3. ASSUME Quiet, TypeOK11', InLoop11' PROVE IInv11'
    BY <1>3 DEF IInv11, ring, RingAgrees, Contents, ReceivedInOrder
  <1>4. CASE ProducerWait \/ ConsumerWait
    <2>1. TypeOK11' /\ InLoop11' /\ Quiet
      BY <1>4 DEF IInv11, TypeOK11, InLoop11, PCs11, ProducerWait, ConsumerWait, Active, ring
    <2> QED
      BY <1>3, <2>1
  <1>5. CASE ProducerIODone \/ ConsumerIODone
    <2>1. TypeOK11' /\ InLoop11' /\ Quiet
      BY <1>5, Lab11Assumption
      DEF IInv11, TypeOK11, InLoop11, PCs11, ProducerIODone, ConsumerIODone, AfterIteration, ring
    <2> QED
      BY <1>3, <2>1
  <1>6. CASE MainStep11
    <2>1. TypeOK11' /\ InLoop11' /\ Quiet
      BY <1>6, Lab11Assumption
      DEF IInv11, TypeOK11, InLoop11, PCs11, MainStep11, CreateProducer, CreateConsumer, JoinAndDestroy11, ring
    <2> QED
      BY <1>3, <2>1
  <1>7. CASE SpuriousWakeup11
    <2>1. TypeOK11' /\ InLoop11' /\ Quiet
      BY <1>7 DEF IInv11, TypeOK11, InLoop11, PCs11, SpuriousWakeup11, ring
    <2> QED
      BY <1>3, <2>1
  <1>8. CASE UNCHANGED vars11
    <2>1. TypeOK11' /\ InLoop11' /\ Quiet
      BY <1>8 DEF IInv11, TypeOK11, InLoop11, vars11, ring
    <2> QED
      BY <1>3, <2>1
  <1> QED
    BY <1>1, <1>2, <1>4, <1>5, <1>6, <1>7, <1>8
    DEF Next11, ProducerStep, ConsumerStep, Terminated11

\* The invariant, its type part included, holds of every run of lab11.cpp.
THEOREM Lab11Invariance == Spec11 => []IInv11
  BY InitInv11, StepInv11, PTL DEF Spec11

\* What the consumer has read is what the producer wrote, nothing lost, repeated,
\* overwritten or out of order, whatever the interleaving.
THEOREM InOrder == Spec11 => []ReceivedInOrder
  <1>1. IInv11 => ReceivedInOrder
    BY DEF IInv11
  <1> QED
    BY <1>1, Lab11Invariance, PTL

-----------------------------------------------------------------------------
(* The refinement. *)

\* Producing appends the item to what bufferItemsLocked lists.
LEMMA ProduceSends ==
    ASSUME IInv11, IInv11', Produce PROVE Channel!Send
  <1>1. count \in 0 .. BUFFER_SIZE - 1 /\ item \in 0 .. PRODUCE_COUNT - 1 /\ iteration \in Nat
    BY Lab11Assumption DEF IInv11, TypeOK11, InLoop11, Produce, Active
  <1>2. bufferItems = [k \in 1 .. count |-> iteration + k - 1]
    BY DEF IInv11, Contents, bufferItems
  <1>3. bufferItems' = [k \in 1 .. count + 1 |-> iteration + k - 1]
    BY DEF IInv11, Contents, bufferItems, Produce
  <1>4. bufferItems \in Seq(Nat) /\ Len(bufferItems) = count
    BY <1>1, <1>2
  <1>5. bufferItems' \in Seq(Nat) /\ Len(bufferItems') = count + 1
    BY <1>1, <1>3
  <1>6. bufferItems' = Append(bufferItems, item)
    <2>1. /\ Append(bufferItems, item) \in Seq(Nat)
          /\ Len(Append(bufferItems, item)) = count + 1
          /\ \A k \in 1 .. count : Append(bufferItems, item)[k] = bufferItems[k]
          /\ Append(bufferItems, item)[count + 1] = item
      BY <1>1, <1>4, AppendProperties
    <2>2. item = iteration + count
      BY DEF IInv11, Contents
    <2>3. \A k \in 1 .. count + 1 : bufferItems'[k] = Append(bufferItems, item)[k]
      BY <1>1, <1>2, <1>3, <2>1, <2>2
    <2> QED
      BY <1>5, <2>1, <2>3, SeqEqual
  <1>7. item < PRODUCE_COUNT /\ Len(bufferItems) < BUFFER_SIZE
    BY <1>1, <1>4, Lab11Assumption
  <1> QED
    BY <1>6, <1>7 DEF Channel!Send, Produce

\* Consuming takes the first of them.
LEMMA ConsumeReceives ==
    ASSUME IInv11, IInv11', Consume PROVE Channel!Receive
  <1>1. count \in 1 .. BUFFER_SIZE /\ out \in Slots /\ iteration \in Nat
    BY Lab11Assumption DEF IInv11, TypeOK11, Consume
  <1>2. bufferItems = [k \in 1 .. count |-> iteration + k - 1]
    BY DEF IInv11, Contents, bufferItems
  <1>3. bufferItems' = [k \in 1 .. count - 1 |-> (iteration + 1) + k - 1]
    BY DEF IInv11, Contents, bufferItems, Consume
  <1>4. bufferItems \in Seq(Nat) /\ Len(bufferItems) = count /\ bufferItems # <<>>
    BY <1>1, <1>2
  <1>5. bufferItems' \in Seq(Nat) /\ Len(bufferItems') = count - 1
    BY <1>1, <1>3
  <1>6. bufferItems' = Tail(bufferItems)
    <2>1. /\ Tail(bufferItems) \in Seq(Nat)
          /\ Len(Tail(bufferItems)) = count - 1
          /\ \A k \in 1 .. count - 1 : Tail(bufferItems)[k] = bufferItems[k + 1]
      BY <1>1, <1>4, HeadTailProperties
    <2>2. \A k \in 1 .. count - 1 : bufferItems'[k] = Tail(bufferItems)[k]
      BY <1>1, <1>2, <1>3, <2>1
    <2> QED
      BY <1>5, <2>1, <2>2, SeqEqual
  <1>7. Head(bufferItems) = buffer[out]
    <2>1. Head(bufferItems) = bufferItems[1]
      BY <1>4
    <2>2. bufferItems[1] = buffer[(out + 1 - 1) % BUFFER_SIZE]
      BY <1>1 DEF bufferItems
    <2>3. (out + 1 - 1) % BUFFER_SIZE = out
      BY <1>1, FirstPlace
    <2> QED
      BY <2>1, <2>2, <2>3
  <1> QED
    BY <1>4, <1>6, <1>7 DEF Channel!Receive, Consume

\* The ring, its indices and the two threads implement the channel, except for its
\* fairness: Produce sends, Consume receives, and no other step shows.
THEOREM ImplementsSafely == Spec11 => Channel!Safety
  <1>1. Init11 => Channel!Init
    BY DEF Init11, Channel!Init, bufferItems
  <1>2. ASSUME IInv11, IInv11', [Next11]_vars11 PROVE [Channel!Next]_(Channel!vars)
    <2>1. CASE Produce
      BY <1>2, <2>1, ProduceSends DEF Channel!Next
    <2>2. CASE Consume
      BY <1>2, <2>2, ConsumeReceives DEF Channel!Next
    <2>3. CASE UNCHANGED <<ring, item, consumed>>
      BY <2>3 DEF ring, bufferItems, Channel!vars
    <2>4. ProducerWait \/ ProducerIODone \/ ConsumerWait \/ ConsumerIODone \/ MainStep11
             \/ SpuriousWakeup11 \/ UNCHANGED vars11
          => UNCHANGED <<ring, item, consumed>>
      BY DEF ProducerWait, ProducerIODone, ConsumerWait, ConsumerIODone, MainStep11, CreateProducer,
             CreateConsumer, JoinAndDestroy11, SpuriousWakeup11, vars11, ring
    <2> QED
      BY <1>2, <2>1, <2>2, <2>3, <2>4 DEF Next11, ProducerStep, ConsumerStep, Terminated11
  <1> QED
    BY <1>1, <1>2, Lab11Invariance, PTL DEF Spec11, Channel!Safety

-----------------------------------------------------------------------------
(* Lab_21 *)

\* The receiver is created last, starts its loop at 0, and leaves it at receiverReads.
InLoop21 ==
    /\ created < 3 => pc[Receiver] = "unborn"
    /\ pc[Receiver] \in {"unborn", "delay"} => attempt = 0
    /\ pc[Receiver] \in {"read", "asleep", "woken"} => attempt < receiverReads

\* Inductive: an asleep receiver has an empty mailbox, and the history is what the
\* senders have enqueued so far, each sender's in order.
IInv21 == TypeOK /\ InLoop21 /\ NothingLostOrReordered /\ SleepsOnlyIfEmpty

-----------------------------------------------------------------------------

\* push_back at the end of the mailbox adds the message at the end of the history.
LEMMA HistoryGrows ==
    ASSUME NEW r \in Seq(Messages), NEW b \in Seq(Messages), NEW m \in Messages
    PROVE  LET h == r \o b
               g == r \o Append(b, m)
           IN  /\ Len(h) \in Nat /\ Len(g) = Len(h) + 1
               /\ \A k \in 1 .. Len(h) : g[k] = h[k] /\ h[k] \in Messages
               /\ g[Len(h) + 1] = m
  <1> DEFINE c == Append(b, m)
             h == r \o b
             g == r \o c
  <1>1. /\ c \in Seq(Messages) /\ Len(c) = Len(b) + 1
        /\ \A i \in 1 .. Len(b) : c[i] = b[i]
        /\ c[Len(b) + 1] = m
        /\ Len(b) \in Nat /\ Len(r) \in Nat
    BY AppendProperties, LenProperties
  <1> HIDE DEF c
  <1>2. /\ h \in Seq(Messages) /\ Len(h) = Len(r) + Len(b)
        /\ \A i \in 1 .. Len(r) + Len(b) : h[i] = IF i <= Len(r) THEN r[i] ELSE b[i - Len(r)]
    BY ConcatProperties
  <1>3. /\ Len(g) = Len(r) + Len(c)
        /\ \A i \in 1 .. Len(r) + Len(c) : g[i] = IF i <= Len(r) THEN r[i] ELSE c[i - Len(r)]
    BY <1>1, ConcatProperties
  <1>4. \A k \in 1 .. Len(h) : h[k] \in Messages
    BY <1>2, ElementOfSeq
  <1> HIDE DEF g, h
  <1>5. ASSUME NEW k \in 1 .. Len(h) PROVE g[k] = h[k]
    <2>1. CASE k <= Len(r)
      BY <1>1, <1>2, <1>3, <2>1
    <2>2. CASE k > Len(r)
      <3>1. g[k] = c[k - Len(r)] /\ h[k] = b[k - Len(r)] /\ k - Len(r) \in 1 .. Len(b)
        BY <1>1, <1>2, <1>3, <2>2
      <3> QED
        BY <1>1, <3>1
    <2> QED
      BY <1>1, <1>2, <2>1, <2>2
  <1>6. Len(g) = Len(h) + 1 /\ Len(h) \in Nat /\ g[Len(h) + 1] = m
    BY <1>1, <1>2, <1>3
  <1> QED
    BY <1>4, <1>5, <1>6 DEF c, g, h

\* Taking the front of the mailbox leaves the history as it was.
LEMMA HistoryStays ==
    ASSUME NEW r \in Seq(Messages), NEW b \in Seq(Messages), b # <<>>
    PROVE  /\ Append(r, Head(b)) \in Seq(Messages) /\ Tail(b) \in Seq(Messages)
           /\ Append(r, Head(b)) \o Tail(b) = r \o b
  <1> DEFINE a == Append(r, Head(b))
             t == Tail(b)
  <1>1. /\ Head(b) \in Messages /\ t \in Seq(Messages)
        /\ Len(t) = Len(b) - 1 /\ \A i \in 1 .. Len(t) : t[i] = b[i + 1]
        /\ Len(b) \in Nat \ {0} /\ Len(r) \in Nat
        /\ Head(b) = b[1]
    BY HeadTailProperties, EmptySeq, LenProperties
  <1>2. /\ a \in Seq(Messages) /\ Len(a) = Len(r) + 1
        /\ \A i \in 1 .. Len(r) : a[i] = r[i]
        /\ a[Len(r) + 1] = Head(b)
    BY <1>1, AppendProperties
  <1> HIDE DEF a, t
  <1>3. /\ r \o b \in Seq(Messages) /\ Len(r \o b) = Len(r) + Len(b)
        /\ \A i \in 1 .. Len(r) + Len(b) : (r \o b)[i] = IF i <= Len(r) THEN r[i] ELSE b[i - Len(r)]
    BY ConcatProperties
  <1>4. /\ a \o t \in Seq(Messages) /\ Len(a \o t) = Len(a) + Len(t)
        /\ \A i \in 1 .. Len(a) + Len(t) : (a \o t)[i] = IF i <= Len(a) THEN a[i] ELSE t[i - Len(a)]
    BY <1>1, <1>2, ConcatProperties
  <1>5. ASSUME NEW i \in 1 .. Len(a \o t) PROVE (a \o t)[i] = (r \o b)[i]
    <2>1. CASE i <= Len(r)
      BY <1>1, <1>2, <1>3, <1>4, <2>1
    <2>2. CASE i = Len(r) + 1
      BY <1>1, <1>2, <1>3, <1>4, <2>2
    <2>3. CASE i > Len(r) + 1
      <3>1. (a \o t)[i] = t[i - Len(a)] /\ i - Len(a) \in 1 .. Len(t)
        BY <1>1, <1>2, <1>4, <2>3
      <3>2. (r \o b)[i] = b[i - Len(r)] /\ i - Len(a) + 1 = i - Len(r)
        BY <1>1, <1>2, <1>3, <1>4, <2>3
      <3> QED
        BY <1>1, <3>1, <3>2
    <2>4. i \in Int /\ Len(r) \in Int
      BY <1>1, <1>2, <1>4
    <2>5. i <= Len(r) \/ i = Len(r) + 1 \/ i > Len(r) + 1
      BY <2>4
    <2> QED
      BY <2>1, <2>2, <2>3, <2>5
  <1>6. Len(a \o t) = Len(r \o b)
    BY <1>1, <1>2, <1>3, <1>4
  <1> QED
    BY <1>1, <1>2, <1>3, <1>4, <1>5, <1>6, SeqEqual DEF a, t

LEMMA InitInv21 == Init => IInv21
  <1> SUFFICES ASSUME Init PROVE IInv21
    OBVIOUS
  <1>1. TypeOK
    <2>1. mailbox = <<>> /\ received = <<>>
      BY DEF Init
    <2>2. mailbox \in Seq(Messages) /\ received \in Seq(Messages)
      BY <2>1, EmptySeq
    <2> QED
      BY <2>2, Lab21Assumption DEF Init, TypeOK, Threads, Senders, Receiver, PCs
  <1>2. history = <<>> /\ Len(history) = 0
    BY EmptySeq, ConcatEmptySeq DEF Init, history
  <1> QED
    BY <1>1, <1>2 DEF Init, IInv21, InLoop21, NothingLostOrReordered, SleepsOnlyIfEmpty, Senders, Threads, Receiver

\* A sender's step: its message is the newest of that sender's in the history.
LEMMA EnqueueInv ==
    ASSUME NEW s \in Senders, IInv21, enqueue(s)
    PROVE  IInv21'
  <1> DEFINE m == [source |-> s, index |-> sent[s]]
  <1>1. /\ mailbox' = Append(mailbox, m) /\ received' = received
        /\ sent' = [sent EXCEPT ![s] = sent[s] + 1]
        /\ pc' = [pc EXCEPT ![s] = "pause",
                            ![Receiver] = IF @ = "asleep" THEN "woken" ELSE @]
        /\ UNCHANGED <<options, attempt, mainVars>>
    BY DEF enqueue
  <1>2. /\ TypeOK /\ m \in Messages /\ s \in Threads /\ Receiver \in Threads /\ s # Receiver
        /\ sent \in [Senders -> Nat] /\ sent[0] \in Nat /\ sent[1] \in Nat
    BY DEF IInv21, TypeOK, Messages, Threads, Senders, Receiver
  <1>3. /\ history' = received \o Append(mailbox, m)
        /\ received \in Seq(Messages) /\ mailbox \in Seq(Messages)
    BY <1>1, <1>2 DEF history, TypeOK
  <1>4. /\ Len(history) \in Nat /\ Len(history') = Len(history) + 1
        /\ \A k \in 1 .. Len(history) : history'[k] = history[k] /\ history[k] \in Messages
        /\ history'[Len(history) + 1] = m
    BY <1>2, <1>3, HistoryGrows DEF history
  <1>5. Append(mailbox, m) \in Seq(Messages)
    BY <1>2, <1>3, AppendProperties
  <1>6. TypeOK'
    <2>1. pc' \in [Threads -> PCs] /\ \A u \in Senders : pc'[u] \in {"unborn", "send", "pause", "done"}
      BY <1>1, <1>2 DEF TypeOK, PCs, Threads, Senders, Receiver
    <2>2. sent' \in [Senders -> Nat]
      BY <1>1, <1>2
    <2> QED
      BY <1>1, <1>2, <1>5, <2>1, <2>2 DEF TypeOK, options, mainVars
  <1>7. NothingLostOrReordered'
    <2>1. Len(history') = sent'[0] + sent'[1]
      BY <1>1, <1>2, <1>4 DEF IInv21, NothingLostOrReordered, Senders
    <2>2. ASSUME NEW k \in 1 .. Len(history') PROVE history'[k].index < sent'[history'[k].source]
      <3>1. CASE k = Len(history) + 1
        BY <1>1, <1>2, <1>4, <3>1
      <3>2. CASE k \in 1 .. Len(history)
        <4>1. history[k].index < sent[history[k].source] /\ history[k] \in Messages
          BY <1>4, <3>2 DEF IInv21, NothingLostOrReordered
        <4>2. history[k].index \in Nat /\ history[k].source \in Senders
          BY <4>1 DEF Messages
        <4> QED
          BY <1>1, <1>2, <1>4, <3>2, <4>1, <4>2
      <3> QED
        BY <1>4, <3>1, <3>2
    <2>3. ASSUME NEW k \in 1 .. Len(history'), NEW l \in 1 .. Len(history'),
                 k < l, history'[k].source = history'[l].source
          PROVE  history'[k].index < history'[l].index
      <3>1. k \in 1 .. Len(history)
        BY <1>4, <2>3
      <3>2. CASE l = Len(history) + 1
        <4>1. history[k].index < sent[history[k].source] /\ history[k].source = s
          BY <1>4, <2>3, <3>1, <3>2 DEF IInv21, NothingLostOrReordered
        <4> QED
          BY <1>4, <3>1, <3>2, <4>1
      <3>3. CASE l \in 1 .. Len(history)
        BY <1>4, <2>3, <3>1, <3>3 DEF IInv21, NothingLostOrReordered
      <3> QED
        BY <1>4, <3>2, <3>3
    <2> QED
      BY <2>1, <2>2, <2>3 DEF NothingLostOrReordered
  <1>8. SleepsOnlyIfEmpty' /\ InLoop21'
    BY <1>1, <1>2 DEF IInv21, SleepsOnlyIfEmpty, InLoop21, TypeOK, options, mainVars
  <1> QED
    BY <1>6, <1>7, <1>8 DEF IInv21

\* The receiver taking a message from the mailbox.
LEMMA TakeInv ==
    ASSUME NEW there \in {"pause", AfterAttempts(attempt + 1)}, IInv21,
           pc[Receiver] \in {"read", "woken"}, attempt < receiverReads, Take(there)
    PROVE  IInv21'
  <1>1. /\ mailbox # <<>>
        /\ received' = Append(received, Head(mailbox)) /\ mailbox' = Tail(mailbox)
        /\ attempt' = attempt + 1
        /\ pc' = [pc EXCEPT ![Receiver] = there]
        /\ UNCHANGED <<options, sent, mainVars>>
    BY DEF Take, Goto
  <1>2. /\ TypeOK /\ received \in Seq(Messages) /\ mailbox \in Seq(Messages)
        /\ Receiver \in Threads /\ Receiver \notin Senders
    BY DEF IInv21, TypeOK, Threads, Senders, Receiver
  <1>3. /\ received' \in Seq(Messages) /\ mailbox' \in Seq(Messages)
        /\ history' = history
    BY <1>1, <1>2, HistoryStays DEF history
  <1>4. TypeOK'
    <2>1. pc' \in [Threads -> PCs] /\ \A u \in Senders : pc'[u] \in {"unborn", "send", "pause", "done"}
      BY <1>1, <1>2 DEF TypeOK, PCs, Threads, AfterAttempts
    <2>2. attempt' \in 0 .. receiverReads
      BY <1>1, <1>2 DEF TypeOK
    <2> QED
      BY <1>1, <1>2, <1>3, <2>1, <2>2 DEF TypeOK, options, mainVars
  <1>5. NothingLostOrReordered'
    BY <1>1, <1>3 DEF IInv21, NothingLostOrReordered
  <1>6. SleepsOnlyIfEmpty' /\ InLoop21'
    BY <1>1, <1>2 DEF IInv21, SleepsOnlyIfEmpty, InLoop21, TypeOK, AfterAttempts, options, mainVars
  <1> QED
    BY <1>4, <1>5, <1>6 DEF IInv21

\* The steps that move no message.
LEMMA QuietInv ==
    ASSUME IInv21,
           \/ \E s \in Senders : SenderPause(s)
           \/ CreateThread \/ ReceiverDelay \/ ReceiverPause \/ SpuriousWakeup
           \/ JoinAndDestroy \/ UNCHANGED vars
           \/ mailbox = <<>> /\ (dequeue \/ tryDequeue)
    PROVE  IInv21'
  <1>1. /\ UNCHANGED <<mailbox, sent, received, blockDemo, receiverReads>>
        /\ NothingLostOrReordered /\ SleepsOnlyIfEmpty /\ InLoop21 /\ TypeOK
        /\ Receiver \in Threads /\ Receiver \notin Senders /\ Senders \subseteq Threads
    BY DEF IInv21, SenderPause, CreateThread, ReceiverDelay, ReceiverPause, SpuriousWakeup,
           JoinAndDestroy, vars, dequeue, tryDequeue, Take, options,
           Threads, Senders, Receiver
  <1>2. history' = history
    BY <1>1 DEF history
  <1>3. NothingLostOrReordered'
    BY <1>1, <1>2 DEF NothingLostOrReordered
  <1>4. ASSUME \/ \E t \in Threads, there \in PCs :
                      /\ pc' = [pc EXCEPT ![t] = there]
                      /\ t \in Senders => there \in {"send", "done"}
                      /\ t = Receiver /\ there = "asleep" => mailbox = <<>>
               \/ pc' = pc,
               created' \in 0 .. 3, attempt' \in 0 .. receiverReads, destroyed' \in BOOLEAN
        PROVE  TypeOK' /\ SleepsOnlyIfEmpty'
    <2>1. pc' \in [Threads -> PCs] /\ \A u \in Senders : pc'[u] \in {"unborn", "send", "pause", "done"}
      BY <1>1, <1>4 DEF TypeOK
    <2>2. TypeOK'
      BY <1>1, <1>4, <2>1 DEF TypeOK
    <2> QED
      BY <1>1, <1>4, <2>2 DEF SleepsOnlyIfEmpty, TypeOK
  <1> USE DEF PCs
  <1>5. ASSUME NEW s \in Senders, SenderPause(s) PROVE TypeOK' /\ SleepsOnlyIfEmpty' /\ InLoop21'
    BY <1>1, <1>4, <1>5 DEF SenderPause, Goto, TypeOK, InLoop21, mainVars
  <1>6. CASE CreateThread
    <2>1. created \in Threads
      BY <1>1, <1>6 DEF CreateThread, TypeOK, Threads, Senders, Receiver
    <2>2. InLoop21'
      BY <1>1, <1>6, <2>1 DEF CreateThread, Goto, TypeOK, InLoop21, Receiver
    <2>3. \E there \in PCs : /\ pc' = [pc EXCEPT ![created] = there]
                             /\ created \in Senders => there = "send"
                             /\ created = Receiver => there = "delay"
      BY <1>1, <1>6 DEF CreateThread, Goto
    <2>4. created' \in 0 .. 3 /\ attempt' \in 0 .. receiverReads /\ destroyed' \in BOOLEAN
      BY <1>1, <1>6 DEF CreateThread, TypeOK
    <2>5. TypeOK' /\ SleepsOnlyIfEmpty'
      BY <1>4, <2>1, <2>3, <2>4
    <2> QED
      BY <1>3, <2>2, <2>5 DEF IInv21
  <1>7. CASE ReceiverDelay
    BY <1>1, <1>3, <1>4, <1>7 DEF IInv21, ReceiverDelay, Goto, AfterAttempts, TypeOK, InLoop21, mainVars
  <1>8. CASE ReceiverPause
    BY <1>1, <1>3, <1>4, <1>8 DEF IInv21, ReceiverPause, Goto, AfterAttempts, TypeOK, InLoop21, mainVars
  <1>9. CASE SpuriousWakeup
    BY <1>1, <1>3, <1>4, <1>9 DEF IInv21, SpuriousWakeup, Goto, TypeOK, InLoop21, mainVars
  <1>10. CASE JoinAndDestroy \/ UNCHANGED vars
    BY <1>1, <1>3, <1>4, <1>10 DEF IInv21, JoinAndDestroy, vars, TypeOK, InLoop21, mainVars
  <1>11. CASE dequeue /\ mailbox = <<>>
    BY <1>1, <1>3, <1>4, <1>11 DEF IInv21, dequeue, Take, Goto, TypeOK, InLoop21, mainVars
  <1>12. CASE tryDequeue /\ mailbox = <<>>
    <2>1. /\ pc[Receiver] = "read" /\ attempt' = attempt + 1
          /\ pc' = [pc EXCEPT ![Receiver] = "pause"] /\ UNCHANGED mainVars
      BY <1>12 DEF tryDequeue, Take, Goto
    <2>2. attempt' \in 0 .. receiverReads
      BY <1>1, <2>1 DEF TypeOK, InLoop21
    <2>3. InLoop21'
      BY <1>1, <2>1 DEF TypeOK, InLoop21, mainVars
    <2> QED
      BY <1>1, <1>3, <1>4, <2>1, <2>2, <2>3 DEF IInv21, TypeOK, mainVars
  <1> QED
    BY <1>1, <1>3, <1>5, <1>6, <1>7, <1>8, <1>9, <1>10, <1>11, <1>12 DEF IInv21

LEMMA StepInv21 == IInv21 /\ [Next]_vars => IInv21'
  <1> SUFFICES ASSUME IInv21, [Next]_vars PROVE IInv21'
    OBVIOUS
  <1>1. CASE UNCHANGED vars
    BY <1>1, QuietInv
  <1>2. ASSUME NEW s \in Senders, Sender(s) PROVE IInv21'
    BY <1>2, EnqueueInv, QuietInv DEF Sender
  <1>3. CASE dequeue \/ tryDequeue
    <2>1. CASE mailbox = <<>>
      BY <1>3, <2>1, QuietInv
    <2>2. CASE mailbox # <<>>
      <3>1. /\ pc[Receiver] \in {"read", "woken"} /\ attempt < receiverReads
            /\ (Take(AfterAttempts(attempt + 1)) \/ Take("pause"))
        BY <1>3, <2>2 DEF dequeue, tryDequeue, IInv21, InLoop21
      <3> QED
        BY <3>1, TakeInv
    <2> QED
      BY <2>1, <2>2
  <1>4. CASE ReceiverDelay \/ ReceiverPause \/ SpuriousWakeup \/ MainStep
    BY <1>4, QuietInv DEF MainStep
  <1>5. CASE Terminated
    BY <1>5, QuietInv DEF Terminated
  <1> QED
    BY <1>1, <1>2, <1>3, <1>4, <1>5 DEF Next, ReceiverStep

\* Every reachable state satisfies the inductive invariant, its type invariant
\* included.
THEOREM Lab21Invariance == Spec => []IInv21
  <1> QED
    BY InitInv21, StepInv21, PTL DEF Spec

\* However enqueue() and dequeue() interleave, the mailbox of Lab_21 loses and
\* repeats no message and keeps each sender's messages in order.
THEOREM ReliableAndOrdered == Spec => []NothingLostOrReordered
  <1>1. IInv21 => NothingLostOrReordered
    BY DEF IInv21
  <1> QED
    BY <1>1, Lab21Invariance, PTL

\* The receiver never sleeps in dequeue() beside a message: no lost wakeup.
THEOREM NoLostWakeup == Spec => []SleepsOnlyIfEmpty
  <1>1. IInv21 => SleepsOnlyIfEmpty
    BY DEF IInv21
  <1> QED
    BY <1>1, Lab21Invariance, PTL
=============================================================================
