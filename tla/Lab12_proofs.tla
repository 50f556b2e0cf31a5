---------------------------- MODULE Lab12_proofs ----------------------------
(***************************************************************************)
(* The safety properties of Lab12Semaphore and of the driver, which adds   *)
(* the linked list and the end of a trace, for every size of the task      *)
(* table and every choice of quanta and work slices; and that the list is  *)
(* the semaphore's queue.                                                  *)
(***************************************************************************)
EXTENDS Lab12Driver, DataLemmas, FiniteSetTheorems

-----------------------------------------------------------------------------
(* The linked list *)

\* The function chain is what its recursion says, by induction over the number of nodes.
LEMMA ChainIs ==
    ASSUME size_ \in Nat
    PROVE  \A i \in 1 .. size_ : chain[i] = IF i = 1 THEN head_ ELSE Next_(chain[i - 1])
  <1> DEFINE Follows(n, f) == f = [i \in 1 .. n |-> IF i = 1 THEN head_ ELSE Next_(f[i - 1])]
             S == {n \in Nat : \E f : Follows(n, f)}
  <1>1. 0 \in S
    <2>1. Follows(0, [i \in 1 .. 0 |-> i])
      OBVIOUS
    <2> QED
      BY <2>1
  <1>2. ASSUME NEW n \in Nat, n \in S PROVE n + 1 \in S
    <2>1. PICK f : Follows(n, f)
      BY <1>2
    <2> DEFINE g == [i \in 1 .. n + 1 |-> IF i = 1 THEN head_ ELSE Next_(f[i - 1])]
    <2>2. \A i \in 1 .. n : f[i] = IF i = 1 THEN head_ ELSE Next_(f[i - 1])
      BY <2>1
    <2>3. \A i \in 1 .. n : g[i] = f[i]
      BY <2>2
    <2>4. \A i \in 1 .. n + 1 : i # 1 => i - 1 \in 1 .. n
      OBVIOUS
    <2>5. \A i \in 1 .. n + 1 : i # 1 => g[i - 1] = f[i - 1]
      BY <2>3, <2>4
    <2>6. Follows(n + 1, g)
      BY <2>5
    <2>7. \E h : Follows(n + 1, h)
      <3> HIDE DEF g, Follows
      <3> QED
        BY <2>6
    <2> QED
      BY <2>7
  <1>3. size_ \in S
    <2> HIDE DEF S
    <2> QED
      BY <1>1, <1>2, SetInduction
  <1>4. Follows(size_, CHOOSE f : Follows(size_, f))
    <2>1. \E f : Follows(size_, f)
      BY <1>3
    <2> HIDE DEF Follows
    <2> QED
      BY <2>1
  <1>5. chain = CHOOSE f : Follows(size_, f)
    BY Zenon DEF chain
  <1> QED
    BY <1>4, <1>5

\* What Represents says, of the addresses themselves.
Linked(s, values) ==
    /\ s \in Seq(Nodes) /\ Len(s) = Len(values) /\ size_ = Len(s)
    /\ \A i, j \in 1 .. Len(s) : s[i] = s[j] => i = j
    /\ DOMAIN heap = {s[i] : i \in 1 .. Len(s)}
    /\ \A i \in 1 .. Len(s) :
         heap[s[i]] = [value |-> values[i],
                       next |-> IF i = Len(s) THEN nullptr ELSE s[i + 1]]
    /\ IF s = <<>> THEN head_ = nullptr /\ tail_ = nullptr
                  ELSE head_ = s[1] /\ tail_ = s[Len(s)]

\* The facts of Linked, ready for use.
LEMMA LinkedFacts ==
    ASSUME NEW s, NEW values, Linked(s, values)
    PROVE  /\ s \in Seq(Nodes) /\ Len(s) \in Nat /\ Len(s) = Len(values) /\ size_ = Len(s)
           /\ \A i \in 1 .. Len(s) :
                /\ s[i] \in Nodes /\ s[i] \in DOMAIN heap
                /\ heap[s[i]].value = values[i]
                /\ heap[s[i]].next = IF i = Len(s) THEN nullptr ELSE s[i + 1]
           /\ Len(s) = 0 => s = <<>> /\ head_ = nullptr /\ tail_ = nullptr
           /\ Len(s) # 0 => head_ = s[1] /\ tail_ = s[Len(s)]
  <1>1. s \in Seq(Nodes) /\ Len(s) \in Nat /\ Len(s) = Len(values) /\ size_ = Len(s)
    BY DEF Linked
  <1>2. ASSUME NEW i \in 1 .. Len(s)
        PROVE  /\ s[i] \in Nodes /\ s[i] \in DOMAIN heap
               /\ heap[s[i]].value = values[i]
               /\ heap[s[i]].next = IF i = Len(s) THEN nullptr ELSE s[i + 1]
    <2>1. heap[s[i]] = [value |-> values[i], next |-> IF i = Len(s) THEN nullptr ELSE s[i + 1]]
      BY DEF Linked
    <2>2. DOMAIN heap = {s[j] : j \in 1 .. Len(s)}
      BY DEF Linked
    <2>3. s[i] \in Nodes
      BY <1>1
    <2> QED
      BY <2>1, <2>2, <2>3
  <1>3. Len(s) = 0 => s = <<>>
    BY <1>1
  <1>4. Len(s) # 0 => s # <<>>
    BY <1>1
  <1>5. IF s = <<>> THEN head_ = nullptr /\ tail_ = nullptr
                   ELSE head_ = s[1] /\ tail_ = s[Len(s)]
    BY DEF Linked
  <1> QED
    BY <1>1, <1>2, <1>3, <1>4, <1>5

\* Following head_ and the links finds the nodes in order.
LEMMA ChainFollows ==
    ASSUME NEW V, NEW values \in Seq(V), NEW s, Linked(s, values)
    PROVE  /\ size_ \in Nat /\ size_ = Len(s)
           /\ \A i \in 1 .. size_ : chain[i] = s[i]
  <1>1. size_ \in Nat /\ size_ = Len(s) /\ s \in Seq(Nodes)
    BY DEF Linked
  <1> DEFINE S == {n \in Nat : \A i \in 1 .. size_ : i <= n => chain[i] = s[i]}
  <1>2. 0 \in S
    BY <1>1
  <1>3. ASSUME NEW n \in Nat, n \in S PROVE n + 1 \in S
    <2>1. ASSUME n + 1 <= size_ PROVE chain[n + 1] = s[n + 1]
      <3>0. n + 1 \in 1 .. size_
        BY <1>1, <2>1
      <3>1. CASE n = 0
        <4>1. s # <<>> /\ chain[1] = head_
          BY <1>1, <2>1, <3>0, <3>1, ChainIs
        <4> QED
          BY <3>1, <4>1 DEF Linked
      <3>2. CASE n # 0
        <4>1. n \in 1 .. size_ /\ n + 1 # 1 /\ (n + 1) - 1 = n /\ n # Len(s)
          BY <1>1, <2>1, <3>2
        <4>2. chain[n + 1] = Next_(chain[n])
          BY <1>1, <3>0, <4>1, ChainIs
        <4>3. chain[n] = s[n]
          BY <1>3, <4>1
        <4>4. s[n] \in DOMAIN heap /\ heap[s[n]].next = s[n + 1]
          BY <1>1, <4>1, LinkedFacts
        <4> QED
          BY <4>2, <4>3, <4>4 DEF Next_
      <3> QED
        BY <3>1, <3>2
    <2>2. \A i \in 1 .. size_ : i <= n + 1 => i <= n \/ (i = n + 1 /\ n + 1 <= size_)
      BY <1>1
    <2> QED
      BY <1>3, <2>1, <2>2
  <1>4. size_ \in S
    <2> HIDE DEF S
    <2> QED
      BY <1>1, <1>2, <1>3, SetInduction
  <1> QED
    BY <1>1, <1>4

\* A list whose nodes are s, in order, is the sequence of their values.
LEMMA LinkedRepresents ==
    ASSUME NEW V, NEW values \in Seq(V), NEW s, Linked(s, values)
    PROVE  Represents(values)
  <1>1. /\ size_ \in Nat /\ size_ = Len(s) /\ s \in Seq(Nodes)
        /\ \A i \in 1 .. size_ : chain[i] = s[i]
    BY ChainFollows DEF Linked
  <1>2. {chain[i] : i \in 1 .. size_} = DOMAIN heap
    BY <1>1 DEF Linked
  <1>3. IF isEmpty THEN head_ = nullptr /\ tail_ = nullptr
                   ELSE tail_ = chain[size_] /\ heap[tail_].next = nullptr
    <2>1. CASE size_ = 0
      BY <1>1, <2>1, LinkedFacts DEF isEmpty
    <2>2. CASE size_ # 0
      <3>1. size_ \in 1 .. size_ /\ size_ \in 1 .. Len(s)
        BY <1>1, <2>2
      <3>2. tail_ = s[size_] /\ heap[s[size_]].next = nullptr
        BY <1>1, <2>2, <3>1, LinkedFacts
      <3> QED
        BY <1>1, <2>2, <3>1, <3>2 DEF isEmpty
    <2> QED
      BY <2>1, <2>2
  <1>4. size_ = Len(values)
    BY LinkedFacts
  <1>5. \A i, j \in 1 .. size_ : chain[i] = chain[j] => i = j
    BY <1>1 DEF Linked
  <1>6. \A i \in 1 .. size_ : heap[chain[i]].value = values[i]
    BY <1>1, LinkedFacts
  <1> QED
    BY <1>2, <1>3, <1>4, <1>5, <1>6 DEF Represents

\* En_Q puts a node at the end.
LEMMA Enqueued ==
    ASSUME NEW V, NEW values \in Seq(V), NEW s, Linked(s, values), NEW v \in V,
           Nodes \ DOMAIN heap # {}, En_Q(v)
    PROVE  \E t : Linked(t, Append(values, v))'
  <1>1. PICK node : node = NewNode
    OBVIOUS
  <1>2. node \in Nodes /\ node \notin DOMAIN heap /\ node # nullptr
    BY <1>1, LinkedQueueAssumption DEF NewNode
  <1>12. PICK t, w, n : t = Append(s, node) /\ w = Append(values, v) /\ n = Len(s)
    OBVIOUS
  <1>3. /\ s \in Seq(Nodes) /\ n \in Nat /\ Len(values) = n /\ size_ = n
        /\ \A i \in 1 .. n : s[i] \in Nodes /\ s[i] \in DOMAIN heap /\ s[i] # node
        /\ n = 0 => head_ = nullptr /\ tail_ = nullptr
        /\ n # 0 => head_ = s[1] /\ tail_ = s[n]
        /\ DOMAIN heap = {s[i] : i \in 1 .. n}
        /\ \A i, j \in 1 .. n : s[i] = s[j] => i = j
    <2>1. /\ s \in Seq(Nodes) /\ Len(s) \in Nat /\ Len(s) = Len(values) /\ size_ = Len(s)
          /\ \A i \in 1 .. Len(s) : s[i] \in Nodes /\ s[i] \in DOMAIN heap
          /\ Len(s) = 0 => head_ = nullptr /\ tail_ = nullptr
          /\ Len(s) # 0 => head_ = s[1] /\ tail_ = s[Len(s)]
      BY LinkedFacts
    <2>2. /\ DOMAIN heap = {s[i] : i \in 1 .. Len(s)}
          /\ \A i, j \in 1 .. Len(s) : s[i] = s[j] => i = j
      BY DEF Linked
    <2>3. \A i \in 1 .. Len(s) : s[i] # node
      BY <2>1, <1>2
    <2> QED
      BY <2>1, <2>2, <2>3, <1>12
  <1>4. /\ t \in Seq(Nodes) /\ Len(t) = n + 1 /\ t[n + 1] = node
        /\ \A i \in 1 .. n : t[i] = s[i]
        /\ Len(w) = n + 1 /\ w[n + 1] = v
        /\ \A i \in 1 .. n : w[i] = values[i]
    BY <1>12, <1>2, <1>3
  <1>5. /\ heap' = [x \in DOMAIN heap \cup {node} |->
                     CASE x = node  -> [value |-> v, next |-> nullptr]
                       [] x = tail_ -> [heap[x] EXCEPT !.next = node]
                       [] OTHER     -> heap[x]]
        /\ head_' = IF tail_ = nullptr THEN node ELSE head_
        /\ tail_' = node /\ size_' = size_ + 1
    BY <1>1 DEF En_Q
  <1>13. tail_ # node
    BY <1>2, <1>3
  <1>6. \A i, j \in 1 .. n + 1 : t[i] = t[j] => i = j
    BY <1>3, <1>4
  <1>7. DOMAIN heap' = {t[i] : i \in 1 .. n + 1}
    <2>1. DOMAIN heap' = DOMAIN heap \cup {node}
      BY <1>5
    <2>2. \A x \in DOMAIN heap \cup {node} : \E i \in 1 .. n + 1 : x = t[i]
      BY <1>3, <1>4
    <2>3. \A i \in 1 .. n + 1 : t[i] \in DOMAIN heap \cup {node}
      BY <1>3, <1>4
    <2> QED
      BY <2>1, <2>2, <2>3
  <1>8. ASSUME NEW i \in 1 .. n + 1
        PROVE  heap'[t[i]] = [value |-> w[i], next |-> IF i = n + 1 THEN nullptr ELSE t[i + 1]]
    <2>1. CASE i = n + 1
      <3>1. heap'[node] = [value |-> v, next |-> nullptr]
        BY <1>5, <1>13
      <3> QED
        BY <2>1, <3>1, <1>4
    <2>2. CASE i # n + 1
      <3>1. i \in 1 .. n /\ n # 0 /\ tail_ = s[n] /\ tail_ # node /\ n \in 1 .. n
        BY <2>2, <1>3
      <3>2. t[i] = s[i] /\ w[i] = values[i] /\ s[i] # node /\ s[i] \in DOMAIN heap
        BY <3>1, <1>3, <1>4
      <3>3. heap[s[i]] = [value |-> values[i], next |-> IF i = n THEN nullptr ELSE s[i + 1]]
        BY <3>1, <1>12 DEF Linked
      <3>4. CASE i = n
        <4>1. heap'[s[i]] = [heap[s[i]] EXCEPT !.next = node]
          BY <3>1, <3>2, <3>4, <1>5
        <4>2. heap'[s[i]] = [value |-> values[i], next |-> node]
          BY <4>1, <3>3
        <4>3. t[i + 1] = node
          BY <3>4, <1>4
        <4> QED
          BY <4>2, <4>3, <3>2, <2>2
      <3>5. CASE i # n
        <4>1. s[i] # tail_ /\ i + 1 \in 1 .. n
          BY <3>1, <3>5, <1>3
        <4>2. heap'[s[i]] = heap[s[i]]
          BY <4>1, <3>2, <1>5
        <4> QED
          BY <4>1, <4>2, <3>2, <3>3, <3>5, <1>4, <2>2
      <3> QED
        BY <3>4, <3>5
    <2> QED
      BY <2>1, <2>2
  <1>9. head_' = t[1] /\ tail_' = t[n + 1]
    <2>1. CASE n = 0
      BY <2>1, <1>3, <1>4, <1>5
    <2>2. CASE n # 0
      <3>1. tail_ \in Nodes /\ tail_ # nullptr
        BY <2>2, <1>3, LinkedQueueAssumption
      <3> QED
        BY <2>2, <3>1, <1>3, <1>4, <1>5
    <2> QED
      BY <2>1, <2>2
  <1>10. t # <<>> /\ size_' = n + 1
    BY <1>3, <1>4, <1>5
  <1>11. Linked(t, w)'
    BY <1>4, <1>6, <1>7, <1>8, <1>9, <1>10 DEF Linked
  <1> QED
    BY <1>12, <1>11

\* De_Q takes the node at the front away.
LEMMA Dequeued ==
    ASSUME NEW V, NEW values \in Seq(V), NEW s, Linked(s, values), De_Q
    PROVE  \E t : Linked(t, Tail(values))'
  <1>1. PICK t, w, n : t = Tail(s) /\ w = Tail(values) /\ n = Len(s)
    OBVIOUS
  <1>2. /\ s \in Seq(Nodes) /\ n \in Nat /\ Len(values) = n /\ size_ = n
        /\ \A i \in 1 .. n : s[i] \in Nodes /\ s[i] \in DOMAIN heap
        /\ n # 0 => head_ = s[1] /\ tail_ = s[n]
    BY <1>1, LinkedFacts
  <1>3. /\ DOMAIN heap = {s[i] : i \in 1 .. n}
        /\ \A i, j \in 1 .. n : s[i] = s[j] => i = j
        /\ \A i \in 1 .. n : heap[s[i]] = [value |-> values[i],
                                          next |-> IF i = n THEN nullptr ELSE s[i + 1]]
    BY <1>1 DEF Linked
  <1>4. n # 0 /\ head_ = s[1] /\ tail_ = s[n] /\ 1 \in 1 .. n /\ n \in 1 .. n
    BY <1>2 DEF De_Q, isEmpty
  <1>5. /\ t \in Seq(Nodes) /\ Len(t) = n - 1
        /\ \A i \in 1 .. n - 1 : t[i] = s[i + 1] /\ i + 1 \in 1 .. n
        /\ Len(w) = n - 1
        /\ \A i \in 1 .. n - 1 : w[i] = values[i + 1]
    <2>1. s # <<>> /\ values # <<>>
      BY <1>1, <1>2, <1>4
    <2> QED
      BY <1>1, <1>2, <1>4, <2>1
  <1>6. /\ heap' = [x \in DOMAIN heap \ {head_} |-> heap[x]]
        /\ head_' = Next_(head_)
        /\ tail_' = IF head_' = nullptr THEN nullptr ELSE tail_
        /\ size_' = size_ - 1
    BY DEF De_Q
  <1>7. head_' = IF n = 1 THEN nullptr ELSE s[2]
    <2>1. heap[s[1]] = [value |-> values[1], next |-> IF 1 = n THEN nullptr ELSE s[1 + 1]]
      BY <1>3, <1>4
    <2>2. 1 + 1 = 2 /\ (1 = n <=> n = 1)
      OBVIOUS
    <2>3. heap[s[1]].next = IF n = 1 THEN nullptr ELSE s[2]
      BY <2>1, <2>2
    <2> QED
      BY <1>2, <1>4, <1>6, <2>3 DEF Next_
  <1>8. DOMAIN heap' = {t[i] : i \in 1 .. n - 1}
    <2>1. DOMAIN heap' = DOMAIN heap \ {s[1]}
      BY <1>4, <1>6
    <2>2. ASSUME NEW x \in DOMAIN heap \ {s[1]} PROVE \E i \in 1 .. n - 1 : x = t[i]
      <3>1. PICK i \in 1 .. n : x = s[i]
        BY <1>3
      <3>2. i - 1 \in 1 .. n - 1 /\ (i - 1) + 1 = i
        BY <1>2, <2>2, <3>1
      <3>3. x = t[i - 1]
        BY <1>5, <3>1, <3>2
      <3> QED
        BY <3>2, <3>3
    <2>3. ASSUME NEW i \in 1 .. n - 1 PROVE t[i] \in DOMAIN heap \ {s[1]}
      <3>1. t[i] = s[i + 1] /\ i + 1 \in 1 .. n /\ i + 1 # 1
        BY <1>5
      <3> QED
        BY <1>2, <1>3, <1>4, <3>1
    <2> QED
      BY <2>1, <2>2, <2>3
  <1>9. ASSUME NEW i \in 1 .. n - 1
        PROVE  heap'[t[i]] = [value |-> w[i], next |-> IF i = n - 1 THEN nullptr ELSE t[i + 1]]
    <2>1. t[i] = s[i + 1] /\ i + 1 \in 1 .. n /\ w[i] = values[i + 1] /\ i \in Nat
      BY <1>5
    <2>2. t[i] \in DOMAIN heap'
      BY <1>8
    <2>3. heap'[t[i]] = heap[s[i + 1]]
      BY <1>6, <2>1, <2>2
    <2>4. heap[s[i + 1]] = [value |-> values[i + 1],
                            next |-> IF i + 1 = n THEN nullptr ELSE s[i + 1 + 1]]
      BY <1>3, <2>1
    <2>5. i + 1 # n => t[i + 1] = s[i + 1 + 1] /\ i # n - 1
      <3>1. i + 1 # n => i + 1 \in 1 .. n - 1
        BY <1>2, <2>1
      <3> QED
        BY <1>2, <1>5, <2>1, <3>1
    <2>6. i + 1 = n <=> i = n - 1
      BY <1>2, <2>1
    <2> QED
      BY <2>1, <2>3, <2>4, <2>5, <2>6
  <1>10. \A i, j \in 1 .. n - 1 : t[i] = t[j] => i = j
    BY <1>3, <1>5
  <1>11. IF t = <<>> THEN head_' = nullptr /\ tail_' = nullptr
                     ELSE head_' = t[1] /\ tail_' = t[n - 1]
    <2>1. CASE n = 1
      <3>1. t = <<>>
        BY <1>5, <2>1
      <3> QED
        BY <1>6, <1>7, <2>1, <3>1
    <2>2. CASE n # 1
      <3>1. t # <<>> /\ 1 \in 1 .. n - 1 /\ n - 1 \in 1 .. n - 1 /\ 2 \in 1 .. n /\ (n - 1) + 1 = n
        BY <1>2, <1>4, <1>5, <2>2
      <3>2. head_' = s[2] /\ head_' # nullptr /\ t[1] = s[2] /\ t[n - 1] = s[n]
        BY <1>2, <1>5, <1>7, <2>2, <3>1, LinkedQueueAssumption
      <3> QED
        BY <1>4, <1>6, <3>1, <3>2
    <2> QED
      BY <2>1, <2>2
  <1>12. size_' = n - 1
    BY <1>2, <1>6
  <1>13. Linked(t, w)'
    BY <1>5, <1>8, <1>9, <1>10, <1>11, <1>12 DEF Linked
  <1> QED
    BY <1>1, <1>13

\* The destructor leaves no node.
LEMMA ResetEmpties ==
    ASSUME NEW V, NEW values \in Seq(V), NEW s, Linked(s, values), Reset
    PROVE  heap' = [node \in {} |-> {}] /\ size_' = 0
  <1>1. {chain[i] : i \in 1 .. size_} = DOMAIN heap
    BY LinkedRepresents DEF Represents
  <1>2. heap' = [node \in DOMAIN heap \ {chain[i] : i \in 1 .. size_} |-> heap[node]] /\ size_' = 0
    BY DEF Reset
  <1>3. heap' = [node \in {} |-> heap[node]]
    BY <1>1, <1>2
  <1> QED
    BY <1>2, <1>3

-----------------------------------------------------------------------------
(* The semaphore *)

\* What the other invariants need of the semaphore: a free one has neither owner
\* nor waiter, an owner is a live task, and it waits only for itself if it may.
SemaphoreConsistent ==
    /\ value = 1 => owner = NoTask /\ wait_queue = <<>>
    /\ owner # NoTask => task_state[owner] # "DEAD"
    /\ owner # NoTask /\ InQueue(owner) => ReentrantDown

\* Inductive: each part is used in the proof that some step keeps another.

IInv == TypeOK /\ RunningIsCurrent /\ WaitersAreBlocked /\ SemaphoreConsistent

-----------------------------------------------------------------------------

\* The initial state has an empty table, an idle CPU and an empty queue.
LEMMA InitInv == Init => IInv
  <1> SUFFICES ASSUME Init PROVE IInv
    OBVIOUS
  <1> USE DEF Init, SchedInit
  <1>1. TypeOK
    BY EmptyQueue, SchedulerAssumption DEF TypeOK, SchedTypeOK, TaskStates, Tasks, NoTask
  <1>2. RunningIsCurrent
    BY DEF RunningIsCurrent, Tasks, NoTask
  <1>3. WaitersAreBlocked
    BY EmptyQueue DEF WaitersAreBlocked, InQueue
  <1>4. SemaphoreConsistent
    BY DEF SemaphoreConsistent
  <1> QED
    BY <1>1, <1>2, <1>3, <1>4 DEF IInv

\* schedule_task keeps the table and the pointer in step, given a table without
\* any RUNNING entry.
LEMMA Scheduling ==
    ASSUME NEW st \in [Tasks -> TaskStates], NEW t \in Tasks,
           \A u \in Tasks : st[u] # "RUNNING",
           schedule_task(st, t)
    PROVE  /\ task_state' \in [Tasks -> TaskStates]
           /\ current_task' = t
           /\ elapsed' \in 0 .. MaxQuantum
           /\ RunningIsCurrent'
           /\ \A u \in Tasks : u # t => task_state'[u] = st[u]
           /\ task_state'[t] = "RUNNING"
  <1>1. task_state' = [st EXCEPT ![t] = "RUNNING"] /\ current_task' = t /\ elapsed' = 0
    BY DEF schedule_task
  <1>2. task_state' \in [Tasks -> TaskStates]
    BY <1>1 DEF TaskStates
  <1> QED
    BY <1>1, <1>2, SchedulerAssumption DEF RunningIsCurrent

LEMMA CreateInv == IInv /\ Create => IInv'
  <1> SUFFICES ASSUME IInv, Create PROVE IInv'
    OBVIOUS
  <1> USE DEF IInv, TypeOK, SchedTypeOK
  <1>1. /\ UNCHANGED <<current_task, current_quantum, elapsed, value, owner, wait_queue>>
        /\ \/ \E t \in find_free_slot : task_state' = [task_state EXCEPT ![t] = "READY"]
           \/ UNCHANGED task_state
    BY DEF Create, create_task, semVars
  <1>2. CASE UNCHANGED task_state
    BY <1>1, <1>2 DEF RunningIsCurrent, WaitersAreBlocked, InQueue, SemaphoreConsistent
  <1>3. ASSUME NEW t \in find_free_slot, task_state' = [task_state EXCEPT ![t] = "READY"]
        PROVE  IInv'
    <2>1. t \in Tasks /\ task_state[t] = "DEAD"
      BY DEF find_free_slot
    <2>2. TypeOK'
      BY <1>1, <1>3, <2>1 DEF TaskStates
    <2>3. RunningIsCurrent'
      BY <1>1, <1>3, <2>1 DEF RunningIsCurrent
    <2>4. WaitersAreBlocked'
      BY <1>1, <1>3, <2>1 DEF WaitersAreBlocked, InQueue
    <2>5. SemaphoreConsistent'
      BY <1>1, <1>3, <2>1 DEF SemaphoreConsistent, InQueue, Tasks, NoTask
    <2> QED
      BY <2>2, <2>3, <2>4, <2>5
  <1> QED
    BY <1>1, <1>2, <1>3

LEMMA StartInv == IInv /\ Start => IInv'
  <1> SUFFICES ASSUME IInv, Start PROVE IInv'
    OBVIOUS
  <1> USE DEF IInv, TypeOK, SchedTypeOK
  <1>1. /\ current_task = NoTask
        /\ UNCHANGED <<current_quantum, value, owner, wait_queue>>
    BY DEF Start, start, semVars
  <1>2. PICK t \in find_first_ready : schedule_task(task_state, t)
    BY DEF Start, start
  <1>3. t \in Tasks /\ task_state[t] = "READY"
    BY DEF find_first_ready, Ready
  <1>4. \A u \in Tasks : task_state[u] # "RUNNING"
    BY <1>1 DEF RunningIsCurrent, Tasks, NoTask
  <1>5. /\ task_state' \in [Tasks -> TaskStates]
        /\ current_task' = t
        /\ elapsed' \in 0 .. MaxQuantum
        /\ RunningIsCurrent'
        /\ \A u \in Tasks : u # t => task_state'[u] = task_state[u]
        /\ task_state'[t] = "RUNNING"
    BY <1>2, <1>3, <1>4, Scheduling
  <1>6. WaitersAreBlocked'
    BY <1>1, <1>3, <1>5 DEF WaitersAreBlocked, InQueue
  <1>7. SemaphoreConsistent'
    BY <1>1, <1>3, <1>5 DEF SemaphoreConsistent, InQueue
  <1> QED
    BY <1>1, <1>3, <1>5, <1>6, <1>7

LEMMA YieldInv == IInv /\ Yield => IInv'
  <1> SUFFICES ASSUME IInv, Yield PROVE IInv'
    OBVIOUS
  <1> USE DEF IInv, TypeOK, SchedTypeOK
  <1>1. /\ current_task # NoTask
        /\ UNCHANGED <<current_quantum, value, owner, wait_queue>>
    BY DEF Yield, yield, semVars
  <1>2. CASE elapsed' = 0 /\ UNCHANGED <<task_state, current_task>>
    BY <1>1, <1>2, SchedulerAssumption
       DEF RunningIsCurrent, WaitersAreBlocked, InQueue, SemaphoreConsistent
  <1>3. ASSUME NEW t \in find_next_ready_from(task_state, current_task),
               schedule_task([task_state EXCEPT ![current_task] = "READY"], t)
        PROVE  IInv'
    <2> DEFINE st == [task_state EXCEPT ![current_task] = "READY"]
    <2>1. current_task \in Tasks /\ task_state[current_task] = "RUNNING"
      BY <1>1 DEF RunningIsCurrent
    <2>2. t \in Tasks /\ task_state[t] = "READY"
      BY DEF find_next_ready_from, Ready
    <2>3. st \in [Tasks -> TaskStates] /\ \A u \in Tasks : st[u] # "RUNNING"
      BY <2>1 DEF RunningIsCurrent, TaskStates
    <2>4. /\ task_state' \in [Tasks -> TaskStates]
          /\ current_task' = t
          /\ elapsed' \in 0 .. MaxQuantum
          /\ RunningIsCurrent'
          /\ \A u \in Tasks : u # t => task_state'[u] = st[u]
          /\ task_state'[t] = "RUNNING"
      BY <1>3, <2>2, <2>3, Scheduling
    <2>5. \A u \in Tasks : task_state'[u] = task_state[u] \/ {task_state[u], task_state'[u]} = {"READY", "RUNNING"}
      BY <2>1, <2>2, <2>4
    <2>6. WaitersAreBlocked'
      BY <1>1, <2>5 DEF WaitersAreBlocked, InQueue
    <2>7. SemaphoreConsistent'
      BY <1>1, <2>5 DEF SemaphoreConsistent, InQueue
    <2> QED
      BY <1>1, <2>2, <2>4, <2>6, <2>7
  <1> QED
    BY <1>2, <1>3 DEF Yield, yield

LEMMA WorkInv ==
    ASSUME NEW delta \in WorkSlices, IInv, Work(delta)
    PROVE  IInv'
  <1>1. UNCHANGED <<task_state, current_task, current_quantum, value, owner, wait_queue>>
    BY DEF Work, simulate_cpu_work, semVars
  <1>2. elapsed' \in 0 .. MaxQuantum
    BY SchedulerAssumption DEF Work, simulate_cpu_work, IInv, TypeOK, SchedTypeOK
  <1> QED
    BY <1>1, <1>2 DEF IInv, TypeOK, SchedTypeOK, RunningIsCurrent, WaitersAreBlocked, InQueue, SemaphoreConsistent

LEMMA SetQuantumInv ==
    ASSUME NEW q \in Quanta, IInv, SetQuantum(q)
    PROVE  IInv'
  <1>1. /\ UNCHANGED <<task_state, current_task, elapsed, value, owner, wait_queue>>
        /\ current_quantum' \in 1 .. MaxQuantum
    BY SchedulerAssumption DEF SetQuantum, set_quantum, semVars
  <1> QED
    BY <1>1 DEF IInv, TypeOK, SchedTypeOK, RunningIsCurrent, WaitersAreBlocked, InQueue, SemaphoreConsistent

\* What block_task does to the table and the pointer, whichever way it ends.
LEMMA Blocking ==
    ASSUME IInv, NEW t \in Tasks, block_task(t)
    PROVE  /\ SchedTypeOK'
           /\ RunningIsCurrent'
           /\ task_state'[t] = "BLOCKED"
           /\ \A u \in Tasks \ {t} :
                 task_state'[u] = task_state[u] \/ (task_state[u] = "READY" /\ task_state'[u] = "RUNNING")
  <1> USE DEF IInv, TypeOK, SchedTypeOK
  <1> DEFINE blocked == [task_state EXCEPT ![t] = "BLOCKED"]
  <1>1. /\ blocked \in [Tasks -> TaskStates]
        /\ blocked[t] = "BLOCKED"
        /\ \A u \in Tasks \ {t} : blocked[u] = task_state[u]
    BY DEF TaskStates
  <1>2. UNCHANGED current_quantum
    BY DEF block_task
  <1> HIDE DEF blocked
  <1>3. CASE /\ current_task # t
             /\ task_state' = blocked
             /\ UNCHANGED <<current_task, elapsed>>
    BY <1>1, <1>2, <1>3 DEF RunningIsCurrent
  <1>4. CASE /\ current_task = t
             /\ task_state' = blocked
             /\ current_task' = NoTask
             /\ elapsed' = 0
    BY <1>1, <1>2, <1>4, SchedulerAssumption DEF RunningIsCurrent, Tasks, NoTask
  <1>5. ASSUME current_task = t,
               NEW u \in find_next_ready_from(blocked, t), schedule_task(blocked, u)
        PROVE  /\ SchedTypeOK'
               /\ RunningIsCurrent'
               /\ task_state'[t] = "BLOCKED"
               /\ \A v \in Tasks \ {t} :
                     task_state'[v] = task_state[v] \/ (task_state[v] = "READY" /\ task_state'[v] = "RUNNING")
    <2>1. u \in Tasks /\ blocked[u] = "READY" /\ u # t
      BY <1>1 DEF find_next_ready_from, Ready
    <2>2. \A v \in Tasks : blocked[v] # "RUNNING"
      BY <1>1, <1>5 DEF RunningIsCurrent
    <2>3. /\ task_state' \in [Tasks -> TaskStates]
          /\ current_task' = u
          /\ elapsed' \in 0 .. MaxQuantum
          /\ RunningIsCurrent'
          /\ \A v \in Tasks : v # u => task_state'[v] = blocked[v]
          /\ task_state'[u] = "RUNNING"
      BY <1>1, <1>5, <2>1, <2>2, Scheduling
    <2> QED
      BY <1>1, <1>2, <2>1, <2>3
  <1> QED
    BY <1>3, <1>4, <1>5 DEF block_task, blocked

LEMMA DownInv ==
    ASSUME NEW t \in Tasks, IInv, down(t)
    PROVE  IInv'
  <1> USE DEF IInv, TypeOK
  <1>1. task_state[t] \in {"READY", "RUNNING"} /\ (owner = t => ReentrantDown)
    BY DEF down, CanRun
  <1>2. CASE DownGranted(t)
    <2>1. /\ value = 1 /\ value' = 0 /\ owner' = t
          /\ UNCHANGED <<task_state, current_task, current_quantum, elapsed, wait_queue>>
      BY <1>2 DEF DownGranted, schedVars
    <2>2. ~InQueue(t)
      BY <1>1 DEF WaitersAreBlocked
    <2> QED
      BY <1>1, <2>1, <2>2
         DEF SchedTypeOK, RunningIsCurrent, WaitersAreBlocked, InQueue, SemaphoreConsistent
  <1>3. CASE DownBlocked(t)
    <2>1. /\ value = 0 /\ wait_queue' = Append(wait_queue, t)
          /\ block_task(t)
          /\ UNCHANGED <<value, owner>>
      BY <1>3 DEF DownBlocked
    <2>2. /\ SchedTypeOK'
          /\ RunningIsCurrent'
          /\ task_state'[t] = "BLOCKED"
          /\ \A u \in Tasks \ {t} :
                task_state'[u] = task_state[u] \/ (task_state[u] = "READY" /\ task_state'[u] = "RUNNING")
      BY <2>1, Blocking
    <2>3. ~Holds(wait_queue, t) /\ Distinct(wait_queue)
      BY <1>1 DEF WaitersAreBlocked, InQueue
    <2>4. /\ wait_queue' \in Seq(Tasks)
          /\ \A u : Holds(wait_queue', u) <=> Holds(wait_queue, u) \/ u = t
          /\ Distinct(wait_queue')
      BY <2>1, <2>3, Enqueue
    <2>5. WaitersAreBlocked'
      BY <2>2, <2>4 DEF WaitersAreBlocked, InQueue
    <2>6. SemaphoreConsistent'
      <3>1. value' # 1
        BY <2>1
      <3>2. owner' # NoTask => task_state'[owner'] # "DEAD"
        BY <2>1, <2>2 DEF SemaphoreConsistent
      <3>3. owner' # NoTask /\ InQueue(owner)' => ReentrantDown
        BY <1>1, <2>1, <2>4 DEF SemaphoreConsistent, InQueue
      <3> QED
        BY <3>1, <3>2, <3>3 DEF SemaphoreConsistent
    <2> QED
      BY <2>1, <2>2, <2>4, <2>5, <2>6
  <1> QED
    BY <1>2, <1>3 DEF down

LEMMA UpInv ==
    ASSUME NEW t \in Tasks, IInv, up(t)
    PROVE  IInv'
  <1> USE DEF IInv, TypeOK
  <1>1. CASE UpFree
    <2>1. /\ wait_queue = <<>> /\ value' = 1 /\ owner' = NoTask
          /\ UNCHANGED <<task_state, current_task, current_quantum, elapsed, wait_queue>>
      BY <1>1 DEF UpFree, schedVars
    <2> QED
      BY <2>1 DEF SchedTypeOK, RunningIsCurrent, WaitersAreBlocked, InQueue, SemaphoreConsistent
  <1>2. CASE UpHandOff
    <2> DEFINE h == Head(wait_queue)
    <2>1. /\ wait_queue # <<>> /\ owner' = h /\ value' = 0
          /\ wait_queue' = Tail(wait_queue)
          /\ task_state' = [task_state EXCEPT ![h] = "READY"]
          /\ UNCHANGED <<current_task, current_quantum, elapsed>>
      BY <1>2 DEF UpHandOff, unblock_task
    <2>2. /\ h \in Tasks /\ wait_queue' \in Seq(Tasks)
          /\ Holds(wait_queue, h)
          /\ \A u : Holds(wait_queue', u) <=> Holds(wait_queue, u) /\ u # h
          /\ Distinct(wait_queue')
      BY <2>1, Dequeue DEF WaitersAreBlocked
    <2> HIDE DEF h
    <2>3. task_state[h] = "BLOCKED"
      BY <2>2 DEF WaitersAreBlocked, InQueue
    <2>4. TypeOK'
      BY <2>1, <2>2 DEF SchedTypeOK, TaskStates
    <2>5. RunningIsCurrent'
      BY <2>1, <2>2, <2>3 DEF SchedTypeOK, RunningIsCurrent
    <2>6. WaitersAreBlocked'
      BY <2>1, <2>2 DEF SchedTypeOK, WaitersAreBlocked, InQueue
    <2>7. SemaphoreConsistent'
      BY <2>1, <2>2 DEF SchedTypeOK, SemaphoreConsistent, InQueue
    <2> QED
      BY <2>4, <2>5, <2>6, <2>7
  <1> QED
    BY <1>1, <1>2 DEF up

LEMMA StepInv == IInv /\ [Next]_vars => IInv'
  <1> SUFFICES ASSUME IInv, [Next]_vars PROVE IInv'
    OBVIOUS
  <1>1. CASE UNCHANGED vars
    BY <1>1 DEF vars, IInv, TypeOK, SchedTypeOK, RunningIsCurrent, WaitersAreBlocked, InQueue, SemaphoreConsistent
  <1> QED
    BY <1>1, CreateInv, StartInv, YieldInv, WorkInv, SetQuantumInv, DownInv, UpInv DEF Next

\* Every reachable state satisfies the inductive invariant, its type invariant
\* included.
THEOREM Invariance == Spec => []IInv
  <1> QED
    BY InitInv, StepInv, PTL DEF Spec

\* Type correctness of the scheduler's and the semaphore's state.
THEOREM TypeCorrect == Spec => []TypeOK
  <1>1. IInv => TypeOK
    BY DEF IInv
  <1> QED
    BY <1>1, Invariance, PTL

\* The task table, the current-task pointer and the semaphore's queue agree on who
\* runs and who waits, whatever the calls.
THEOREM RecordsKept == Spec => []RecordsAgree
  <1>1. IInv => RecordsAgree
    BY DEF IInv, RecordsAgree
  <1> QED
    BY <1>1, Invariance, PTL

\* Unless the owner waits for itself, or the semaphore started at 0, not all
\* created tasks are BLOCKED.
THEOREM NeverStuck == Spec => []StuckOnlyBySelfWait
  <1>1. ASSUME IInv PROVE StuckOnlyBySelfWait
    <2> DEFINE live == {t \in Tasks : task_state[t] # "DEAD"}
    <2>1. SUFFICES ASSUME live # {}, \A t \in live : task_state[t] = "BLOCKED"
                   PROVE  \/ owner # NoTask /\ InQueue(owner) /\ ReentrantDown
                          \/ owner = NoTask /\ value = 0
      BY DEF StuckOnlyBySelfWait
    <2>2. PICK t \in Tasks : task_state[t] = "BLOCKED"
      BY <2>1
    <2>3. wait_queue # <<>>
      BY <1>1, <2>2, EmptyQueue DEF IInv, WaitersAreBlocked, InQueue
    <2>4. value = 0
      BY <1>1, <2>3 DEF IInv, TypeOK, SemaphoreConsistent
    <2>5. CASE owner # NoTask
      <3>1. owner \in live
        BY <1>1, <2>5 DEF IInv, TypeOK, SemaphoreConsistent
      <3>2. InQueue(owner)
        BY <1>1, <2>1, <3>1 DEF IInv, WaitersAreBlocked
      <3> QED
        BY <1>1, <2>5, <3>2 DEF IInv, SemaphoreConsistent
    <2> QED
      BY <2>4, <2>5
  <1> QED
    BY <1>1, Invariance, PTL

-----------------------------------------------------------------------------

\* Scanning from c, n comes no later than t: then t is nearer to n than to c.
LEMMA Nearer ==
    ASSUME NEW c \in Tasks, NEW n \in Tasks, NEW t \in Tasks,
           n # c, n # t, Distance(c, n) <= Distance(c, t)
    PROVE  Distance(n, t) < Distance(c, t)
  BY SchedulerAssumption DEF Distance, Tasks

\* The CPU is dispatched by round robin (find_next_ready_from), whatever the calls.
THEOREM RoundRobinDispatch == Spec => RoundRobin
  <1> DEFINE Step ==
        \A t \in Tasks :
          /\ current_task # NoTask /\ current_task' \notin {NoTask, current_task}
          /\ task_state[t] = "READY" /\ task_state'[t] = "READY"
          => Distance(current_task', t) < Distance(current_task, t)
  <1>1. ASSUME IInv, IInv', [Next]_vars PROVE Step
    <2> SUFFICES ASSUME NEW t \in Tasks,
                        current_task # NoTask, current_task' # NoTask, current_task' # current_task,
                        task_state[t] = "READY", task_state'[t] = "READY"
                 PROVE  Distance(current_task', t) < Distance(current_task, t)
      OBVIOUS
    <2> DEFINE c == current_task
               n == current_task'
    <2>1. c \in Tasks /\ n \in Tasks
      BY <1>1 DEF IInv, TypeOK, SchedTypeOK
    <2>2. n # t
      BY <1>1 DEF IInv, RunningIsCurrent
    <2>3. CASE Yield
      <3>1. n \in find_next_ready_from(task_state, c)
        BY <2>3 DEF Yield, yield, schedule_task
      <3>2. Distance(c, n) <= Distance(c, t)
        BY <3>1 DEF find_next_ready_from, Ready
      <3> QED
        BY <2>1, <2>2, <3>2, Nearer
    <2>4. ASSUME NEW u \in Tasks, down(u), block_task(u)
          PROVE  Distance(n, t) < Distance(c, t)
      <3> DEFINE blocked == [task_state EXCEPT ![u] = "BLOCKED"]
      <3>1. /\ c = u
            /\ n \in find_next_ready_from(blocked, c)
        BY <2>4 DEF block_task, schedule_task
      <3>2. blocked[t] = "READY"
        BY <1>1, <2>1, <3>1 DEF IInv, TypeOK, SchedTypeOK, RunningIsCurrent
      <3>3. Distance(c, n) <= Distance(c, t)
        BY <3>1, <3>2 DEF find_next_ready_from, Ready
      <3> QED
        BY <2>1, <2>2, <3>3, Nearer
    <2>5. Yield \/ \E u \in Tasks : down(u) /\ block_task(u)
      BY <1>1 DEF Next, vars, schedVars, semVars, Create, create_task, Start, start, Work, simulate_cpu_work,
            SetQuantum, set_quantum, down, DownGranted, DownBlocked, up, UpFree, UpHandOff, unblock_task
    <2> QED
      BY <2>3, <2>4, <2>5
  <1>2. IInv /\ IInv' /\ [Next]_vars => [Step]_vars
    BY <1>1
  <1> QED
    BY <1>2, Invariance, PTL DEF Spec, RoundRobin

\* Nobody overtakes a task that waits for the semaphore, whatever the calls.
THEOREM Fifo == Spec => NoBarging
  <1> DEFINE Step ==
        wait_queue # <<>> =>
          \/ /\ owner' = owner
             /\ SubSeq(wait_queue', 1, Len(wait_queue)) = wait_queue
          \/ /\ owner' = Head(wait_queue)
             /\ wait_queue' = Tail(wait_queue)
             /\ task_state'[Head(wait_queue)] = "READY"
  <1>1. ASSUME IInv, [Next]_vars PROVE Step
    <2> SUFFICES ASSUME wait_queue # <<>> PROVE Step
      OBVIOUS
    <2>1. wait_queue \in Seq(Tasks) /\ SubSeq(wait_queue, 1, Len(wait_queue)) = wait_queue
      BY <1>1, SubSeqFull DEF IInv, TypeOK
    <2>2. CASE UNCHANGED <<owner, wait_queue>>
      BY <2>1, <2>2
    <2>3. ASSUME NEW t \in Tasks, wait_queue' = Append(wait_queue, t), owner' = owner
          PROVE  Step
      <3> DEFINE a == Append(wait_queue, t)
                 p == SubSeq(a, 1, Len(wait_queue))
      <3>1. /\ Len(wait_queue) \in Nat
            /\ \A i \in 1 .. Len(wait_queue) : a[i] = wait_queue[i] /\ a[i] \in Tasks
        BY <2>1, AppendProperties, LenProperties, ElementOfSeq
      <3> HIDE DEF a
      <3>2. /\ p \in Seq(Tasks)
            /\ Len(p) = Len(wait_queue)
            /\ \A i \in 1 .. Len(wait_queue) : p[i] = wait_queue[i]
        <4>1. /\ p \in Seq(Tasks)
              /\ Len(p) = IF 1 <= Len(wait_queue) THEN Len(wait_queue) - 1 + 1 ELSE 0
              /\ \A i \in 1 .. Len(wait_queue) - 1 + 1 : p[i] = a[1 + i - 1]
          BY <3>1, SubSeqProperties
        <4> HIDE DEF p
        <4> QED
          BY <3>1, <4>1
      <3> HIDE DEF p
      <3>3. p = wait_queue
        BY <2>1, <3>2, SeqEqual
      <3> QED
        BY <2>3, <3>3 DEF a, p
    <2>4. ASSUME NEW t \in Tasks, up(t) PROVE Step
      <3>1. UpHandOff /\ Head(wait_queue) \in Tasks
        BY <2>1, <2>4, HeadTailProperties DEF up, UpFree
      <3> QED
        BY <1>1, <3>1 DEF UpHandOff, unblock_task, IInv, TypeOK, SchedTypeOK
    <2>5. ASSUME NEW t \in Tasks, down(t) PROVE Step
      <3>1. value = 0
        BY <1>1 DEF IInv, TypeOK, SemaphoreConsistent
      <3> QED
        BY <2>3, <2>5, <3>1 DEF down, DownGranted, DownBlocked
    <2> QED
      BY <1>1, <2>2, <2>4, <2>5
         DEF Next, vars, semVars, Create, Start, Yield, Work, SetQuantum
  <1>2. IInv /\ [Next]_vars => [Step]_vars
    BY <1>1
  <1> QED
    BY <1>2, Invariance, PTL DEF Spec, NoBarging

\* A trace of lab12.cpp does what scheduler and semaphore allow: the theorems about
\* Spec are theorems about the driver, destruction at any moment included.
THEOREM DriverImplements == DriverSpec => Spec
  <1>1. DriverInit => Init
    BY DEF DriverInit
  <1>2. [DriverNext]_driverVars => [Next]_vars
    BY DEF DriverNext, driverVars, SchedulerCall, Down, Up, Destroy, Terminated, Next
  <1> QED
    BY <1>1, <1>2, PTL DEF DriverSpec, Spec

-----------------------------------------------------------------------------
(* The driver: the list is the queue *)

\* A task that waits nowhere yet finds memory for its node.
LEMMA FreeNode ==
    ASSUME NEW q \in Seq(Tasks), Distinct(q), NEW s, Linked(s, q), NEW t \in Tasks, ~Holds(q, t)
    PROVE  Nodes \ DOMAIN heap # {}
  <1>1. SUFFICES ASSUME Nodes \subseteq DOMAIN heap PROVE FALSE
    OBVIOUS
  <1>2. PICK n : n = Len(s)
    OBVIOUS
  <1>3. n \in Nat /\ Len(q) = n /\ s \in Seq(Nodes) /\ DOMAIN heap = {s[i] : i \in 1 .. n}
    BY <1>2 DEF Linked
  <1>4. IsFiniteSet(1 .. n) /\ Cardinality(1 .. n) = n
    BY <1>3, FS_Interval
  <1>5. Cardinality(Nodes) <= n
    <2>1. s \in [1 .. n -> Nodes]
      BY <1>2, <1>3
    <2>2. s \in Surjection(1 .. n, Nodes)
      BY <1>1, <1>3, <2>1 DEF Surjection
    <2> QED
      BY <1>4, <2>2, FS_Surjection
  <1>6. /\ IsFiniteSet(Tasks) /\ Cardinality(Tasks) = MAX_TASKS /\ MAX_TASKS \in Nat
    BY SchedulerAssumption, FS_Interval DEF Tasks
  <1>7. n <= MAX_TASKS - 1
    <2>1. q \in [1 .. n -> Tasks \ {t}]
      BY <1>3 DEF Holds
    <2>2. q \in Injection(1 .. n, Tasks \ {t})
      <3>1. DOMAIN q = 1 .. Len(q)
        BY <1>3
      <3> QED
        BY <2>1, <3>1 DEF Injection, IsInjective, Distinct
    <2>3. IsFiniteSet(Tasks \ {t}) /\ Cardinality(Tasks \ {t}) = MAX_TASKS - 1
      BY <1>6, FS_RemoveElement
    <2> QED
      BY <1>4, <2>2, <2>3, FS_Injection
  <1>8. Cardinality(Nodes) \in Nat
    BY DriverAssumption, FS_CardinalityType
  <1> QED
    BY <1>3, <1>5, <1>6, <1>7, <1>8, DriverAssumption

\* Inductive: the list of the semaphore's queue, which its destructor deletes.
ListInv ==
    IF destroyed THEN heap = [node \in {} |-> {}] /\ size_ = 0
                 ELSE \E s : Linked(s, wait_queue)

\* A new queue has no nodes.
LEMMA ListInitially == DriverInit => ListInv
  <1> SUFFICES ASSUME DriverInit PROVE ListInv
    OBVIOUS
  <1>1. /\ head_ = nullptr /\ tail_ = nullptr /\ size_ = 0 /\ heap = [node \in {} |-> {}]
        /\ wait_queue = <<>> /\ destroyed = FALSE
    BY DEF DriverInit, ListInit, Init
  <1>2. <<>> \in Seq(Nodes) /\ Len(<<>>) = 0 /\ DOMAIN heap = {}
    BY <1>1
  <1>3. {(<<>>)[i] : i \in 1 .. 0} = {}
    OBVIOUS
  <1>4. Linked(<<>>, wait_queue)
    BY <1>1, <1>2, <1>3 DEF Linked
  <1> QED
    BY <1>1, <1>4 DEF ListInv

\* Every call of the driver: block_task of down enqueues, up dequeues, the end deletes.
LEMMA ListKept ==
    ASSUME IInv, ListInv, [DriverNext]_driverVars
    PROVE  ListInv'
  <1>1. wait_queue \in Seq(Tasks)
    BY DEF IInv, TypeOK
  <1>2. ASSUME UNCHANGED <<list, destroyed, wait_queue>> PROVE ListInv'
    BY <1>2 DEF ListInv, list, Linked
  <1>3. CASE UNCHANGED driverVars
    BY <1>2, <1>3 DEF driverVars, vars
  <1>4. CASE Terminated
    BY <1>2, <1>4 DEF Terminated, driverVars, vars
  <1>5. ASSUME \/ SchedulerCall(Create) \/ SchedulerCall(Start) \/ SchedulerCall(Yield)
               \/ \E delta \in WorkSlices : SchedulerCall(Work(delta))
               \/ \E q \in Quanta : SchedulerCall(SetQuantum(q))
        PROVE  ListInv'
    BY <1>2, <1>5 DEF SchedulerCall, Create, Start, Yield, Work, SetQuantum, semVars
  <1>6. ASSUME NEW t \in Tasks, Down(t) PROVE ListInv'
    <2>1. ~destroyed /\ destroyed' = destroyed /\ down(t)
      BY <1>6 DEF Down
    <2>2. CASE value > 0
      <3>1. UNCHANGED list /\ UNCHANGED wait_queue
        BY <1>6, <2>1, <2>2 DEF Down, down, DownGranted, DownBlocked
      <3> QED
        BY <1>2, <2>1, <3>1
    <2>3. CASE ~ (value > 0)
      <3>1. En_Q(t) /\ wait_queue' = Append(wait_queue, t)
        BY <1>6, <2>1, <2>3 DEF Down, down, DownGranted, DownBlocked
      <3>2. Distinct(wait_queue) /\ ~Holds(wait_queue, t)
        BY <2>1 DEF IInv, WaitersAreBlocked, InQueue, down, CanRun
      <3>3. PICK s : Linked(s, wait_queue)
        BY <2>1 DEF ListInv
      <3>4. PICK q : q = wait_queue
        OBVIOUS
      <3>5. \E u : Linked(u, Append(q, t))'
        BY <1>1, <3>1, <3>2, <3>3, <3>4, FreeNode, Enqueued
      <3>6. wait_queue' = Append(q, t)
        BY <3>1, <3>4
      <3> QED
        BY <2>1, <3>5, <3>6 DEF ListInv, Linked
    <2> QED
      BY <2>2, <2>3
  <1>7. ASSUME NEW t \in Tasks, Up(t) PROVE ListInv'
    <2>1. ~destroyed /\ destroyed' = destroyed /\ up(t)
      BY <1>7 DEF Up
    <2>2. PICK s : Linked(s, wait_queue)
      BY <2>1 DEF ListInv
    <2>3. isEmpty <=> wait_queue = <<>>
      BY <1>1, <2>2, LinkedFacts DEF isEmpty
    <2>4. CASE wait_queue = <<>>
      <3>1. UNCHANGED list /\ UNCHANGED wait_queue
        BY <1>7, <2>1, <2>3, <2>4 DEF Up, up, UpFree, UpHandOff
      <3> QED
        BY <1>2, <2>1, <3>1
    <2>5. CASE wait_queue # <<>>
      <3>1. De_Q /\ wait_queue' = Tail(wait_queue)
        BY <1>7, <2>1, <2>3, <2>5 DEF Up, up, UpFree, UpHandOff
      <3>2. PICK q : q = wait_queue
        OBVIOUS
      <3>3. \E u : Linked(u, Tail(q))'
        BY <1>1, <2>2, <3>1, <3>2, Dequeued
      <3>4. wait_queue' = Tail(q)
        BY <3>1, <3>2
      <3> QED
        BY <2>1, <3>3, <3>4 DEF ListInv, Linked
    <2> QED
      BY <2>4, <2>5
  <1>8. CASE Destroy
    <2>1. ~destroyed /\ destroyed' /\ Reset
      BY <1>8 DEF Destroy
    <2>2. PICK s : Linked(s, wait_queue)
      BY <2>1 DEF ListInv
    <2>3. PICK q : q = wait_queue
      OBVIOUS
    <2>4. heap' = [node \in {} |-> {}] /\ size_' = 0
      BY <1>1, <2>1, <2>2, <2>3, ResetEmpties
    <2> QED
      BY <2>1, <2>4 DEF ListInv
  <1> QED
    BY <1>3, <1>4, <1>5, <1>6, <1>7, <1>8 DEF DriverNext

\* The linked list is the semaphore's queue, whatever the calls, and none of its nodes is
\* left once the semaphore is destroyed (queue.h, lab12_Semaphore.cpp).
THEOREM ListKeepsQueue == DriverSpec => []ListIsQueue
  <1>1. IInv /\ ListInv => ListIsQueue
    <2>1. ASSUME IInv, ~destroyed, NEW s, Linked(s, wait_queue) PROVE Represents(wait_queue)
      <3>1. wait_queue \in Seq(Tasks)
        BY <2>1 DEF IInv, TypeOK
      <3> QED
        BY <2>1, <3>1, LinkedRepresents
    <2> QED
      BY <2>1 DEF ListInv, ListIsQueue, isEmpty
  <1>2. DriverInit => ListInv
    BY ListInitially
  <1>3. IInv /\ ListInv /\ [DriverNext]_driverVars => ListInv'
    BY ListKept
  <1>4. DriverSpec => []IInv
    BY DriverImplements, Invariance, PTL
  <1> QED
    BY <1>1, <1>2, <1>3, <1>4, PTL DEF DriverSpec
=============================================================================
