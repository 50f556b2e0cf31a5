----------------------------- MODULE DataLemmas -----------------------------
(***************************************************************************)
(* What the operations of a FIFO queue do to the values it holds, and the  *)
(* induction over the naturals that the other proofs use.                  *)
(***************************************************************************)
EXTENDS FifoQueue, SequenceTheorems, WellFoundedInduction, TLAPS

-----------------------------------------------------------------------------
(* Queues *)

\* An empty queue holds nothing (a Queue as queue.h constructs it).
LEMMA EmptyQueue ==
    ASSUME NEW S
    PROVE  /\ <<>> \in Seq(S)
           /\ \A u : ~Holds(<<>>, u)
           /\ Distinct(<<>>)
  <1>1. <<>> \in Seq(S) /\ Len(<<>>) = 0
    BY EmptySeq
  <1> QED
    BY <1>1 DEF Holds, Distinct

\* En_Q adds its argument and keeps what was there; it keeps the values distinct
\* when the argument is new.
LEMMA Enqueue ==
    ASSUME NEW S, NEW q \in Seq(S), NEW v \in S
    PROVE  /\ Append(q, v) \in Seq(S)
           /\ \A u : Holds(Append(q, v), u) <=> Holds(q, u) \/ u = v
           /\ Distinct(q) /\ ~Holds(q, v) => Distinct(Append(q, v))
  <1> DEFINE a == Append(q, v)
  <1>1. /\ a \in Seq(S)
        /\ Len(q) \in Nat
        /\ Len(a) = Len(q) + 1
        /\ \A i \in 1 .. Len(q) : a[i] = q[i]
        /\ a[Len(q) + 1] = v
    BY AppendProperties, LenProperties
  <1> HIDE DEF a
  <1>2. \A u : Holds(a, u) <=> Holds(q, u) \/ u = v
    BY <1>1 DEF Holds
  <1>3. Distinct(q) /\ ~Holds(q, v) => Distinct(a)
    BY <1>1 DEF Holds, Distinct
  <1> QED
    BY <1>1, <1>2, <1>3 DEF a

\* De_Q on a queue of distinct values removes the front one and nothing else.
LEMMA Dequeue ==
    ASSUME NEW S, NEW q \in Seq(S), q # <<>>, Distinct(q)
    PROVE  /\ Head(q) \in S /\ Tail(q) \in Seq(S)
           /\ Holds(q, Head(q))
           /\ \A u : Holds(Tail(q), u) <=> Holds(q, u) /\ u # Head(q)
           /\ Distinct(Tail(q))
  <1> DEFINE r == Tail(q)
  <1>1. /\ Head(q) \in S
        /\ r \in Seq(S)
        /\ Len(r) = Len(q) - 1
        /\ \A i \in 1 .. Len(r) : r[i] = q[i + 1]
    BY HeadTailProperties
  <1>2. Len(q) \in Nat \ {0} /\ Head(q) = q[1]
    BY EmptySeq
  <1> HIDE DEF r
  <1>3. Holds(q, Head(q))
    BY <1>2 DEF Holds
  <1>4. ASSUME NEW u PROVE Holds(r, u) <=> Holds(q, u) /\ u # Head(q)
    <2>1. ASSUME Holds(r, u) PROVE Holds(q, u) /\ u # Head(q)
      <3>1. PICK i \in 1 .. Len(r) : r[i] = u
        BY <2>1 DEF Holds
      <3>2. i + 1 \in 1 .. Len(q) /\ q[i + 1] = u /\ i + 1 # 1
        BY <1>1, <1>2, <3>1
      <3> QED
        BY <1>2, <3>2 DEF Holds, Distinct
    <2>2. ASSUME Holds(q, u), u # Head(q) PROVE Holds(r, u)
      <3>1. PICK i \in 1 .. Len(q) : q[i] = u
        BY <2>2 DEF Holds
      <3>2. i - 1 \in 1 .. Len(r) /\ r[i - 1] = q[(i - 1) + 1] /\ (i - 1) + 1 = i
        BY <1>1, <1>2, <2>2, <3>1
      <3> QED
        BY <3>1, <3>2 DEF Holds
    <2> QED
      BY <2>1, <2>2
  <1>5. Distinct(r)
    <2>1. SUFFICES ASSUME NEW i \in 1 .. Len(r), NEW j \in 1 .. Len(r), r[i] = r[j]
                   PROVE  i = j
      BY DEF Distinct
    <2>2. i + 1 \in 1 .. Len(q) /\ j + 1 \in 1 .. Len(q) /\ q[i + 1] = q[j + 1]
      BY <1>1, <1>2, <2>1
    <2> QED
      BY <2>2 DEF Distinct
  <1> QED
    BY <1>1, <1>3, <1>4, <1>5 DEF r

-----------------------------------------------------------------------------
(* Naturals *)

LEMMA LeastElement ==
    ASSUME NEW T, T \subseteq Nat, T # {}
    PROVE  \E x \in T : \A y \in T : x <= y
  <1>1. \E R : /\ IsWellFoundedOn(R, Nat)
               /\ \A x, y \in Nat : <<y, x>> \in R <=> y < x
    <2>1. \A x, y \in Nat : <<y, x>> \in OpToRel(<, Nat) <=> y < x
      BY DEF OpToRel
    <2> QED
      BY <2>1, NatLessThanWellFounded, Zenon
  <1>2. PICK R : /\ IsWellFoundedOn(R, Nat)
                 /\ \A x, y \in Nat : <<y, x>> \in R <=> y < x
    BY <1>1
  <1>3. \E x \in T : \A y \in T : ~ (<<y, x>> \in R)
    BY <1>2, WFMin
  <1>4. PICK x \in T : \A y \in T : <<y, x>> \notin R
    BY <1>3
  <1>5. ASSUME NEW y \in T PROVE x <= y
    <2>1. x \in Nat /\ y \in Nat /\ ~(y < x)
      BY <1>2, <1>4
    <2> QED
      BY <2>1
  <1> QED
    BY <1>4, <1>5

\* Induction, for a set of naturals.
LEMMA SetInduction ==
    ASSUME NEW S, 0 \in S, \A k \in Nat : k \in S => k + 1 \in S
    PROVE  Nat \subseteq S
  <1>1. SUFFICES ASSUME Nat \ S # {} PROVE FALSE
    OBVIOUS
  <1>2. PICK x \in Nat \ S : \A y \in Nat \ S : x <= y
    BY <1>1, LeastElement
  <1> QED
    BY <1>2
=============================================================================
