----------------------------- MODULE FifoQueue -----------------------------
(***************************************************************************)
(* The Queue template of queue.h, as the sequence of its values, oldest    *)
(* first: En_Q is Append, Front is Head, De_Q takes Head and leaves Tail,  *)
(* and IsEmpty compares with <<>>.  Front and De_Q throw on an empty       *)
(* queue, so a model may apply Head and Tail only where the code would     *)
(* not throw; that it does is a property of its callers.                   *)
(***************************************************************************)
EXTENDS Integers, Sequences

\* v stands in q.
Holds(q, v) == \E i \in 1 .. Len(q) : q[i] = v

\* Nothing stands in q twice.
Distinct(q) == \A i, j \in 1 .. Len(q) : q[i] = q[j] => i = j
=============================================================================
