----------------------------- MODULE FifoChannel -----------------------------
(***************************************************************************)
(* What the bounded buffer of Lab_11 promises: a channel of Capacity items *)
(* from one producer to one consumer, who receives every item sent, once,  *)
(* in the order sent.  The producer sends 0, 1, ... Total - 1.             *)
(***************************************************************************)
EXTENDS Integers, Sequences

CONSTANTS Capacity, Total

VARIABLES
    pending,    \* items sent and not yet received, oldest first
    sent,       \* items sent so far
    delivered   \* items received so far, in order

vars == <<pending, sent, delivered>>

Init ==
    /\ pending = <<>>
    /\ sent = 0
    /\ delivered = <<>>

Send ==
    /\ sent < Total
    /\ Len(pending) < Capacity
    /\ pending' = Append(pending, sent)
    /\ sent' = sent + 1
    /\ UNCHANGED delivered

Receive ==
    /\ pending # <<>>
    /\ delivered' = Append(delivered, Head(pending))
    /\ pending' = Tail(pending)
    /\ UNCHANGED sent

Next == Send \/ Receive

Safety == Init /\ [][Next]_vars

\* Neither side is held up for ever.
Spec == Safety /\ WF_vars(Send) /\ WF_vars(Receive)
=============================================================================
