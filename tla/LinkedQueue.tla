---------------------------- MODULE LinkedQueue ----------------------------
(***************************************************************************)
(* The Queue template of queue.h as it is built: nodes on the heap, linked *)
(* from head_ to tail_, and a count.  heap holds the nodes allocated and   *)
(* not deleted; reading any other address is undefined in C++.             *)
(***************************************************************************)
EXTENDS Integers, Sequences

CONSTANTS
    Nodes,      \* addresses a node may have
    nullptr     \* the null pointer, no address

ASSUME LinkedQueueAssumption == nullptr \notin Nodes

VARIABLES head_, tail_, size_, heap

list == <<head_, tail_, size_, heap>>

ListInit ==
    /\ head_ = nullptr
    /\ tail_ = nullptr
    /\ size_ = 0
    /\ heap = [node \in {} |-> {}]

isEmpty == size_ = 0

\* Where new puts a node: an address that is free, perhaps one deleted before.
NewNode == CHOOSE node \in Nodes : node \notin DOMAIN heap

En_Q(value) ==
    /\ heap' = [node \in DOMAIN heap \cup {NewNode} |->
                  CASE node = NewNode -> [value |-> value, next |-> nullptr]
                    [] node = tail_   -> [heap[node] EXCEPT !.next = NewNode]
                    [] OTHER          -> heap[node]]
    /\ head_' = IF tail_ = nullptr THEN NewNode ELSE head_
    /\ tail_' = NewNode
    /\ size_' = size_ + 1

\* The node after a node; what a deleted node says is not to be relied on.
Next_(node) == IF node \in DOMAIN heap THEN heap[node].next ELSE nullptr

\* (Bug) tail_ keeps pointing at the node just deleted when it was the last.
Bug_TailKept ==
    /\ ~isEmpty
    /\ heap' = [node \in DOMAIN heap \ {head_} |-> heap[node]]
    /\ head_' = Next_(head_)
    /\ size_' = size_ - 1
    /\ UNCHANGED tail_

\* Throws, and is not called, on an empty queue.
De_Q ==
    /\ ~isEmpty
    /\ heap' = [node \in DOMAIN heap \ {head_} |-> heap[node]]
    /\ head_' = Next_(head_)
    /\ tail_' = IF head_' = nullptr THEN nullptr ELSE tail_
    /\ size_' = size_ - 1

\* The node size_ calls of De_Q, or the loop of Get_Q_String, reach i-th.
chain[i \in 1 .. size_] == IF i = 1 THEN head_ ELSE Next_(chain[i - 1])

\* De_Q until the queue is empty: what the destructor does.
Reset ==
    /\ heap' = [node \in DOMAIN heap \ {chain[i] : i \in 1 .. size_} |-> heap[node]]
    /\ head_' = IF isEmpty THEN head_ ELSE Next_(chain[size_])
    /\ tail_' = IF head_' = nullptr THEN nullptr ELSE tail_
    /\ size_' = 0

\* The list is the sequence values: its nodes, in the order of the links, are all the
\* nodes there are, each once, and tail_ is the last of them.
Represents(values) ==
    LET nodes == {chain[i] : i \in 1 .. size_} IN
    /\ size_ = Len(values)
    /\ nodes = DOMAIN heap
    /\ \A i, j \in 1 .. size_ : chain[i] = chain[j] => i = j
    /\ \A i \in 1 .. size_ : heap[chain[i]].value = values[i]
    /\ IF isEmpty THEN head_ = nullptr /\ tail_ = nullptr
                  ELSE tail_ = chain[size_] /\ heap[tail_].next = nullptr
=============================================================================
