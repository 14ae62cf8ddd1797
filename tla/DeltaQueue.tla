------------------------------ MODULE DeltaQueue ------------------------------
(***************************************************************************)
(* The queue of the C++ client (Queue.cpp): nodes in the order in which    *)
(* they are due, each with its time relative to the node before it.        *)
(***************************************************************************)
EXTENDS Integers, Sequences

\* When each node is due, counted like the first node's time; 0 before all.
Due(q) ==
  LET due[i \in 0..Len(q)] == IF i = 0 THEN 0 ELSE due[i - 1] + q[i].t
  IN  due

\* The node that is found by this transaction id, if any.
IsFirst(q, id, i) ==
  i \in 1..Len(q) /\ q[i].id = id /\ \A j \in 1..(i - 1) : q[j].id # id
HasNode(q, id) == \E i \in 1..Len(q) : q[i].id = id
NodeIndex(q, id) == CHOOSE i \in 1..Len(q) : IsFirst(q, id, i)

\* coapAddNode walks past every node that is not due later than the new one;
\* what is left of the new node's time is its distance to the last of them.
Place(q, n) ==
  CHOOSE p \in 0..Len(q) :
    /\ p = Len(q) \/ q[p + 1].t > n.t - Due(q)[p]
    /\ \A k \in 0..(p - 1) : q[k + 1].t <= n.t - Due(q)[k]

\* Variant of coapAddNode: the node after the new one keeps its time.
AddNodeAlone(q, n) ==
  LET p == Place(q, n) IN
  SubSeq(q, 1, p) \o <<[n EXCEPT !.t = @ - Due(q)[p]]>> \o SubSeq(q, p + 1, Len(q))

coapAddNode(q, n) ==
  LET p      == Place(q, n)
      placed == [n EXCEPT !.t = @ - Due(q)[p]]
  IN  IF p = Len(q)
        THEN Append(q, placed)
        ELSE SubSeq(q, 1, p)
             \o <<placed, [q[p + 1] EXCEPT !.t = @ - placed.t]>>
             \o SubSeq(q, p + 2, Len(q))

\* The node after the removed one takes over its time.
coapRemoveNode(q, id) ==
  LET i == NodeIndex(q, id) IN
  IF i = Len(q)
    THEN SubSeq(q, 1, i - 1)
    ELSE SubSeq(q, 1, i - 1)
         \o <<[q[i + 1] EXCEPT !.t = @ + q[i].t]>>
         \o SubSeq(q, i + 2, Len(q))
=============================================================================
