----------------------------- MODULE ClientProofs -----------------------------
(***************************************************************************)
(* The C++ client: what its queue of time differences keeps, that the      *)
(* timer is armed for the first pending request, that pending requests are *)
(* whole, that none is put off, and that the client implements             *)
(* RequestPromise.                                                         *)
(*                                                                         *)
(* Due is defined by recursion.  What it computes is proved by the least   *)
(* counterexample (LeastElement): no induction theorem is needed.          *)
(***************************************************************************)
EXTENDS CoapClient, SequenceLemmas

USE ClientAssumption

(***************************************************************************)
(* When each node is due.                                                  *)
(***************************************************************************)
Nodes == Seq(Node)

\* d tells for the first n nodes of q when they are due.
IsDue(q, n, d) ==
  /\ d \in [0..n -> Int] /\ d[0] = 0
  /\ \A i \in 1..n : d[i] = d[i-1] + q[i].t

LEMMA NodeFacts ==
  ASSUME NEW q \in Nodes
  PROVE  /\ Len(q) \in Nat
         /\ \A i \in 1..Len(q) : q[i] \in Node /\ q[i].t \in Nat
<1>1. q \in Seq(Node)
  BY DEF Nodes
<1>2. Len(q) \in Nat /\ \A i \in 1..Len(q) : q[i] \in Node
  BY <1>1, LenProperties, ElementOfSeq
<1> QED BY <1>2 DEF Node

LEMMA DueExists ==
  ASSUME NEW q \in Nodes
  PROVE  \E d : IsDue(q, Len(q), d)
<1> DEFINE Without == {n \in 0..Len(q) : ~\E d : IsDue(q, n, d)}
<1> SUFFICES ASSUME Without # {} PROVE FALSE
  BY NodeFacts
<1>1. PICK n \in Without : \A m \in Without : n <= m
  <2>1. Without \subseteq Nat
    BY NodeFacts
  <2> HIDE DEF Without
  <2> QED BY <2>1, LeastElement
<1>2. CASE n = 0
  <2> DEFINE d == [i \in 0..0 |-> 0]
  <2>1. IsDue(q, 0, d)
    BY DEF IsDue
  <2> QED BY <1>1, <1>2, <2>1
<1>3. CASE n # 0
  <2>1. n \in 1..Len(q) /\ n-1 \in 0..Len(q) /\ ~(n <= n-1)
    BY <1>1, <1>3, NodeFacts
  <2>2. PICK c : IsDue(q, n-1, c)
    BY <1>1, <2>1
  <2> DEFINE d == [i \in 0..n |-> IF i = n THEN c[n-1] + q[n].t ELSE c[i]]
  <2>3. q[n].t \in Int
    BY <2>1, NodeFacts
  <2>4. IsDue(q, n, d)
    BY <2>1, <2>2, <2>3 DEF IsDue
  <2> HIDE DEF d
  <2> QED BY <1>1, <2>4
<1> QED BY <1>2, <1>3

\* Due computes what its recursion says.
LEMMA DueIsDue ==
  ASSUME NEW q \in Nodes
  PROVE  IsDue(q, Len(q), Due(q))
<1> DEFINE F(f) == [i \in 0..Len(q) |-> IF i = 0 THEN 0 ELSE f[i-1] + q[i].t]
<1>0. Len(q) \in Nat /\ \A i \in 1..Len(q) : q[i].t \in Int
  BY NodeFacts
<1>1. PICK d : IsDue(q, Len(q), d)
  BY DueExists
<1>2. d = F(d)
  BY <1>0, <1>1 DEF IsDue
<1>3. Due(q) = CHOOSE f : f = F(f)
  BY DEF Due
<1>4. Due(q) = F(Due(q))
  <2> HIDE DEF F
  <2> QED BY <1>2, <1>3
<1> DEFINE e == Due(q)
<1> HIDE DEF e
<1>5. e = F(e)
  BY <1>4 DEF e
<1>6. \A i \in 0..Len(q) : e[i] = d[i]
  <2> DEFINE Differ == {i \in 0..Len(q) : e[i] # d[i]}
  <2> SUFFICES ASSUME Differ # {} PROVE FALSE
    OBVIOUS
  <2>1. PICK n \in Differ : \A m \in Differ : n <= m
    <3>1. Differ \subseteq Nat
      BY <1>0
    <3> HIDE DEF Differ
    <3> QED BY <3>1, LeastElement
  <2>2. n \in 0..Len(q) /\ e[n] # d[n]
    BY <2>1
  <2>3. n # 0
    BY <1>0, <1>1, <1>5, <2>2 DEF IsDue
  <2>4. n-1 \in 0..Len(q) /\ ~(n <= n-1)
    BY <1>0, <2>2, <2>3
  <2>5. e[n-1] = d[n-1]
    BY <2>1, <2>4
  <2>6. e[n] = e[n-1] + q[n].t
    BY <1>5, <2>2, <2>3
  <2>7. d[n] = d[n-1] + q[n].t
    BY <1>1, <2>2, <2>3 DEF IsDue
  <2> QED BY <2>2, <2>5, <2>6, <2>7
<1>7. DOMAIN e = 0..Len(q) /\ e = [i \in DOMAIN e |-> e[i]]
  BY <1>5
<1>8. e = d
  BY <1>1, <1>6, <1>7 DEF IsDue
<1> QED BY <1>1, <1>8 DEF e

\* Only one function does.
LEMMA DueUnique ==
  ASSUME NEW q \in Nodes, NEW d, IsDue(q, Len(q), d)
  PROVE  Due(q) = d
<1> DEFINE e == Due(q)
           Differ == {i \in 0..Len(q) : e[i] # d[i]}
<1>0. Len(q) \in Nat /\ IsDue(q, Len(q), e)
  BY NodeFacts, DueIsDue
<1> HIDE DEF e
<1>1. Differ = {}
  <2> SUFFICES ASSUME Differ # {} PROVE FALSE
    OBVIOUS
  <2>1. PICK n \in Differ : \A m \in Differ : n <= m
    <3>1. Differ \subseteq Nat
      BY <1>0
    <3> HIDE DEF Differ
    <3> QED BY <3>1, LeastElement
  <2>2. n \in 1..Len(q) /\ n-1 \in 0..Len(q) /\ ~(n <= n-1)
    BY <1>0, <2>1 DEF IsDue
  <2> QED BY <1>0, <2>1, <2>2 DEF IsDue
<1> QED BY <1>0, <1>1 DEF IsDue, e

(***************************************************************************)
(* A queue made from another one: e tells for each node where it was, 0    *)
(* for the new one, n.  All nodes that stay are due delta later.           *)
(***************************************************************************)
Like(m, n) ==
  m.id = n.id /\ m.req = n.req /\ m.rc = n.rc /\ m.timeout = n.timeout

From(a, q, e, delta) ==
  /\ e \in [1..Len(a) -> 0..Len(q)]
  /\ \A i, j \in 1..Len(a) : e[i] = e[j] => i = j
  /\ \A i \in 1..Len(a) :
       e[i] # 0 => /\ Like(a[i], q[e[i]])
                   /\ Due(a)[i] = Due(q)[e[i]] + delta

\* Nodes only go away, among them the one at k.
Loses(a, q, e, k) == \A i \in 1..Len(a) : e[i] # 0 /\ e[i] # k

LEMMA FromCompose ==
  ASSUME NEW q \in Nodes, NEW a \in Nodes, NEW b \in Nodes,
         NEW e, NEW f, NEW x \in Int, NEW y \in Int,
         From(a, q, e, x), From(b, a, f, y), Loses(a, q, e, 0)
  PROVE  From(b, q, [i \in 1..Len(b) |-> IF f[i] = 0 THEN 0 ELSE e[f[i]]], x + y)
<1> DEFINE g == [i \in 1..Len(b) |-> IF f[i] = 0 THEN 0 ELSE e[f[i]]]
<1>1. Len(q) \in Nat /\ Len(a) \in Nat /\ Len(b) \in Nat
  BY NodeFacts
<1>2. \A i \in 1..Len(b) :
        \/ f[i] = 0 /\ g[i] = 0
        \/ f[i] \in 1..Len(a) /\ g[i] = e[f[i]] /\ g[i] \in 1..Len(q)
  BY <1>1 DEF From, Loses
<1>3. g \in [1..Len(b) -> 0..Len(q)]
  BY <1>1, <1>2
<1> HIDE DEF g
<1>4. \A i, j \in 1..Len(b) : g[i] = g[j] => i = j
  BY <1>2 DEF From
<1>5. ASSUME NEW i \in 1..Len(b), g[i] # 0
      PROVE  /\ Like(b[i], q[g[i]])
             /\ Due(b)[i] = Due(q)[g[i]] + (x + y)
  <2>1. f[i] \in 1..Len(a) /\ g[i] = e[f[i]] /\ g[i] \in 1..Len(q) /\ f[i] # 0
    BY <1>1, <1>2, <1>5
  <2>2. /\ Like(b[i], a[f[i]]) /\ Like(a[f[i]], q[g[i]])
        /\ Due(b)[i] = Due(a)[f[i]] + y /\ Due(a)[f[i]] = Due(q)[g[i]] + x
    BY <1>5, <2>1 DEF From
  <2>3. Due(q)[g[i]] \in Int
    BY <2>1, DueIsDue DEF IsDue
  <2> QED BY <2>2, <2>3 DEF Like
<1> QED BY <1>3, <1>4, <1>5 DEF From, g

(***************************************************************************)
(* coapAddNode.                                                            *)
(***************************************************************************)
\* The walk of coapAddNode ends, and the new node's time stays positive.
LEMMA PlaceExists ==
  ASSUME NEW q \in Nodes, NEW n \in Node
  PROVE  /\ Place(q, n) \in 0..Len(q)
         /\ n.t - Due(q)[Place(q, n)] \in Nat
         /\ Place(q, n) # Len(q) =>
              q[Place(q, n) + 1].t > n.t - Due(q)[Place(q, n)]
<1> DEFINE d == Due(q)
           L == Len(q)
           Stops(p) == p = L \/ q[p+1].t > n.t - d[p]
           P == {p \in 0..L : Stops(p)}
<1>0. /\ L \in Nat /\ n.t \in Nat /\ IsDue(q, L, d)
      /\ \A i \in 1..L : q[i].t \in Nat
  BY NodeFacts, DueIsDue DEF Node
<1> HIDE DEF d, L
<1>1. PICK p \in P : \A k \in P : p <= k
  <2>1. P \subseteq Nat /\ P # {}
    BY <1>0
  <2> HIDE DEF P
  <2> QED BY <2>1, LeastElement
<1>2. \A k \in 0..(p-1) : q[k+1].t <= n.t - d[k]
  <2> SUFFICES ASSUME NEW k \in 0..(p-1) PROVE q[k+1].t <= n.t - d[k]
    OBVIOUS
  <2>1. k \in 0..L /\ k+1 \in 1..L /\ ~(p <= k)
    BY <1>0, <1>1
  <2>2. ~Stops(k)
    BY <1>1, <2>1
  <2>3. q[k+1].t \in Nat /\ d[k] \in Int
    BY <1>0, <2>1 DEF IsDue
  <2> QED BY <1>0, <2>2, <2>3
<1>3. \E m \in 0..L : /\ Stops(m)
                      /\ \A k \in 0..(m-1) : q[k+1].t <= n.t - d[k]
  BY <1>1, <1>2
<1> DEFINE m == Place(q, n)
<1>4. /\ m \in 0..L /\ Stops(m)
      /\ \A k \in 0..(m-1) : q[k+1].t <= n.t - d[k]
  BY <1>3 DEF Place, d, L
<1> HIDE DEF m
<1>5. n.t - d[m] \in Nat
  <2>1. CASE m = 0
    BY <1>0, <2>1 DEF IsDue
  <2>2. CASE m # 0
    <3>1. m-1 \in 0..(m-1) /\ m \in 1..L /\ m-1 \in 0..L /\ m-1+1 = m
      BY <1>0, <1>4, <2>2
    <3>2. q[m].t <= n.t - d[m-1]
      BY <1>4, <3>1
    <3>3. d[m] = d[m-1] + q[m].t /\ d[m-1] \in Int /\ q[m].t \in Nat
      BY <1>0, <3>1 DEF IsDue
    <3> QED BY <1>0, <3>2, <3>3
  <2> QED BY <2>1, <2>2
<1> QED BY <1>4, <1>5 DEF m, d, L

LEMMA TimeSet ==
  ASSUME NEW n \in Node, NEW t \in Nat
  PROVE  /\ [n EXCEPT !.t = t] \in Node /\ [n EXCEPT !.t = t].t = t
         /\ Like([n EXCEPT !.t = t], n)
BY DEF Node, Like

\* Where everything is after coapAddNode.
LEMMA AddedAt ==
  ASSUME NEW q \in Nodes, NEW n \in Node
  PROVE  LET a == coapAddNode(q, n)
             p == Place(q, n)
             left == n.t - Due(q)[p] IN
         /\ a \in Nodes /\ Len(a) = Len(q) + 1
         /\ a[p+1] = [n EXCEPT !.t = left]
         /\ \A i \in 1..p : a[i] = q[i]
         /\ p # Len(q) => a[p+2] = [q[p+1] EXCEPT !.t = q[p+1].t - left]
         /\ \A i \in p+2..Len(q) : a[i+1] = q[i]
<1> DEFINE a == coapAddNode(q, n)
           p == Place(q, n)
           left == n.t - Due(q)[p]
           placed == [n EXCEPT !.t = left]
<1>0. /\ q \in Seq(Node) /\ Len(q) \in Nat /\ p \in 0..Len(q) /\ left \in Nat
      /\ p # Len(q) => q[p+1].t > left
  BY NodeFacts, PlaceExists DEF Nodes
<1>1. placed = [n EXCEPT !.t = @ - Due(q)[p]]
  BY DEF Node
<1>2. a = IF p = Len(q) THEN Append(q, placed)
          ELSE SubSeq(q, 1, p)
               \o <<placed, [q[p+1] EXCEPT !.t = @ - placed.t]>>
               \o SubSeq(q, p+2, Len(q))
  BY <1>1 DEF coapAddNode
<1> HIDE DEF a, p, left
<1>3. placed \in Node /\ placed.t = left
  BY <1>0, TimeSet
<1> HIDE DEF placed
<1>4. CASE p = Len(q)
  BY <1>0, <1>2, <1>3, <1>4, AppendProperties DEF Nodes, a, p, left, placed
<1>5. CASE p # Len(q)
  <2> DEFINE later == [q[p+1] EXCEPT !.t = q[p+1].t - left]
             part == <<placed, later>>
  <2>1. p+1 \in 1..Len(q) /\ q[p+1] \in Node /\ q[p+1].t - left \in Nat
    <3>1. p+1 \in 1..Len(q) /\ q[p+1].t > left /\ left \in Nat
      BY <1>0, <1>5
    <3>2. q[p+1] \in Node /\ q[p+1].t \in Nat
      BY <3>1, NodeFacts
    <3> QED BY <3>1, <3>2
  <2>2. later \in Node
    BY <2>1, TimeSet
  <2>3. later = [q[p+1] EXCEPT !.t = @ - placed.t]
    BY <1>3, <2>1 DEF Node
  <2> HIDE DEF later
  <2>4. part \in Seq(Node) /\ Len(part) = 2 /\ part[1] = placed /\ part[2] = later
    BY <1>3, <2>2
  <2> DEFINE b == p+1
  <2>5. a = SubSeq(q, 1, p) \o part \o SubSeq(q, b+1, Len(q))
    <3>1. p+2 = b+1
      BY <1>0
    <3> QED BY <1>2, <1>5, <2>3, <3>1
  <2>6. b \in p..Len(q) /\ p \in 0..Len(q)
    BY <1>0, <1>5
  <2> HIDE DEF part, b
  <2> DEFINE w == SubSeq(q, 1, p) \o part \o SubSeq(q, b+1, Len(q))
  <2>18. /\ w \in Seq(Node)
         /\ Len(w) = p + Len(part) + Len(q) - b
         /\ \A i \in 1..Len(w) :
              w[i] = IF i <= p THEN q[i]
                     ELSE IF i <= p + Len(part) THEN part[i-p]
                     ELSE q[i - p - Len(part) + b]
    <3>1. q \in Seq(Node) /\ part \in Seq(Node)
      BY <1>0, <2>4
    <3>2. p \in 0..Len(q) /\ b \in p..Len(q)
      BY <2>6
    <3> QED BY ONLY <3>1, <3>2, SpliceProperties, ZenonT(60)
  <2>19. a = w
    BY <2>5
  <2> HIDE DEF w
  <2>7. /\ a \in Seq(Node)
        /\ Len(a) = p + Len(part) + Len(q) - b
        /\ \A i \in 1..Len(a) :
             a[i] = IF i <= p THEN q[i]
                    ELSE IF i <= p + Len(part) THEN part[i-p]
                    ELSE q[i - p - Len(part) + b]
    BY <2>18, <2>19
  <2>12. b = p+1
    BY DEF b
  <2>8. /\ Len(a) = Len(q) + 1
        /\ \A i \in 1..p : i \in 1..Len(a) /\ i <= p
        /\ p+1 \in 1..Len(a) /\ p+2 \in 1..Len(a)
        /\ \A i \in p+2..Len(q) :
             /\ i+1 \in 1..Len(a) /\ ~(i+1 <= p) /\ ~(i+1 <= p+2)
             /\ i+1 - p - 2 + (p+1) = i
    BY <1>0, <1>5, <2>4, <2>7, <2>12
  <2>13. \A i \in 1..Len(a) :
           a[i] = IF i <= p THEN q[i]
                  ELSE IF i <= p+2 THEN part[i-p] ELSE q[i - p - 2 + (p+1)]
    BY <2>4, <2>7, <2>12
  <2>14. /\ ~(p+1 <= p) /\ p+1 <= p+2 /\ ~(p+2 <= p) /\ p+2 <= p+2
    BY <1>0
  <2>15. a[p+1] = part[p+1-p] /\ a[p+2] = part[p+2-p]
    BY <1>0, <2>8, <2>13, <2>14
  <2>16. \A i \in 1..p : a[i] = q[i]
    BY <2>8, <2>13
  <2>17. ASSUME NEW i \in p+2..Len(q) PROVE a[i+1] = q[i]
    <3> DEFINE k == i+1
    <3>1. /\ k \in 1..Len(a) /\ ~(k <= p) /\ ~(k <= p+2)
          /\ k - p - 2 + (p+1) = i
      BY ONLY <1>0, <2>8, i \in p+2..Len(q)
    <3> HIDE DEF k
    <3>2. a[k] = q[k - p - 2 + (p+1)]
      BY <2>13, <3>1
    <3> QED BY <3>1, <3>2 DEF k
  <2>9. /\ a[p+1] = part[p+1-p] /\ a[p+2] = part[p+2-p]
        /\ \A i \in 1..p : a[i] = q[i]
        /\ \A i \in p+2..Len(q) : a[i+1] = q[i]
    BY <2>15, <2>16, <2>17
  <2>10. p+1-p = 1 /\ p+2-p = 2
    BY <1>0
  <2>11. a[p+1] = placed /\ a[p+2] = later
    BY <2>4, <2>9, <2>10
  <2> QED BY <2>7, <2>8, <2>9, <2>11 DEF Nodes, a, p, left, placed, later
<1> QED BY <1>4, <1>5

LEMMA AddedFrom ==
  ASSUME NEW q \in Nodes, NEW n \in Node
  PROVE  LET a == coapAddNode(q, n) IN
         /\ a \in Nodes /\ a # <<>>
         /\ \E e : /\ From(a, q, e, 0)
                   /\ \A i \in 1..Len(a) : e[i] = 0 => Like(a[i], n)
<1> DEFINE a == coapAddNode(q, n)
           p == Place(q, n)
           d == Due(q)
           left == n.t - d[p]
           L == Len(q)
           e == [i \in 1..Len(a) |-> IF i <= p THEN i
                                     ELSE IF i = p+1 THEN 0 ELSE i-1]
           c == [i \in 0..L+1 |-> IF i <= p THEN d[i]
                                  ELSE IF i = p+1 THEN n.t ELSE d[i-1]]
<1>1. /\ L \in Nat /\ p \in 0..L /\ left \in Nat /\ n.t \in Nat
      /\ IsDue(q, L, d)
      /\ p # L => q[p+1].t > left
      /\ \A i \in 1..L : q[i] \in Node /\ q[i].t \in Nat
  BY NodeFacts, DueIsDue, PlaceExists DEF Node
<1>2. /\ a \in Nodes /\ Len(a) = L+1
      /\ a[p+1] = [n EXCEPT !.t = left]
      /\ \A i \in 1..p : a[i] = q[i]
      /\ p # L => a[p+2] = [q[p+1] EXCEPT !.t = q[p+1].t - left]
      /\ \A i \in p+2..L : a[i+1] = q[i]
  BY AddedAt
<1>12. /\ \A j \in 0..L : d[j] \in Int
       /\ \A j \in 1..L : d[j] = d[j-1] + q[j].t
  BY <1>1 DEF IsDue
<1>3. left = n.t - d[p] /\ d[p] \in Int
  BY <1>1 DEF IsDue
<1> HIDE DEF a, p, d, left, L
<1>4. a[p+1].t = left /\ Like(a[p+1], n)
  BY <1>1, <1>2, TimeSet
<1>5. p # L => /\ a[p+2].t = q[p+1].t - left /\ Like(a[p+2], q[p+1])
  <2> SUFFICES ASSUME p # L
               PROVE  a[p+2].t = q[p+1].t - left /\ Like(a[p+2], q[p+1])
    OBVIOUS
  <2>1. p+1 \in 1..L
    BY <1>1
  <2>2. q[p+1] \in Node /\ q[p+1].t - left \in Nat
    BY <1>1, <2>1
  <2> DEFINE m == q[p+1]
             t == q[p+1].t - left
  <2>3. m \in Node /\ t \in Nat /\ a[p+2] = [m EXCEPT !.t = t]
    BY <1>2, <2>2
  <2>4. t = q[p+1].t - left /\ m = q[p+1]
    OBVIOUS
  <2> HIDE DEF m, t
  <2>5. a[p+2].t = t /\ Like(a[p+2], m)
    BY <2>3, TimeSet
  <2> QED BY <2>4, <2>5
<1>13. \A j \in 0..L+1 : c[j] = IF j <= p THEN d[j]
                                ELSE IF j = p+1 THEN n.t ELSE d[j-1]
  OBVIOUS
<1>6. IsDue(a, L+1, c)
  <2>1. c \in [0..L+1 -> Int] /\ c[0] = 0
    BY <1>1 DEF IsDue
  <2> HIDE DEF c
  <2>2. ASSUME NEW i \in 1..L+1 PROVE c[i] = c[i-1] + a[i].t
    <3>0. i \in 0..L+1 /\ i-1 \in 0..L+1
      BY <1>1
    <3>5. /\ c[i] = IF i <= p THEN d[i]
                    ELSE IF i = p+1 THEN n.t ELSE d[i-1]
          /\ c[i-1] = IF i-1 <= p THEN d[i-1]
                      ELSE IF i-1 = p+1 THEN n.t ELSE d[i-1-1]
      BY <1>13, <3>0
    <3>1. CASE i <= p
      <4>1. i \in 1..p /\ i \in 1..L /\ i-1 <= p
        BY <1>1, <3>1
      <4>2. a[i] = q[i]
        BY <1>2, <4>1
      <4>3. d[i] = d[i-1] + q[i].t
        BY <1>12, <4>1
      <4> QED BY <3>1, <3>5, <4>1, <4>2, <4>3
    <3>2. CASE i = p+1
      <4>1. ~(i <= p) /\ i-1 <= p /\ i-1 = p
        BY <1>1, <3>2
      <4>2. c[i] = n.t /\ c[i-1] = d[p]
        BY <3>2, <3>5, <4>1
      <4>3. a[i].t = left /\ n.t \in Nat
        BY <1>1, <1>4, <3>2
      <4> QED BY <1>3, <4>2, <4>3
    <3>3. CASE i = p+2
      <4>1. /\ p # L /\ p \in Nat /\ p+1 \in 1..L /\ p+1-1 = p
            /\ ~(i <= p) /\ i # p+1 /\ ~(i-1 <= p) /\ i-1 = p+1
        BY <1>1, <3>0, <3>3
      <4>2. c[i] = d[p+1] /\ c[i-1] = n.t
        BY <3>5, <4>1
      <4>3. d[p+1] = d[p+1-1] + q[p+1].t
        BY <1>12, <4>1
      <4>4. q[p+1].t \in Nat /\ d[p] \in Int /\ n.t \in Nat
        BY <1>1, <1>3, <4>1
      <4>5. a[i].t = q[p+1].t - left
        BY <1>5, <3>3, <4>1
      <4> QED BY <1>3, <4>1, <4>2, <4>3, <4>4, <4>5
    <3>4. CASE i > p+2
      <4>1. /\ i-1 \in p+2..L /\ i-1 \in 1..L /\ i-1+1 = i
            /\ ~(i <= p) /\ i # p+1 /\ ~(i-1 <= p) /\ i-1 # p+1
        BY <1>1, <3>0, <3>4
      <4>2. a[i-1+1] = q[i-1]
        BY <1>2, <4>1
      <4>3. d[i-1] = d[i-1-1] + q[i-1].t
        BY <1>12, <4>1
      <4> QED BY <3>5, <4>1, <4>2, <4>3
    <3> QED BY <1>1, <3>1, <3>2, <3>3, <3>4
  <2> QED BY <2>1, <2>2 DEF IsDue
<1>7. Due(a) = c
  BY <1>2, <1>6, DueUnique
<1>14. L \in Nat /\ p \in 0..L /\ Len(a) = L+1
  BY <1>1, <1>2
<1>8. /\ e \in [1..Len(a) -> 0..L]
      /\ \A i, j \in 1..Len(a) : e[i] = e[j] => i = j
      /\ \A i \in 1..Len(a) : e[i] = 0 => i = p+1
  <2>1. \A i \in 1..Len(a) :
          \/ i <= p /\ e[i] = i
          \/ i = p+1 /\ e[i] = 0
          \/ i > p+1 /\ e[i] = i-1
    BY <1>14
  <2>2. \A i \in 1..Len(a) : e[i] \in 0..L
    BY <1>14, <2>1
  <2>3. e \in [1..Len(a) -> 0..L]
    BY <2>2
  <2> HIDE DEF e
  <2>4. \A i, j \in 1..Len(a) : e[i] = e[j] => i = j
    BY <1>14, <2>1
  <2>5. \A i \in 1..Len(a) : e[i] = 0 => i = p+1
    BY <1>14, <2>1
  <2> QED BY <2>3, <2>4, <2>5
<1>9. ASSUME NEW i \in 1..Len(a), e[i] # 0
      PROVE  Like(a[i], q[e[i]]) /\ Due(a)[i] = d[e[i]] + 0
  <2>1. CASE i <= p
    <3>1. i \in 1..p /\ i \in 0..L /\ e[i] = i /\ c[i] = d[i]
      BY <1>13, <1>14, <2>1
    <3>2. a[i] = q[i] /\ d[i] \in Int
      BY <1>2, <1>12, <3>1
    <3> QED BY <1>7, <3>1, <3>2 DEF Like
  <2>2. CASE i = p+2
    <3>3. /\ p # L /\ p+1 \in 0..L /\ i \in 0..L+1 /\ i-1 = p+1
          /\ ~(i <= p) /\ i # p+1
      BY <1>14, <2>2
    <3>1. p # L /\ e[i] = p+1 /\ c[i] = d[p+1] /\ p+1 \in 0..L
      BY <1>13, <3>3
    <3>2. d[p+1] \in Int
      BY <1>12, <3>1
    <3> QED BY <1>5, <1>7, <2>2, <3>1, <3>2
  <2>3. CASE i > p+2
    <3>3. /\ i-1 \in p+2..L /\ i-1 \in 0..L /\ i-1+1 = i
          /\ ~(i <= p) /\ i # p+1 /\ i \in 0..L+1
      BY <1>14, <2>3
    <3>1. /\ i-1 \in p+2..L /\ i-1 \in 0..L /\ i-1+1 = i
          /\ e[i] = i-1 /\ c[i] = d[i-1]
      BY <1>13, <3>3
    <3>2. a[i-1+1] = q[i-1] /\ d[i-1] \in Int
      BY <1>2, <1>12, <3>1
    <3> QED BY <1>7, <3>1, <3>2 DEF Like
  <2>4. i # p+1
    BY <1>14, <1>9
  <2>5. i <= p \/ i = p+1 \/ i = p+2 \/ i > p+2
    BY <1>14
  <2> QED BY <2>1, <2>2, <2>3, <2>4, <2>5
<1>10. a # <<>>
  BY <1>1, <1>2
<1> HIDE DEF c, e
<1>11. From(a, q, e, 0) /\ \A i \in 1..Len(a) : e[i] = 0 => Like(a[i], n)
  BY <1>4, <1>8, <1>9 DEF From, d, L
<1> QED BY <1>2, <1>10, <1>11 DEF a

(***************************************************************************)
(* coapRemoveNode, timerUpdate and the first node's removal.               *)
(***************************************************************************)
LEMMA NodeIndexExists ==
  ASSUME NEW q \in Nodes, NEW id, HasNode(q, id)
  PROVE  /\ NodeIndex(q, id) \in 1..Len(q)
         /\ q[NodeIndex(q, id)].id = id
         /\ \A j \in 1..(NodeIndex(q, id) - 1) : q[j].id # id
<1> DEFINE I == {i \in 1..Len(q) : q[i].id = id}
<1>0. Len(q) \in Nat
  BY NodeFacts
<1>1. PICK i \in I : \A j \in I : i <= j
  <2>1. I \subseteq Nat /\ I # {}
    BY <1>0 DEF HasNode
  <2> HIDE DEF I
  <2> QED BY <2>1, LeastElement
<1>2. IsFirst(q, id, i)
  <2>1. \A j \in 1..(i-1) : j \in 1..Len(q) /\ ~(i <= j)
    BY <1>0, <1>1
  <2> QED BY <1>1, <2>1 DEF IsFirst
<1>3. IsFirst(q, id, NodeIndex(q, id))
  BY <1>1, <1>2 DEF NodeIndex
<1> QED BY <1>3 DEF IsFirst

\* Where everything is after coapRemoveNode.
LEMMA RemovedAt ==
  ASSUME NEW q \in Nodes, NEW id, HasNode(q, id)
  PROVE  LET a == coapRemoveNode(q, id)
             k == NodeIndex(q, id) IN
         /\ a \in Nodes /\ Len(a) = Len(q) - 1
         /\ \A i \in 1..k-1 : a[i] = q[i]
         /\ k # Len(q) => a[k] = [q[k+1] EXCEPT !.t = q[k+1].t + q[k].t]
         /\ \A i \in k+2..Len(q) : a[i-1] = q[i]
<1> DEFINE a == coapRemoveNode(q, id)
           k == NodeIndex(q, id)
           p == k-1
<1>0. /\ q \in Seq(Node) /\ Len(q) \in Nat /\ k \in 1..Len(q) /\ p = k-1
      /\ p \in 0..Len(q)
  BY NodeFacts, NodeIndexExists DEF Nodes
<1>1. a = IF k = Len(q) THEN SubSeq(q, 1, p)
          ELSE SubSeq(q, 1, p)
               \o <<[q[k+1] EXCEPT !.t = @ + q[k].t]>>
               \o SubSeq(q, k+2, Len(q))
  BY DEF coapRemoveNode
<1> HIDE DEF a, k, p
<1>2. CASE k = Len(q)
  <2>1. 1 \in 1..Len(q)+1 /\ p \in 1-1..Len(q)
    BY <1>0
  <2>2. /\ SubSeq(q, 1, p) \in Seq(Node) /\ Len(SubSeq(q, 1, p)) = p-1+1
        /\ \A j \in 1..p-1+1 : SubSeq(q, 1, p)[j] = q[1+j-1]
    BY <1>0, <2>1, PartOfSeq
  <2>3. a = SubSeq(q, 1, p)
    BY <1>1, <1>2
  <2>4. /\ a \in Nodes /\ Len(a) = Len(q)-1
        /\ \A i \in 1..k-1 : a[i] = q[i]
        /\ k+2..Len(q) = {}
    BY <1>0, <1>2, <2>2, <2>3 DEF Nodes
  <2> QED BY <1>2, <2>4 DEF a, k
<1>3. CASE k # Len(q)
  <2> DEFINE later == [q[k+1] EXCEPT !.t = q[k+1].t + q[k].t]
             part == <<later>>
             b == k+1
             w == SubSeq(q, 1, p) \o part \o SubSeq(q, b+1, Len(q))
  <2>1. /\ k+1 \in 1..Len(q) /\ q[k+1] \in Node
        /\ q[k+1].t + q[k].t \in Nat
    <3>1. k \in 1..Len(q) /\ k+1 \in 1..Len(q)
      BY <1>0, <1>3
    <3>2. q[k+1] \in Node /\ q[k+1].t \in Nat /\ q[k].t \in Nat
      BY <3>1, NodeFacts
    <3> QED BY <3>1, <3>2
  <2>2. later \in Node
    BY <2>1, TimeSet
  <2>3. later = [q[k+1] EXCEPT !.t = @ + q[k].t]
    BY <2>1 DEF Node
  <2>4. later = [q[k+1] EXCEPT !.t = q[k+1].t + q[k].t]
    OBVIOUS
  <2> HIDE DEF later
  <2>5. part \in Seq(Node) /\ Len(part) = 1 /\ part[1] = later
    BY <2>2
  <2>6. a = w
    <3>1. k+2 = b+1
      BY <1>0
    <3> QED BY <1>1, <1>3, <2>3, <3>1
  <2>7. p \in 0..Len(q) /\ b \in p..Len(q) /\ b = k+1
    BY <1>0, <1>3
  <2> HIDE DEF part, b
  <2>8. /\ w \in Seq(Node)
        /\ Len(w) = p + Len(part) + Len(q) - b
        /\ \A i \in 1..Len(w) :
             w[i] = IF i <= p THEN q[i]
                    ELSE IF i <= p + Len(part) THEN part[i-p]
                    ELSE q[i - p - Len(part) + b]
    <3>1. q \in Seq(Node) /\ part \in Seq(Node)
      BY <1>0, <2>5
    <3>2. p \in 0..Len(q) /\ b \in p..Len(q)
      BY <2>7
    <3> QED BY ONLY <3>1, <3>2, SpliceProperties, ZenonT(60)
  <2> HIDE DEF w
  <2>9. /\ a \in Seq(Node) /\ Len(a) = p + 1 + Len(q) - (k+1)
        /\ \A i \in 1..Len(a) :
             a[i] = IF i <= p THEN q[i]
                    ELSE IF i <= p+1 THEN part[i-p]
                    ELSE q[i - p - 1 + (k+1)]
    BY <2>5, <2>6, <2>7, <2>8
  <2>10. Len(a) = Len(q) - 1
    BY <1>0, <2>9
  <2>11. \A i \in 1..k-1 : a[i] = q[i]
    BY <1>0, <1>3, <2>9, <2>10
  <2>12. a[k] = later
    <3>1. k \in 1..Len(a) /\ ~(k <= p) /\ k <= p+1 /\ k-p = 1
      BY <1>0, <1>3, <2>10
    <3> QED BY <2>5, <2>9, <3>1
  <2>13. ASSUME NEW i \in k+2..Len(q) PROVE a[i-1] = q[i]
    <3> DEFINE j == i-1
    <3>1. /\ j \in 1..Len(a) /\ ~(j <= p) /\ ~(j <= p+1)
          /\ j - p - 1 + (k+1) = i
      BY ONLY <1>0, <2>10, i \in k+2..Len(q)
    <3> HIDE DEF j
    <3>2. a[j] = q[j - p - 1 + (k+1)]
      BY <2>9, <3>1
    <3> QED BY <3>1, <3>2 DEF j
  <2> QED BY <2>4, <2>9, <2>10, <2>11, <2>12, <2>13 DEF Nodes, a, k
<1> QED BY <1>2, <1>3

LEMMA RemovedFrom ==
  ASSUME NEW q \in Nodes, NEW id, HasNode(q, id)
  PROVE  LET a == coapRemoveNode(q, id) IN
         /\ a \in Nodes
         /\ a # <<>> => a[1].t >= q[1].t
         /\ \E e : /\ From(a, q, e, 0) /\ Loses(a, q, e, 0)
                   /\ Loses(a, q, e, NodeIndex(q, id))
<1> DEFINE a == coapRemoveNode(q, id)
           k == NodeIndex(q, id)
           d == Due(q)
           L == Len(q)
           e == [i \in 1..Len(a) |-> IF i < k THEN i ELSE i+1]
           c == [i \in 0..L-1 |-> IF i < k THEN d[i] ELSE d[i+1]]
<1>1. /\ L \in Nat /\ k \in 1..L
      /\ IsDue(q, L, d)
      /\ \A i \in 1..L : q[i] \in Node /\ q[i].t \in Nat
  BY NodeFacts, DueIsDue, NodeIndexExists
<1>2. /\ a \in Nodes /\ Len(a) = L-1
      /\ \A i \in 1..k-1 : a[i] = q[i]
      /\ k # L => a[k] = [q[k+1] EXCEPT !.t = q[k+1].t + q[k].t]
      /\ \A i \in k+2..L : a[i-1] = q[i]
  BY RemovedAt
<1> HIDE DEF a, k, d, L
<1>3. k # L => a[k].t = q[k+1].t + q[k].t /\ Like(a[k], q[k+1])
  <2> SUFFICES ASSUME k # L
               PROVE  a[k].t = q[k+1].t + q[k].t /\ Like(a[k], q[k+1])
    OBVIOUS
  <2> DEFINE m == q[k+1]
             t == q[k+1].t + q[k].t
  <2>1. k+1 \in 1..L
    BY <1>1
  <2>2. m \in Node /\ t \in Nat /\ a[k] = [m EXCEPT !.t = t]
    <3>1. m \in Node /\ q[k+1].t \in Nat /\ q[k].t \in Nat
      BY <1>1, <2>1
    <3>2. k # L => a[k] = [m EXCEPT !.t = t]
      BY <1>2
    <3> QED BY <3>1, <3>2
  <2>3. t = q[k+1].t + q[k].t /\ m = q[k+1]
    OBVIOUS
  <2> HIDE DEF m, t
  <2>4. a[k].t = t /\ Like(a[k], m)
    BY <2>2, TimeSet
  <2> QED BY <2>3, <2>4
<1>10. \A j \in 0..L-1 : c[j] = IF j < k THEN d[j] ELSE d[j+1]
  OBVIOUS
<1>11. /\ \A j \in 0..L : d[j] \in Int
       /\ \A j \in 1..L : d[j] = d[j-1] + q[j].t
  BY <1>1 DEF IsDue
<1>4. IsDue(a, L-1, c)
  <2>1. c \in [0..L-1 -> Int] /\ c[0] = 0
    BY <1>1 DEF IsDue
  <2> HIDE DEF c
  <2>2. ASSUME NEW i \in 1..L-1 PROVE c[i] = c[i-1] + a[i].t
    <3>0. i \in 0..L-1 /\ i-1 \in 0..L-1
      BY <1>1
    <3>4. /\ c[i] = IF i < k THEN d[i] ELSE d[i+1]
          /\ c[i-1] = IF i-1 < k THEN d[i-1] ELSE d[i-1+1]
      BY <1>10, <3>0
    <3>1. CASE i < k
      <4>1. i \in 1..k-1 /\ i \in 1..L /\ i-1 < k
        BY <1>1, <3>1
      <4>2. a[i] = q[i]
        BY <1>2, <4>1
      <4>3. d[i] = d[i-1] + q[i].t
        BY <1>11, <4>1
      <4> QED BY <3>1, <3>4, <4>1, <4>2, <4>3
    <3>2. CASE i = k
      <4>1. /\ k # L /\ k \in 1..L /\ k+1 \in 1..L /\ k+1-1 = k
            /\ ~(i < k) /\ i-1 < k /\ k-1 \in 0..L
        BY <1>1, <3>0, <3>2
      <4>5. c[i] = d[k+1] /\ c[i-1] = d[k-1]
        BY <3>2, <3>4, <4>1
      <4>2. d[k] = d[k-1] + q[k].t /\ d[k+1] = d[k+1-1] + q[k+1].t
        BY <1>11, <4>1
      <4>3. d[k-1] \in Int /\ q[k].t \in Nat /\ q[k+1].t \in Nat
        BY <1>1, <1>11, <4>1
      <4> QED BY <1>3, <3>2, <4>1, <4>2, <4>3, <4>5
    <3>3. CASE i > k
      <4>1. /\ i+1 \in k+2..L /\ i+1 \in 1..L /\ i+1-1 = i /\ i-1+1 = i
            /\ ~(i < k) /\ ~(i-1 < k)
        BY <1>1, <3>0, <3>3
      <4>2. a[i+1-1] = q[i+1]
        BY <1>2, <4>1
      <4>3. d[i+1] = d[i+1-1] + q[i+1].t
        BY <1>11, <4>1
      <4> QED BY <3>4, <4>1, <4>2, <4>3
    <3> QED BY <1>1, <3>1, <3>2, <3>3
  <2> QED BY <2>1, <2>2 DEF IsDue
<1>5. Due(a) = c
  BY <1>2, <1>4, DueUnique
<1>12. L \in Nat /\ k \in 1..L /\ Len(a) = L-1
  BY <1>1, <1>2
<1>6. /\ e \in [1..Len(a) -> 0..L]
      /\ \A i, j \in 1..Len(a) : e[i] = e[j] => i = j
      /\ \A i \in 1..Len(a) : e[i] # 0 /\ e[i] # k
  <2>1. \A i \in 1..Len(a) :
          \/ i < k /\ e[i] = i
          \/ ~(i < k) /\ e[i] = i+1
    BY <1>12
  <2>2. \A i \in 1..Len(a) : e[i] \in 0..L
    BY <1>12, <2>1
  <2>3. e \in [1..Len(a) -> 0..L]
    BY <2>2
  <2> HIDE DEF e
  <2>4. \A i, j \in 1..Len(a) : e[i] = e[j] => i = j
    BY <1>12, <2>1
  <2>5. \A i \in 1..Len(a) : e[i] # 0 /\ e[i] # k
    BY <1>12, <2>1
  <2> QED BY <2>3, <2>4, <2>5
<1>7. ASSUME NEW i \in 1..Len(a)
      PROVE  Like(a[i], q[e[i]]) /\ Due(a)[i] = d[e[i]] + 0
  <2>0. i \in 0..L-1
    BY <1>12
  <2>1. CASE i < k
    <3>1. i \in 1..k-1 /\ i \in 0..L /\ e[i] = i /\ c[i] = d[i]
      BY <1>10, <1>12, <2>0, <2>1
    <3>2. a[i] = q[i] /\ d[i] \in Int
      BY <1>2, <1>11, <3>1
    <3> QED BY <1>5, <3>1, <3>2 DEF Like
  <2>2. CASE i = k
    <3>3. k # L /\ k+1 \in 0..L /\ ~(i < k)
      BY <1>12, <2>0, <2>2
    <3>1. k # L /\ e[i] = k+1 /\ c[i] = d[k+1] /\ k+1 \in 0..L
      BY <1>10, <2>0, <2>2, <3>3
    <3>2. d[k+1] \in Int
      BY <1>11, <3>1
    <3> QED BY <1>3, <1>5, <2>2, <3>1, <3>2
  <2>3. CASE i > k
    <3>3. i+1 \in k+2..L /\ i+1 \in 0..L /\ i+1-1 = i /\ ~(i < k)
      BY <1>12, <2>0, <2>3
    <3>1. /\ i+1 \in k+2..L /\ i+1 \in 0..L /\ i+1-1 = i
          /\ e[i] = i+1 /\ c[i] = d[i+1]
      BY <1>10, <2>0, <3>3
    <3>2. a[i+1-1] = q[i+1] /\ d[i+1] \in Int
      BY <1>2, <1>11, <3>1
    <3> QED BY <1>5, <3>1, <3>2 DEF Like
  <2>4. i < k \/ i = k \/ i > k
    BY <1>12
  <2> QED BY <2>1, <2>2, <2>3, <2>4
<1>8. a # <<>> => a[1].t >= q[1].t
  <2> SUFFICES ASSUME a # <<>> PROVE a[1].t >= q[1].t
    OBVIOUS
  <2>1. Len(a) # 0
    BY EmptySeq DEF Nodes
  <2>2. 1 \in 1..L /\ 2 \in 1..L /\ L-1 >= 1
    BY <1>1, <1>2, <2>1
  <2>3. CASE k = 1
    <3>1. k # L /\ k+1 = 2
      BY <2>2, <2>3
    <3>2. q[1].t \in Nat /\ q[2].t \in Nat
      BY <1>1, <2>2
    <3> QED BY <1>3, <2>3, <3>1, <3>2
  <2>4. CASE k # 1
    <3>1. 1 \in 1..k-1
      BY <1>1, <2>4
    <3>2. a[1] = q[1] /\ q[1].t \in Nat
      BY <1>1, <1>2, <2>2, <3>1
    <3> QED BY <3>2
  <2> QED BY <2>3, <2>4
<1> HIDE DEF c, e
<1>9. From(a, q, e, 0) /\ Loses(a, q, e, 0) /\ Loses(a, q, e, k)
  BY <1>6, <1>7 DEF From, Loses, d, L
<1> QED BY <1>2, <1>8, <1>9 DEF a, k

LEMMA TailFrom ==
  ASSUME NEW q \in Nodes, q # <<>>
  PROVE  /\ Tail(q) \in Nodes
         /\ \E e : /\ From(Tail(q), q, e, -(q[1].t))
                   /\ Loses(Tail(q), q, e, 0) /\ Loses(Tail(q), q, e, 1)
<1> DEFINE a == Tail(q)
           d == Due(q)
           L == Len(q)
           e == [i \in 1..Len(a) |-> i+1]
           c == [i \in 0..L-1 |-> IF i = 0 THEN 0 ELSE d[i+1] - q[1].t]
<1>1. /\ L \in Nat /\ L # 0
      /\ IsDue(q, L, d)
      /\ \A i \in 1..L : q[i] \in Node /\ q[i].t \in Nat
  BY NodeFacts, DueIsDue, EmptySeq DEF Nodes
<1>2. /\ a \in Nodes /\ Len(a) = L-1
      /\ \A i \in 1..L-1 : a[i] = q[i+1]
  BY HeadTailProperties DEF Nodes
<1> HIDE DEF a, d, L
<1>3. /\ \A j \in 0..L : d[j] \in Int
      /\ \A j \in 1..L : d[j] = d[j-1] + q[j].t
      /\ d[0] = 0
  BY <1>1 DEF IsDue
<1>4. \A j \in 0..L-1 : c[j] = IF j = 0 THEN 0 ELSE d[j+1] - q[1].t
  OBVIOUS
<1>5. IsDue(a, L-1, c)
  <2>1. c \in [0..L-1 -> Int] /\ c[0] = 0
    BY <1>1, <1>3
  <2> HIDE DEF c
  <2>2. ASSUME NEW i \in 1..L-1 PROVE c[i] = c[i-1] + a[i].t
    <3>1. /\ i \in 0..L-1 /\ i-1 \in 0..L-1 /\ i+1 \in 1..L /\ 1 \in 1..L
          /\ i \in 0..L /\ i \in 1..L /\ i+1-1 = i /\ i-1+1 = i /\ i # 0
      BY <1>1
    <3>2. /\ c[i] = d[i+1] - q[1].t
          /\ c[i-1] = IF i-1 = 0 THEN 0 ELSE d[i-1+1] - q[1].t
      BY <1>4, <3>1
    <3>3. d[i+1] = d[i+1-1] + q[i+1].t /\ a[i] = q[i+1]
      BY <1>2, <1>3, <3>1
    <3>4. d[i] \in Int /\ q[i+1].t \in Nat /\ q[1].t \in Nat
      BY <1>1, <1>3, <3>1
    <3>5. CASE i = 1
      <4>1. d[1] = d[1-1] + q[1].t /\ 1-1 = 0
        BY <1>3, <3>1
      <4> QED BY <1>3, <3>1, <3>2, <3>3, <3>4, <3>5, <4>1
    <3>6. CASE i # 1
      <4>1. i-1 # 0
        BY <3>6
      <4> QED BY <3>1, <3>2, <3>3, <3>4, <4>1
    <3> QED BY <3>5, <3>6
  <2> QED BY <2>1, <2>2 DEF IsDue
<1>6. Due(a) = c
  BY <1>2, <1>5, DueUnique
<1>7. /\ e \in [1..Len(a) -> 0..L]
      /\ \A i, j \in 1..Len(a) : e[i] = e[j] => i = j
      /\ \A i \in 1..Len(a) : e[i] # 0 /\ e[i] # 1
  BY <1>1, <1>2
<1>8. ASSUME NEW i \in 1..Len(a)
      PROVE  Like(a[i], q[e[i]]) /\ Due(a)[i] = d[e[i]] + (-(q[1].t))
  <2>1. /\ i \in 0..L-1 /\ i # 0 /\ i \in 1..L-1 /\ e[i] = i+1
        /\ i+1 \in 0..L /\ 1 \in 1..L
    BY <1>1, <1>2
  <2>2. c[i] = d[i+1] - q[1].t /\ a[i] = q[i+1]
    BY <1>2, <1>4, <2>1
  <2>3. d[i+1] \in Int /\ q[1].t \in Nat
    BY <1>1, <1>3, <2>1
  <2>4. Due(a)[i] = d[i+1] + (-(q[1].t))
    BY <1>6, <2>2, <2>3
  <2> QED BY <2>1, <2>2, <2>4 DEF Like
<1> HIDE DEF e
<1>9. From(a, q, e, -(q[1].t)) /\ Loses(a, q, e, 0) /\ Loses(a, q, e, 1)
  BY <1>7, <1>8 DEF From, Loses, d, L
<1> QED BY <1>2, <1>9 DEF a

\* timerUpdate moves all nodes by as much as it moves the first one.
LEMMA FirstTimeFrom ==
  ASSUME NEW q \in Nodes, q # <<>>, NEW t \in Nat,
         NEW a, a = [q EXCEPT ![1].t = t]
  PROVE  /\ a \in Nodes /\ a # <<>> /\ a[1].t = t
         /\ \E e : From(a, q, e, t - q[1].t) /\ Loses(a, q, e, 0)
<1> DEFINE d == Due(q)
           L == Len(q)
           e == [i \in 1..Len(a) |-> i]
           m == q[1]
           c == [i \in 0..L |-> IF i = 0 THEN 0 ELSE d[i] + (t - q[1].t)]
<1>1. /\ L \in Nat /\ L # 0
      /\ IsDue(q, L, d) /\ q \in Seq(Node)
      /\ \A i \in 1..L : q[i] \in Node /\ q[i].t \in Nat
  BY NodeFacts, DueIsDue, EmptySeq DEF Nodes
<1>2. 1 \in 1..L /\ m \in Node /\ m = q[1]
  BY <1>1
<1>3. a = [q EXCEPT ![1] = [m EXCEPT !.t = t]]
  OBVIOUS
<1> HIDE DEF m
<1>4. [m EXCEPT !.t = t] \in Node /\ [m EXCEPT !.t = t].t = t /\ Like([m EXCEPT !.t = t], m)
  BY <1>2, TimeSet
<1>5. /\ a \in Seq(Node) /\ Len(a) = L
      /\ a[1] = [m EXCEPT !.t = t]
      /\ \A i \in 1..L : i # 1 => a[i] = q[i]
  <2>1. q \in Seq(Node) /\ L = Len(q)
    BY <1>1
  <2> DEFINE new == [m EXCEPT !.t = t]
  <2>2. new \in Node /\ a = [q EXCEPT ![1] = new] /\ 1 \in 1..Len(q)
    BY <1>2, <1>3, <1>4
  <2> HIDE DEF new
  <2>3. /\ a \in Seq(Node) /\ Len(a) = Len(q) /\ a[1] = new
        /\ \A i \in 1..Len(q) : i # 1 => a[i] = q[i]
    BY ONLY <2>1, <2>2, ExceptSeq
  <2> QED BY <2>1, <2>3 DEF new
<1> HIDE DEF d, L
<1>6. /\ \A j \in 0..L : d[j] \in Int
      /\ \A j \in 1..L : d[j] = d[j-1] + q[j].t
      /\ d[0] = 0
  BY <1>1 DEF IsDue
<1>7. \A j \in 0..L : c[j] = IF j = 0 THEN 0 ELSE d[j] + (t - q[1].t)
  OBVIOUS
<1>8. IsDue(a, L, c)
  <2>0. q[1].t \in Nat
    BY <1>1, <1>2
  <2>1. c \in [0..L -> Int] /\ c[0] = 0
    BY <1>1, <1>6, <2>0
  <2> HIDE DEF c
  <2>2. ASSUME NEW i \in 1..L PROVE c[i] = c[i-1] + a[i].t
    <3>1. i \in 0..L /\ i-1 \in 0..L /\ i # 0
      BY <1>1
    <3>2. /\ c[i] = d[i] + (t - q[1].t)
          /\ c[i-1] = IF i-1 = 0 THEN 0 ELSE d[i-1] + (t - q[1].t)
          /\ d[i] = d[i-1] + q[i].t
          /\ d[i-1] \in Int /\ q[i].t \in Nat
      BY <1>1, <1>6, <1>7, <3>1
    <3>3. CASE i = 1
      <4>1. a[i].t = t /\ d[i-1] = 0
        BY <1>4, <1>5, <1>6, <3>3
      <4>2. c[i] = 0 + q[1].t + (t - q[1].t) /\ c[i-1] = 0
        BY <3>2, <3>3, <4>1
      <4> QED BY <2>0, <4>1, <4>2
    <3>4. CASE i # 1
      <4> DEFINE before == d[i-1]
                 gap == q[i].t
                 first == q[1].t
      <4>1. i-1 # 0 /\ a[i].t = gap
        BY <1>5, <3>4
      <4>2. /\ c[i] = before + gap + (t - first) /\ c[i-1] = before + (t - first)
            /\ before \in Int /\ gap \in Nat /\ first \in Nat
        BY <2>0, <3>2, <4>1
      <4> HIDE DEF before, gap, first
      <4>3. c[i] = c[i-1] + gap
        BY <4>2
      <4> QED BY <4>1, <4>3
    <3> QED BY <3>3, <3>4
  <2> QED BY <2>1, <2>2 DEF IsDue
<1>9. Due(a) = c
  BY <1>5, <1>8, DueUnique DEF Nodes
<1>10. /\ e \in [1..Len(a) -> 0..L]
       /\ \A i, j \in 1..Len(a) : e[i] = e[j] => i = j
       /\ \A i \in 1..Len(a) : e[i] # 0
  BY <1>1, <1>5
<1>11. ASSUME NEW i \in 1..Len(a)
       PROVE  Like(a[i], q[e[i]]) /\ Due(a)[i] = d[e[i]] + (t - q[1].t)
  <2>1. i \in 0..L /\ i # 0 /\ i \in 1..L /\ e[i] = i
    BY <1>1, <1>5
  <2>2. Due(a)[i] = d[i] + (t - q[1].t)
    BY <1>7, <1>9, <2>1
  <2>3. Like(a[i], q[i])
    BY <1>2, <1>4, <1>5, <2>1 DEF Like
  <2> QED BY <2>1, <2>2, <2>3
<1> HIDE DEF e
<1>12. From(a, q, e, t - q[1].t) /\ Loses(a, q, e, 0)
  BY <1>10, <1>11 DEF From, Loses, d, L
<1>13. a # <<>>
  BY <1>1, <1>5, EmptySeq
<1> QED BY <1>4, <1>5, <1>12, <1>13 DEF Nodes

LEMMA UpdatedFrom ==
  ASSUME NEW q \in Nodes, elapsed \in Nat
  PROVE  /\ Updated(q) \in Nodes
         /\ Updated(q) = <<>> <=> q = <<>>
         /\ \E e : \E delta \in Int :
              /\ From(Updated(q), q, e, delta) /\ Loses(Updated(q), q, e, 0)
              /\ q # <<>> => delta \in {-elapsed, -(q[1].t)}
<1>1. CASE q = <<>>
  <2>1. Updated(q) = q /\ Len(q) = 0 /\ 0 \in Int
    BY <1>1, EmptySeq DEF Updated
  <2>2. From(q, q, [i \in 1..Len(q) |-> i], 0) /\ Loses(q, q, [i \in 1..Len(q) |-> i], 0)
    BY <2>1 DEF From, Loses
  <2> QED BY <1>1, <2>1, <2>2
<1>2. CASE q # <<>>
  <2> DEFINE t == IF q[1].t >= elapsed THEN q[1].t - elapsed ELSE 0
             delta == t - q[1].t
  <2>1. q[1].t \in Nat
    <3>1. 1 \in 1..Len(q)
      BY <1>2, EmptySeq DEF Nodes
    <3> QED BY <3>1, NodeFacts
  <2>2. t \in Nat /\ delta \in Int /\ delta \in {-elapsed, -(q[1].t)}
    BY <2>1
  <2>3. Updated(q) = [q EXCEPT ![1].t = t]
    BY <1>2 DEF Updated
  <2>4. delta = t - q[1].t
    OBVIOUS
  <2> HIDE DEF t, delta
  <2>5. /\ Updated(q) \in Nodes /\ Updated(q) # <<>>
        /\ \E e : From(Updated(q), q, e, t - q[1].t) /\ Loses(Updated(q), q, e, 0)
    BY <1>2, <2>2, <2>3, FirstTimeFrom
  <2> QED BY <1>2, <2>2, <2>4, <2>5
<1> QED BY <1>1, <1>2

(***************************************************************************)
(* The inductive invariant.                                                *)
(***************************************************************************)
\* A node leads to the request it was made for, and counts its tries.
Known(n, R, k) ==
  /\ n.req \in 1..k /\ n.id = R[n.req].tid /\ n.id # INVALID_TID
  /\ R[n.req].tries = n.rc + 1
  /\ R[n.req].type = "NON" => n.rc = 0

NodesKnown ==
  /\ \A i \in 1..Len(queue) : Known(queue[i], reqs, asked)
  /\ \A i, j \in 1..Len(queue) : queue[i].req = queue[j].req => i = j

\* The timer does not fire later than the first node is due.
TimerInv ==
  /\ timer.armed <=> queue # <<>>
  /\ queue # <<>> => queue[1].t - elapsed <= timer.left

ClientInv == ClientTypeOK /\ NodesKnown /\ TimerInv

\* A step that makes the queue anew: no node that stays is put off by more
\* than the timer was late.
Moves(e, delta) ==
  /\ queue' \in Nodes /\ delta \in Int /\ From(queue', queue, e, delta)
  /\ timer' = Restarted(queue', Stopped) /\ elapsed' \in Nat
  /\ queue # <<>> => delta <= timer.left - queue[1].t + Late

\* The node at i is new.
New(e, i) == e[i] = 0

LEMMA ClientFacts ==
  ASSUME ClientTypeOK
  PROVE  /\ queue \in Nodes /\ timer.armed \in BOOLEAN /\ timer.left \in Int
         /\ elapsed \in Nat /\ asked \in Nat
         /\ Late \in Nat /\ timer.left + Late >= 0
         /\ queue # <<>> => /\ 1 \in 1..Len(queue) /\ queue[1] \in Node
                            /\ queue[1].t \in Nat /\ First = queue[1]
<1>1. /\ queue \in Nodes /\ timer.armed \in BOOLEAN /\ timer.left \in Int
      /\ elapsed \in Nat /\ asked \in Nat
  BY DEF ClientTypeOK, Nodes
<1>2. Late \in Nat /\ timer.left + Late >= 0
  BY <1>1 DEF Late
<1>3. ASSUME queue # <<>>
      PROVE  /\ 1 \in 1..Len(queue) /\ queue[1] \in Node
             /\ queue[1].t \in Nat /\ First = queue[1]
  <2>1. 1 \in 1..Len(queue)
    BY <1>1, <1>3, EmptySeq DEF Nodes
  <2>2. Head(queue) = queue[1]
    BY <1>1, <1>3, HeadTailProperties DEF Nodes
  <2> QED BY <1>1, <2>1, <2>2, NodeFacts DEF First
<1> QED BY <1>1, <1>2, <1>3

\* What the timer is set to.
LEMMA RestartedTimer ==
  ASSUME ClientTypeOK, NEW q \in Nodes
  PROVE  /\ Restarted(q, Stopped) \in [armed: BOOLEAN, left: Int]
         /\ Restarted(q, Stopped).armed <=> q # <<>>
         /\ q # <<>> => Restarted(q, Stopped).left = q[1].t
<1>1. timer \in [armed: BOOLEAN, left: Int]
  BY DEF ClientTypeOK
<1>2. Stopped \in [armed: BOOLEAN, left: Int] /\ ~Stopped.armed
  BY <1>1 DEF Stopped
<1>3. CASE q = <<>>
  BY <1>1, <1>2, <1>3 DEF Restarted
<1>4. CASE q # <<>>
  <2>1. q[1].t \in Nat
    <3>1. 1 \in 1..Len(q)
      BY <1>4, EmptySeq DEF Nodes
    <3> QED BY <3>1, NodeFacts
  <2> QED BY <1>4, <2>1 DEF Restarted
<1> QED BY <1>3, <1>4

(***************************************************************************)
(* What each action does to the queue.                                     *)
(***************************************************************************)
\* The new times after timerUpdate keep to the timer.
LEMMA NotLaterThanTimer ==
  ASSUME ClientTypeOK, TimerInv, queue # <<>>, NEW t \in Nat,
         t >= queue[1].t, NEW delta, delta \in {-elapsed, -t}
  PROVE  delta \in Int /\ delta <= timer.left - queue[1].t + Late
BY ClientFacts DEF TimerInv

LEMMA RequestMoves ==
  ASSUME ClientTypeOK, TimerInv, NEW type \in Types, request(type)
  PROVE  \E e : \E delta \in Int :
           /\ Moves(e, delta)
           /\ queue' # <<>>
           /\ \A i \in 1..Len(queue') : New(e, i) =>
                /\ queue'[i].req = asked + 1 /\ queue'[i].rc = 0
                /\ queue'[i].id = TransactionID[message_id]
<1> DEFINE q == Updated(queue)
<1>1. PICK timeout \in NodeTimeout(type) :
        Requeued(coapAddNode(q, [id |-> TransactionID[message_id],
                                 req |-> asked + 1, t |-> timeout, rc |-> 0,
                                 timeout |-> timeout]))
  BY DEF request
<1> DEFINE n == [id |-> TransactionID[message_id], req |-> asked + 1,
                 t |-> timeout, rc |-> 0, timeout |-> timeout]
<1>2. n \in Node
  <2>1. timeout \in Nat
    BY <1>1 DEF NodeTimeout
  <2>2. asked + 1 \in Requests
    BY DEF request, Requests, ClientTypeOK
  <2>3. TransactionID[message_id] \in Tids
    BY DEF Tids, ClientTypeOK
  <2>4. 0 \in 0..MAX_RETRANSMIT
    OBVIOUS
  <2> QED BY <2>1, <2>2, <2>3, <2>4 DEF Node
<1>3. /\ n.req = asked + 1 /\ n.rc = 0 /\ n.id = TransactionID[message_id]
  OBVIOUS
<1>4. Requeued(coapAddNode(q, n))
  BY <1>1
<1> HIDE DEF n, q
<1>13. q \in Nodes
  BY ClientFacts, UpdatedFrom DEF q
<1>14. PICK e : \E delta \in Int :
         /\ From(q, queue, e, delta) /\ Loses(q, queue, e, 0)
         /\ queue # <<>> => delta \in {-elapsed, -(queue[1].t)}
  BY ClientFacts, UpdatedFrom DEF q
<1>5. PICK delta \in Int :
        /\ q \in Nodes
        /\ From(q, queue, e, delta) /\ Loses(q, queue, e, 0)
        /\ queue # <<>> => delta \in {-elapsed, -(queue[1].t)}
  BY <1>13, <1>14
<1>6. PICK f :
        /\ coapAddNode(q, n) \in Nodes /\ coapAddNode(q, n) # <<>>
        /\ From(coapAddNode(q, n), q, f, 0)
        /\ \A i \in 1..Len(coapAddNode(q, n)) : f[i] = 0 => Like(coapAddNode(q, n)[i], n)
  BY <1>2, <1>5, AddedFrom
<1>7. queue' = coapAddNode(q, n)
  BY <1>4 DEF Requeued
<1>8. /\ queue' \in Nodes /\ queue' # <<>>
      /\ From(queue', q, f, 0)
      /\ \A i \in 1..Len(queue') : f[i] = 0 => Like(queue'[i], n)
  BY <1>6, <1>7
<1> DEFINE g == [i \in 1..Len(queue') |-> IF f[i] = 0 THEN 0 ELSE e[f[i]]]
<1>9. From(queue', queue, g, delta)
  <2>1. From(queue', queue, g, delta + 0)
    BY ClientFacts, <1>5, <1>8, FromCompose, 0 \in Int
  <2> QED BY <1>5, <2>1
<1>10. \A i \in 1..Len(queue') : g[i] = 0 => f[i] = 0
  BY <1>5, <1>8 DEF From, Loses
<1>11. queue # <<>> => delta <= timer.left - queue[1].t + Late
  <2>1. queue # <<>> => queue[1].t \in Nat /\ queue[1].t >= queue[1].t
    BY ClientFacts
  <2> QED BY <1>5, <2>1, NotLaterThanTimer
<1> HIDE DEF g
<1>12. Moves(g, delta)
  BY <1>4, <1>5, <1>8, <1>9, <1>11 DEF Moves, Requeued
<1> QED BY <1>3, <1>8, <1>10, <1>12 DEF New, Like

LEMMA ResponseMoves ==
  ASSUME ClientTypeOK, TimerInv, NEW r \in Requests, ResponseFound(r)
  PROVE  \E e : \E delta \in Int :
           /\ Moves(e, delta)
           /\ \A i \in 1..Len(queue') : ~New(e, i)
           /\ callbacks[reqs[r].tid] # 0 =>
                Loses(queue', queue, e, NodeIndex(queue, reqs[r].tid))
<1> DEFINE id == reqs[r].tid
           q == IF callbacks[id] = 0 THEN queue ELSE coapRemoveNode(queue, id)
           Gone(a, e) == callbacks[id] # 0 => Loses(a, queue, e, NodeIndex(queue, id))
<1>0. HasNode(queue, id) /\ queue \in Nodes
  BY ClientFacts DEF ResponseFound
<1>1. /\ queue' = Updated(q) /\ timer' = Restarted(queue', Stopped)
      /\ elapsed' = 0
  BY DEF ResponseFound, Requeued
<1>2. PICK e : /\ q \in Nodes
               /\ q # <<>> => q[1].t >= queue[1].t
               /\ From(q, queue, e, 0) /\ Loses(q, queue, e, 0) /\ Gone(q, e)
  <2>1. CASE callbacks[id] = 0
    <3> DEFINE e == [i \in 1..Len(queue) |-> i]
    <3>1. From(queue, queue, e, 0) /\ Loses(queue, queue, e, 0)
      <4>1. Len(queue) \in Nat /\ \A i \in 1..Len(queue) : Due(queue)[i] \in Int
        BY <1>0, NodeFacts, DueIsDue DEF IsDue
      <4> QED BY <4>1 DEF From, Loses, Like
    <3>2. queue # <<>> => queue[1].t >= queue[1].t
      BY ClientFacts
    <3> QED BY <1>0, <2>1, <3>1, <3>2
  <2>2. CASE callbacks[id] # 0
    BY <1>0, <2>2, RemovedFrom
  <2> QED BY <2>1, <2>2
<1> HIDE DEF q
<1>10. Updated(q) \in Nodes /\ (Updated(q) = <<>> <=> q = <<>>)
  BY ClientFacts, <1>2, UpdatedFrom
<1>11. PICK f : \E delta \in Int :
         /\ From(Updated(q), q, f, delta) /\ Loses(Updated(q), q, f, 0)
         /\ q # <<>> => delta \in {-elapsed, -(q[1].t)}
  BY ClientFacts, <1>2, UpdatedFrom
<1>3. PICK delta \in Int :
        /\ Updated(q) \in Nodes /\ (Updated(q) = <<>> <=> q = <<>>)
        /\ From(Updated(q), q, f, delta) /\ Loses(Updated(q), q, f, 0)
        /\ q # <<>> => delta \in {-elapsed, -(q[1].t)}
  BY <1>10, <1>11
<1> DEFINE g == [i \in 1..Len(queue') |-> IF f[i] = 0 THEN 0 ELSE e[f[i]]]
<1>4. From(queue', queue, g, delta)
  <2>1. From(queue', queue, g, 0 + delta)
    BY <1>0, <1>1, <1>2, <1>3, FromCompose, 0 \in Int
  <2> QED BY <1>3, <2>1
<1>5. \A i \in 1..Len(queue') : f[i] \in 1..Len(q) /\ g[i] = e[f[i]]
  <2>1. Len(q) \in Nat /\ Len(queue') \in Nat
    BY <1>1, <1>2, <1>3, NodeFacts
  <2> QED BY <1>1, <1>3, <2>1 DEF From, Loses
<1> HIDE DEF g
<1>6. \A i \in 1..Len(queue') : g[i] # 0
  BY <1>2, <1>5 DEF Loses
<1>7. callbacks[id] # 0 => Loses(queue', queue, g, NodeIndex(queue, id))
  BY <1>2, <1>5, <1>6 DEF Loses
<1>8. CASE q # <<>>
  <2>1. queue # <<>>
    <3>1. 1 \in 1..Len(q) /\ Len(queue) \in Nat
      BY <1>0, <1>2, <1>8, NodeFacts, EmptySeq DEF Nodes
    <3>2. e[1] \in 0..Len(queue) /\ e[1] # 0
      BY <1>2, <3>1 DEF From, Loses
    <3> QED BY <1>0, <3>1, <3>2, EmptySeq DEF Nodes
  <2>2. q[1].t \in Nat
    <3>1. 1 \in 1..Len(q)
      BY <1>2, <1>8, EmptySeq DEF Nodes
    <3> QED BY <1>2, <3>1, NodeFacts
  <2>3. delta <= timer.left - queue[1].t + Late
    BY <1>2, <1>3, <1>8, <2>1, <2>2, NotLaterThanTimer
  <2>4. Moves(g, delta)
    BY <1>1, <1>3, <1>4, <2>3 DEF Moves
  <2> QED BY <1>3, <1>6, <1>7, <2>4 DEF New
<1>9. CASE q = <<>>
  \* No node is left to be put off.
  <2>1. queue' = <<>> /\ queue' \in Nodes /\ Len(queue') = 0
    BY <1>1, <1>3, <1>9, EmptySeq
  <2>2. PICK x \in Int : queue # <<>> => x <= timer.left - queue[1].t + Late
    <3>1. CASE queue = <<>>
      BY <3>1, 0 \in Int
    <3>2. CASE queue # <<>>
      <4>1. timer.left - queue[1].t \in Int /\
            timer.left - queue[1].t <= timer.left - queue[1].t + Late
        BY <3>2, ClientFacts
      <4> QED BY <4>1
    <3> QED BY <3>1, <3>2
  <2>3. From(queue', queue, g, x)
    BY <1>4, <2>1 DEF From
  <2>4. Moves(g, x)
    BY <1>1, <2>1, <2>2, <2>3 DEF Moves
  <2> QED BY <1>6, <1>7, <2>2, <2>4 DEF New
<1> QED BY <1>8, <1>9

\* The timer fires only with a first node, and not before it is due.
LEMMA ExpiredFacts ==
  ASSUME ClientTypeOK, TimerInv, Expired
  PROVE  /\ queue # <<>> /\ First \in Node /\ First = queue[1]
         /\ -(queue[1].t) \in Int
         /\ -(queue[1].t) <= timer.left - queue[1].t + Late
<1>1. queue # <<>>
  BY DEF TimerInv, Expired
<1> QED BY <1>1, ClientFacts

LEMMA RetransmitMoves ==
  ASSUME ClientTypeOK, TimerInv, Retransmit
  PROVE  \E e : \E delta \in Int :
           /\ Moves(e, delta)
           /\ queue' # <<>>
           /\ \A i \in 1..Len(queue') :
                /\ e[i] # 1
                /\ New(e, i) => /\ queue'[i].req = First.req
                                /\ queue'[i].id = First.id
                                /\ queue'[i].rc = First.rc + 1
<1> DEFINE n == [First EXCEPT !.rc = @ + 1,
                              !.t = First.timeout * 2 ^ (First.rc + 1)]
           q == Tail(queue)
           delta == -(queue[1].t)
<1>0. Expired /\ RetriesLeft(First)
  BY DEF Retransmit
<1>1. /\ queue # <<>> /\ First \in Node /\ delta \in Int /\ queue \in Nodes
      /\ delta <= timer.left - queue[1].t + Late /\ delta = -(queue[1].t)
  BY <1>0, ClientFacts, ExpiredFacts
<1>2. First.rc + 1 \in 0..MAX_RETRANSMIT /\ First.timeout \in Nat
  BY <1>0, <1>1 DEF RetriesLeft, Node
<1>3. First.timeout * 2 ^ (First.rc + 1) \in Nat
  BY <1>2, PowersAssumption
<1>4. /\ n \in Node /\ n.req = First.req /\ n.id = First.id
      /\ n.rc = First.rc + 1
  BY <1>1, <1>2, <1>3 DEF Node
<1>5. /\ queue' = coapAddNode(q, n) /\ timer' = Restarted(queue', Stopped)
      /\ elapsed' \in Nat
  BY ClientFacts DEF Retransmit, Fired
<1> HIDE DEF n, delta
<1>6. PICK e : /\ q \in Nodes
               /\ From(q, queue, e, delta)
               /\ Loses(q, queue, e, 0) /\ Loses(q, queue, e, 1)
  BY <1>1, TailFrom
<1> HIDE DEF q
<1>7. PICK f : /\ queue' \in Nodes /\ queue' # <<>>
               /\ From(queue', q, f, 0)
               /\ \A i \in 1..Len(queue') : f[i] = 0 => Like(queue'[i], n)
  <2>1. /\ coapAddNode(q, n) \in Nodes /\ coapAddNode(q, n) # <<>>
        /\ \E f : /\ From(coapAddNode(q, n), q, f, 0)
                  /\ \A i \in 1..Len(coapAddNode(q, n)) :
                       f[i] = 0 => Like(coapAddNode(q, n)[i], n)
    BY <1>4, <1>6, AddedFrom
  <2> QED BY <1>5, <2>1
<1> DEFINE g == [i \in 1..Len(queue') |-> IF f[i] = 0 THEN 0 ELSE e[f[i]]]
<1>8. From(queue', queue, g, delta)
  <2>1. From(queue', queue, g, delta + 0)
    BY <1>1, <1>6, <1>7, FromCompose, 0 \in Int
  <2> QED BY <1>1, <2>1
<1>9. \A i \in 1..Len(queue') : g[i] # 1 /\ (g[i] = 0 => f[i] = 0)
  <2> SUFFICES ASSUME NEW i \in 1..Len(queue'), f[i] # 0
               PROVE  g[i] # 1 /\ g[i] # 0
    OBVIOUS
  <2>1. Len(q) \in Nat /\ f[i] \in 0..Len(q) /\ g[i] = e[f[i]]
    BY <1>6, <1>7, NodeFacts DEF From
  <2>2. f[i] \in 1..Len(q)
    BY <2>1
  <2> QED BY <1>6, <2>1, <2>2 DEF Loses
<1> HIDE DEF g
<1>10. Moves(g, delta)
  BY <1>1, <1>5, <1>7, <1>8 DEF Moves
<1> QED BY <1>1, <1>4, <1>7, <1>9, <1>10 DEF New, Like

LEMMA GiveUpMoves ==
  ASSUME ClientTypeOK, TimerInv, GiveUp
  PROVE  \E e : \E delta \in Int :
           /\ Moves(e, delta)
           /\ \A i \in 1..Len(queue') : e[i] # 1 /\ ~New(e, i)
<1> DEFINE delta == -(queue[1].t)
<1>0. Expired
  BY DEF GiveUp
<1>1. /\ queue # <<>> /\ delta \in Int /\ queue \in Nodes
      /\ delta <= timer.left - queue[1].t + Late /\ delta = -(queue[1].t)
  BY <1>0, ClientFacts, ExpiredFacts
<1>2. /\ queue' = Tail(queue) /\ timer' = Restarted(queue', Stopped)
      /\ elapsed' \in Nat
  BY ClientFacts DEF GiveUp, Fired
<1> HIDE DEF delta
<1>3. PICK e : /\ queue' \in Nodes
               /\ From(queue', queue, e, delta)
               /\ Loses(queue', queue, e, 0) /\ Loses(queue', queue, e, 1)
  BY <1>1, <1>2, TailFrom
<1>4. Moves(e, delta)
  BY <1>1, <1>2, <1>3 DEF Moves
<1> QED BY <1>1, <1>3, <1>4 DEF New, Loses

(***************************************************************************)
(* What follows from it.                                                   *)
(***************************************************************************)
LEMMA MovesKeepTimer ==
  ASSUME ClientTypeOK, NEW e, NEW delta, Moves(e, delta)
  PROVE  /\ queue' \in Seq(Node)
         /\ timer' \in [armed: BOOLEAN, left: Int]
         /\ elapsed' \in Nat
         /\ TimerInv'
<1>1. /\ queue' \in Nodes /\ timer' = Restarted(queue', Stopped) /\ elapsed' \in Nat
  BY DEF Moves
<1>2. /\ timer' \in [armed: BOOLEAN, left: Int]
      /\ timer'.armed <=> queue' # <<>>
      /\ queue' # <<>> => timer'.left = queue'[1].t
  BY <1>1, RestartedTimer
<1>3. queue' # <<>> => queue'[1].t \in Nat
  <2>1. queue' # <<>> => 1 \in 1..Len(queue')
    BY <1>1, EmptySeq DEF Nodes
  <2> QED BY <1>1, <2>1, NodeFacts
<1>4. TimerInv'
  BY <1>1, <1>2, <1>3 DEF TimerInv
<1> QED BY <1>1, <1>2, <1>4 DEF Nodes

LEMMA MovesKeepNodes ==
  ASSUME ClientTypeOK, NodesKnown, NEW e, NEW delta, Moves(e, delta),
         asked' \in Nat, asked <= asked',
         \A r \in 1..asked : reqs'[r].tid = reqs[r].tid /\ reqs'[r].type = reqs[r].type,
         \A i \in 1..Len(queue') : New(e, i) => Known(queue'[i], reqs', asked'),
         \A i, j \in 1..Len(queue') :
           New(e, i) /\ ~New(e, j) => queue'[i].req # queue'[j].req,
         \A i \in 1..Len(queue') : ~New(e, i) =>
           reqs'[queue'[i].req].tries = reqs[queue'[i].req].tries
  PROVE  NodesKnown'
<1>1. /\ queue' \in Nodes /\ From(queue', queue, e, delta)
      /\ queue \in Nodes /\ asked \in Nat
  BY ClientFacts DEF Moves
<1>2. \A i \in 1..Len(queue') : ~New(e, i) =>
        e[i] \in 1..Len(queue) /\ Like(queue'[i], queue[e[i]])
  <2>1. Len(queue) \in Nat
    BY <1>1, NodeFacts
  <2> QED BY <1>1, <2>1 DEF From, New
<1>3. ASSUME NEW i \in 1..Len(queue')
      PROVE  Known(queue'[i], reqs', asked')
  <2>1. CASE New(e, i)
    BY <2>1
  <2>2. CASE ~New(e, i)
    <3>1. Known(queue[e[i]], reqs, asked) /\ Like(queue'[i], queue[e[i]])
      BY <1>2, <2>2 DEF NodesKnown
    <3>2. Known(queue'[i], reqs, asked)
      BY <3>1 DEF Known, Like
    <3>3. queue'[i].req \in 1..asked /\ queue'[i].req \in 1..asked'
      BY <1>1, <3>2 DEF Known
    <3> QED BY <2>2, <3>2, <3>3 DEF Known
  <2> QED BY <2>1, <2>2
<1>4. ASSUME NEW i \in 1..Len(queue'), NEW j \in 1..Len(queue'),
             queue'[i].req = queue'[j].req
      PROVE  i = j
  <2>1. CASE New(e, i) /\ New(e, j)
    BY <1>1, <2>1 DEF From, New
  <2>2. CASE ~New(e, i) /\ ~New(e, j)
    <3>1. queue[e[i]].req = queue[e[j]].req
      BY <1>2, <1>4, <2>2 DEF Like
    <3>2. e[i] = e[j]
      BY <1>2, <2>2, <3>1 DEF NodesKnown
    <3> QED BY <1>1, <3>2 DEF From
  <2> QED BY <1>4, <2>1, <2>2
<1> QED BY <1>3, <1>4 DEF NodesKnown

(***************************************************************************)
(* The invariant is kept.                                                  *)
(***************************************************************************)
LEMMA NextMessageIdTyped ==
  ASSUME message_id \in Mids
  PROVE  /\ NextMessageId \in Mids
         /\ NextMessageId = IF message_id + 1 = MidMod THEN 0 ELSE message_id + 1
<1>1. message_id \in Nat /\ message_id + 1 \in Nat /\ message_id + 1 <= MidMod
  BY DEF Mids
<1>2. CASE message_id + 1 = MidMod
  <2>1. MidMod % MidMod = 0
    OBVIOUS
  <2> QED BY <1>2, <2>1 DEF NextMessageId, Mids
<1>3. CASE message_id + 1 # MidMod
  <2>1. (message_id + 1) % MidMod = message_id + 1
    BY <1>1, <1>3
  <2> QED BY <1>1, <1>3, <2>1 DEF NextMessageId, Mids
<1> QED BY <1>2, <1>3

LEMMA CallTyped ==
  ASSUME ClientTypeOK, NEW id \in Tids, NEW outcome \in {"ANSWERED", "FAILED"},
         Call(id, outcome)
  PROVE  heard' \in [Requests -> Seq({"ANSWERED", "FAILED"})]
<1>1. CASE callbacks[id] = 0
  BY <1>1 DEF Call, ClientTypeOK
<1>2. CASE callbacks[id] # 0
  <2> DEFINE r == callbacks[id]
             old == heard[r]
  <2>1. r \in Requests /\ old \in Seq({"ANSWERED", "FAILED"}) /\ old = heard[r]
    BY <1>2 DEF ClientTypeOK
  <2>2. heard' = [heard EXCEPT ![r] = Append(old, outcome)]
    BY <1>2 DEF Call
  <2> HIDE DEF r, old
  <2>3. Append(old, outcome) \in Seq({"ANSWERED", "FAILED"})
    BY <2>1, AppendProperties
  <2> QED BY <2>1, <2>2, <2>3 DEF ClientTypeOK
<1> QED BY <1>1, <1>2

RequestRecords == [type: Types, tid: Tids, tries: 0..MAX_RETRANSMIT + 1,
                   sock: {"NONE", "UNCONNECTED", "OPEN", "CLOSED"}]

\* A request is made in the place of one that was not there.
LEMMA RequestKeeps ==
  ASSUME ClientInv, NEW type \in Types, request(type)
  PROVE  ClientInv'
<1> DEFINE r == asked + 1
           id == TransactionID[message_id]
<1>0. ClientTypeOK /\ NodesKnown /\ TimerInv
  BY DEF ClientInv
<1>1. /\ asked' = r /\ r \in Requests /\ r \in 0..MaxRequests /\ asked \in Nat
      /\ message_id' \in Mids /\ id \in Tids /\ id # INVALID_TID
  <2>1. asked \in 0..MaxRequests /\ asked < MaxRequests /\ asked' = asked + 1
    BY <1>0 DEF request, ClientTypeOK
  <2>2. message_id \in Mids /\ message_id' = NextMessageId
    BY <1>0 DEF request, ClientTypeOK
  <2>3. id \in Nat /\ id \in Tids
    BY <2>2 DEF Tids
  <2> QED BY <2>1, <2>2, <2>3, NextMessageIdTyped DEF Requests, INVALID_TID
<1>2. PICK sock \in SocketAfterSend("NONE") :
        reqs' = [reqs EXCEPT ![r] = [type |-> type, tid |-> id, sock |-> sock,
                                     tries |-> 1]]
  BY DEF request
<1>3. reqs \in [Requests -> RequestRecords] /\ callbacks \in [Tids -> Requests \cup {0}]
  BY <1>0 DEF ClientTypeOK, RequestRecords
<1>4. callbacks' = [callbacks EXCEPT ![id] = r] /\ UNCHANGED <<heard, fault>>
  BY DEF request
<1> HIDE DEF r, id
<1>5. reqs' \in [Requests -> RequestRecords]
  <2>1. [type |-> type, tid |-> id, sock |-> sock, tries |-> 1] \in RequestRecords
    BY <1>1, <1>2 DEF RequestRecords, SocketAfterSend
  <2> QED BY <1>1, <1>2, <1>3, <2>1
<1>6. /\ reqs'[r].tid = id /\ reqs'[r].tries = 1
      /\ \A s \in Requests : s # r => reqs'[s] = reqs[s]
  BY <1>1, <1>2, <1>3
<1>7. PICK e : \E delta \in Int :
        /\ Moves(e, delta)
        /\ \A i \in 1..Len(queue') : New(e, i) =>
             /\ queue'[i].req = r /\ queue'[i].rc = 0 /\ queue'[i].id = id
  BY <1>0, RequestMoves DEF r, id
<1>8. PICK delta \in Int : Moves(e, delta)
  BY <1>7
<1>9. \A i \in 1..Len(queue') : ~New(e, i) => queue'[i].req \in 1..asked
  <2>1. Len(queue) \in Nat /\ From(queue', queue, e, delta)
    BY <1>0, <1>8, ClientFacts, NodeFacts DEF Moves
  <2>2. \A i \in 1..Len(queue') : ~New(e, i) =>
          e[i] \in 1..Len(queue) /\ Like(queue'[i], queue[e[i]])
    BY <2>1 DEF From, New
  <2> QED BY <1>0, <2>2 DEF NodesKnown, Known, Like
<1>10. \A s \in 1..asked : s \in Requests /\ s # r
  BY <1>0, <1>1 DEF r, Requests, ClientTypeOK
<1>11. NodesKnown'
  <2>1. asked' \in Nat /\ asked <= asked'
    BY <1>1 DEF r
  <2>2. \A s \in 1..asked : reqs'[s] = reqs[s]
    BY <1>6, <1>10
  <2>3. \A i \in 1..Len(queue') : New(e, i) => Known(queue'[i], reqs', asked')
    <3>1. r \in 1..asked'
      BY <1>1 DEF Requests
    <3>2. 0 + 1 = 1
      OBVIOUS
    <3> QED BY <1>1, <1>6, <1>7, <3>1, <3>2 DEF Known
  <2>4. \A i, j \in 1..Len(queue') :
          New(e, i) /\ ~New(e, j) => queue'[i].req # queue'[j].req
    BY <1>7, <1>9, <1>10
  <2> QED BY <1>0, <1>8, <1>9, <2>1, <2>2, <2>3, <2>4, MovesKeepNodes
<1>12. ClientTypeOK'
  BY <1>0, <1>1, <1>3, <1>4, <1>5, <1>8, MovesKeepTimer
     DEF ClientTypeOK, RequestRecords
<1>13. TimerInv'
  BY <1>0, <1>8, MovesKeepTimer
<1> QED BY <1>11, <1>12, <1>13 DEF ClientInv

LEMMA RequestOutOfMemoryKeeps ==
  ASSUME ClientInv, NEW type \in Types, requestOutOfMemory(type)
  PROVE  ClientInv'
<1> DEFINE r == asked + 1
           new == [NoRequest EXCEPT !.type = type, !.sock = "UNCONNECTED"]
<1>0. ClientTypeOK /\ NodesKnown /\ TimerInv
  BY DEF ClientInv
<1>1. /\ asked' = r /\ r \in Requests /\ r \in 0..MaxRequests /\ asked \in Nat
      /\ message_id' \in Mids /\ INVALID_TID \in Tids
  <2>1. asked \in 0..MaxRequests /\ asked < MaxRequests /\ asked' = asked + 1
    BY <1>0 DEF requestOutOfMemory, ClientTypeOK
  <2>2. message_id \in Mids /\ message_id' = NextMessageId
    BY <1>0 DEF requestOutOfMemory, ClientTypeOK
  <2> QED BY <2>1, <2>2, NextMessageIdTyped DEF Requests, Tids
<1>2. reqs \in [Requests -> RequestRecords] /\ callbacks \in [Tids -> Requests \cup {0}]
  BY <1>0 DEF ClientTypeOK, RequestRecords
<1>3. /\ reqs' = [reqs EXCEPT ![r] = new]
      /\ callbacks' = [callbacks EXCEPT ![INVALID_TID] = r]
      /\ UNCHANGED <<queue, timer, elapsed, heard, fault>>
  BY DEF requestOutOfMemory
<1>4. new \in RequestRecords
  <2>1. NoRequest \in RequestRecords
    BY <1>1 DEF NoRequest, RequestRecords, Types
  <2> QED BY <2>1 DEF RequestRecords
<1> HIDE DEF r, new
<1>5. reqs' \in [Requests -> RequestRecords]
  BY <1>1, <1>2, <1>3, <1>4
<1>6. ClientTypeOK'
  BY <1>0, <1>1, <1>2, <1>3, <1>5 DEF ClientTypeOK, RequestRecords
<1>7. NodesKnown'
  <2>1. \A s \in 1..asked : s \in Requests /\ s # r /\ s \in 1..asked'
    BY <1>0, <1>1 DEF r, Requests, ClientTypeOK
  <2>2. \A s \in 1..asked : reqs'[s] = reqs[s]
    BY <1>2, <1>3, <2>1
  <2>3. ASSUME NEW n, Known(n, reqs, asked) PROVE Known(n, reqs', asked')
    BY <2>1, <2>2, <2>3 DEF Known
  <2> QED BY <1>0, <1>3, <2>3 DEF NodesKnown
<1>8. TimerInv'
  BY <1>0, <1>3 DEF TimerInv
<1> QED BY <1>6, <1>7, <1>8 DEF ClientInv

LEMMA ResponseKeeps ==
  ASSUME ClientInv, NEW r \in Requests, ResponseFound(r)
  PROVE  ClientInv'
<1> DEFINE id == reqs[r].tid
<1>0. ClientTypeOK /\ NodesKnown /\ TimerInv
  BY DEF ClientInv
<1>1. /\ reqs \in [Requests -> RequestRecords]
      /\ callbacks \in [Tids -> Requests \cup {0}] /\ id \in Tids
  BY <1>0 DEF ClientTypeOK, RequestRecords
<1>2. /\ UNCHANGED <<message_id, asked, fault>> /\ Call(id, "ANSWERED")
      /\ \/ UNCHANGED <<callbacks, reqs>>
         \/ /\ callbacks' = [callbacks EXCEPT ![id] = 0]
            /\ reqs' = [reqs EXCEPT ![r].sock = "CLOSED"]
  BY DEF ResponseFound
<1> HIDE DEF id
<1>3. heard' \in [Requests -> Seq({"ANSWERED", "FAILED"})]
  BY <1>0, <1>1, <1>2, CallTyped
<1>4. /\ reqs' \in [Requests -> RequestRecords]
      /\ \A s \in Requests : /\ reqs'[s].tid = reqs[s].tid
                             /\ reqs'[s].type = reqs[s].type
                             /\ reqs'[s].tries = reqs[s].tries
  <2>1. CASE UNCHANGED <<callbacks, reqs>>
    BY <1>1, <2>1
  <2>2. CASE reqs' = [reqs EXCEPT ![r].sock = "CLOSED"]
    <3> DEFINE R == [reqs[r] EXCEPT !.sock = "CLOSED"]
    <3>1. /\ R \in RequestRecords /\ R.tid = reqs[r].tid
          /\ R.type = reqs[r].type /\ R.tries = reqs[r].tries
      <4>1. reqs[r] \in RequestRecords
        BY <1>1
      <4> QED BY <4>1 DEF RequestRecords
    <3>2. reqs' = [reqs EXCEPT ![r] = R]
      BY <2>2
    <3> HIDE DEF R
    <3> QED BY <1>1, <3>1, <3>2
  <2> QED BY <1>2, <2>1, <2>2
<1>5. PICK e : \E delta \in Int :
        Moves(e, delta) /\ \A i \in 1..Len(queue') : ~New(e, i)
  BY <1>0, ResponseMoves
<1>6. PICK delta \in Int : Moves(e, delta)
  BY <1>5
<1>7. callbacks' \in [Tids -> Requests \cup {0}]
  BY <1>1, <1>2
<1>8. ClientTypeOK'
  BY <1>0, <1>2, <1>3, <1>4, <1>6, <1>7, MovesKeepTimer
     DEF ClientTypeOK, RequestRecords
<1>9. NodesKnown'
  <2>1. /\ asked' \in Nat /\ asked <= asked'
        /\ \A s \in 1..asked : s \in Requests
    BY <1>0, <1>2 DEF ClientTypeOK, Requests
  <2>2. \A i \in 1..Len(queue') : queue'[i].req \in Requests
    <3>1. queue' \in Nodes
      BY <1>6 DEF Moves
    <3> QED BY <3>1, NodeFacts DEF Node
  <2> QED BY <1>0, <1>4, <1>5, <1>6, <2>1, <2>2, MovesKeepNodes
<1> QED BY <1>0, <1>6, <1>8, <1>9, MovesKeepTimer DEF ClientInv

LEMMA RetransmitKeeps ==
  ASSUME ClientInv, Retransmit
  PROVE  ClientInv'
<1> DEFINE r == First.req
<1>0. ClientTypeOK /\ NodesKnown /\ TimerInv
  BY DEF ClientInv
<1>1. /\ queue # <<>> /\ First \in Node /\ First = queue[1]
      /\ 1 \in 1..Len(queue) /\ queue \in Nodes /\ asked \in 0..MaxRequests
  BY <1>0, ExpiredFacts, ClientFacts DEF Retransmit, ClientTypeOK
<1>2. Known(First, reqs, asked)
  BY <1>0, <1>1 DEF NodesKnown
<1>3. r \in 1..asked /\ r \in Requests
  BY <1>1, <1>2 DEF Known, Requests
<1>4. /\ reqs[r].type = "CON" /\ RetriesLeft(First)
      /\ UNCHANGED <<callbacks, message_id, asked, elapsed, heard, fault>>
  BY DEF Retransmit
<1>5. PICK sock \in SocketAfterSend(reqs[r].sock) :
        reqs' = [reqs EXCEPT ![r].sock = sock, ![r].tries = @ + 1]
  BY DEF Retransmit
<1>6. reqs \in [Requests -> RequestRecords]
  BY <1>0 DEF ClientTypeOK, RequestRecords
<1>7. First.rc \in Nat /\ First.rc + 1 <= MAX_RETRANSMIT
  BY <1>1, <1>4 DEF RetriesLeft, Node
<1>8. /\ reqs' \in [Requests -> RequestRecords]
      /\ reqs'[r].tries = First.rc + 1 + 1
      /\ \A s \in Requests : /\ reqs'[s].tid = reqs[s].tid
                             /\ reqs'[s].type = reqs[s].type
                             /\ s # r => reqs'[s].tries = reqs[s].tries
  <2> DEFINE old == reqs[r]
             new == First.rc + 1 + 1
             R == [old EXCEPT !.sock = sock, !.tries = new]
  <2>1. /\ R \in RequestRecords /\ R.tid = reqs[r].tid
        /\ R.type = reqs[r].type /\ R.tries = First.rc + 1 + 1
    <3>1. old \in RequestRecords /\ new \in 0..MAX_RETRANSMIT + 1
      BY <1>3, <1>6, <1>7
    <3>2. sock \in {"UNCONNECTED", "OPEN"}
      BY <1>5 DEF SocketAfterSend
    <3> HIDE DEF old, new
    <3>3. /\ R \in RequestRecords /\ R.tid = old.tid
          /\ R.type = old.type /\ R.tries = new
      BY <3>1, <3>2 DEF RequestRecords
    <3> QED BY <3>3 DEF old, new
  <2>2. reqs' = [reqs EXCEPT ![r] = R]
    <3>1. reqs[r].tries + 1 = new
      BY <1>2, <1>3, <1>7 DEF Known
    <3> HIDE DEF new
    <3>2. reqs' = [reqs EXCEPT ![r] = [old EXCEPT !.sock = sock, !.tries = @ + 1]]
      BY <1>3, <1>5, <1>6
    <3>3. [old EXCEPT !.sock = sock, !.tries = @ + 1] = R
      BY <3>1
    <3> QED BY <3>2, <3>3
  <2> HIDE DEF R
  <2> QED BY <1>3, <1>6, <2>1, <2>2
<1> HIDE DEF r
<1>9. PICK e : \E delta \in Int :
        /\ Moves(e, delta)
        /\ \A i \in 1..Len(queue') :
             /\ e[i] # 1
             /\ New(e, i) => /\ queue'[i].req = r /\ queue'[i].id = First.id
                             /\ queue'[i].rc = First.rc + 1
  BY <1>0, RetransmitMoves DEF r
<1>10. PICK delta \in Int : Moves(e, delta)
  BY <1>9
\* No node that stays is of the request that is sent again.
<1>11. \A i \in 1..Len(queue') : ~New(e, i) =>
         queue'[i].req # r /\ queue'[i].req \in Requests
  <2>1. Len(queue) \in Nat /\ From(queue', queue, e, delta) /\ queue' \in Nodes
    BY <1>10, <1>1, NodeFacts DEF Moves
  <2>2. \A i \in 1..Len(queue') : ~New(e, i) =>
          e[i] \in 1..Len(queue) /\ Like(queue'[i], queue[e[i]])
    BY <2>1 DEF From, New
  <2>3. \A i \in 1..Len(queue) : i # 1 => queue[i].req # r
    BY <1>0, <1>1 DEF NodesKnown, r
  <2>4. \A i \in 1..Len(queue') : queue'[i].req \in Requests
    BY <2>1, NodeFacts DEF Node
  <2> QED BY <1>9, <2>2, <2>3, <2>4 DEF Like
<1>12. NodesKnown'
  <2>1. /\ asked' = asked /\ asked' \in Nat /\ asked <= asked'
        /\ \A s \in 1..asked : s \in Requests
    BY <1>1, <1>4 DEF Requests
  <2>2. \A i \in 1..Len(queue') : New(e, i) => Known(queue'[i], reqs', asked')
    <3>1. /\ reqs'[r].tid = First.id /\ First.id # INVALID_TID
          /\ reqs'[r].type # "NON"
      BY <1>2, <1>3, <1>4, <1>8 DEF Known, r
    <3> QED BY <1>3, <1>8, <1>9, <2>1, <3>1 DEF Known
  <2>3. \A i, j \in 1..Len(queue') :
          New(e, i) /\ ~New(e, j) => queue'[i].req # queue'[j].req
    BY <1>9, <1>11
  <2>4. \A s \in 1..asked : reqs'[s].tid = reqs[s].tid /\ reqs'[s].type = reqs[s].type
    BY <1>8, <2>1
  <2>5. \A i \in 1..Len(queue') : ~New(e, i) =>
          reqs'[queue'[i].req].tries = reqs[queue'[i].req].tries
    BY <1>8, <1>11
  <2> QED BY <1>0, <1>10, <2>1, <2>2, <2>3, <2>4, <2>5, MovesKeepNodes
<1>13. ClientTypeOK'
  BY <1>0, <1>4, <1>8, <1>10, MovesKeepTimer DEF ClientTypeOK, RequestRecords
<1> QED BY <1>0, <1>10, <1>12, <1>13, MovesKeepTimer DEF ClientInv

LEMMA GiveUpKeeps ==
  ASSUME ClientInv, GiveUp
  PROVE  ClientInv'
<1>0. ClientTypeOK /\ NodesKnown /\ TimerInv
  BY DEF ClientInv
<1>1. First \in Node /\ First.id \in Tids
  BY <1>0, ExpiredFacts DEF GiveUp, Node
<1>2. /\ Call(First.id, "FAILED")
      /\ fault' \in {"NONE", "NULL_NODE", "DOUBLE_FREE"}
      /\ UNCHANGED <<callbacks, message_id, reqs, asked, elapsed>>
  BY <1>0 DEF GiveUp, ClientTypeOK
<1>3. heard' \in [Requests -> Seq({"ANSWERED", "FAILED"})]
  BY <1>0, <1>1, <1>2, CallTyped
<1>4. PICK e : \E delta \in Int :
        Moves(e, delta) /\ \A i \in 1..Len(queue') : ~New(e, i)
  BY <1>0, GiveUpMoves
<1>5. PICK delta \in Int : Moves(e, delta)
  BY <1>4
<1>6. ClientTypeOK'
  BY <1>0, <1>2, <1>3, <1>5, MovesKeepTimer DEF ClientTypeOK
<1>7. NodesKnown'
  <2>1. asked' \in Nat /\ asked <= asked'
    BY <1>0, <1>2 DEF ClientTypeOK
  <2> QED BY <1>0, <1>2, <1>4, <1>5, <2>1, MovesKeepNodes
<1> QED BY <1>0, <1>5, <1>6, <1>7, MovesKeepTimer DEF ClientInv

LEMMA ElapseKeeps ==
  ASSUME ClientInv, Elapse
  PROVE  ClientInv'
<1>0. ClientTypeOK /\ NodesKnown /\ TimerInv
  BY DEF ClientInv
<1>1. /\ timer' = [timer EXCEPT !.left = @ - 1] /\ elapsed' = elapsed + 1
      /\ UNCHANGED <<queue, callbacks, message_id, reqs, asked, heard, fault>>
  BY DEF Elapse
<1>2. timer \in [armed: BOOLEAN, left: Int] /\ elapsed \in Nat
  BY <1>0 DEF ClientTypeOK
<1>3. /\ timer' \in [armed: BOOLEAN, left: Int] /\ timer'.left = timer.left - 1
      /\ timer'.armed = timer.armed /\ elapsed' \in Nat
  BY <1>1, <1>2
<1>4. ClientTypeOK'
  BY <1>0, <1>1, <1>3 DEF ClientTypeOK
<1>5. TimerInv'
  <2>1. queue # <<>> => queue[1].t \in Nat
    BY <1>0, ClientFacts
  <2> QED BY <1>0, <1>1, <1>2, <1>3, <2>1 DEF TimerInv
<1>6. NodesKnown'
  BY <1>0, <1>1 DEF NodesKnown
<1> QED BY <1>4, <1>5, <1>6 DEF ClientInv

LEMMA OthersKeep ==
  ASSUME ClientInv,
         \/ \E r \in Requests : ResponseTooLate(r)
         \/ UNCHANGED clientVars
  PROVE  ClientInv'
<1>1. /\ UNCHANGED <<queue, callbacks, message_id, reqs, asked, timer, elapsed, heard>>
      /\ fault' \in {fault, "NULL_NODE"}
  BY DEF ResponseTooLate, clientVars
<1>2. ClientTypeOK'
  BY <1>1 DEF ClientInv, ClientTypeOK
<1>3. NodesKnown' /\ TimerInv'
  BY <1>1 DEF ClientInv, NodesKnown, TimerInv
<1> QED BY <1>2, <1>3 DEF ClientInv

LEMMA ClientInvInductive ==
  /\ ClientInit => ClientInv
  /\ ClientInv /\ [ClientNext]_clientVars => ClientInv'
<1>1. ASSUME ClientInit PROVE ClientInv
  <2>1. /\ queue = <<>> /\ asked = 0 /\ elapsed = 0 /\ fault = "NONE"
        /\ callbacks = [id \in Tids |-> 0] /\ message_id \in Mids
        /\ reqs = [r \in Requests |-> NoRequest]
        /\ timer = [armed |-> FALSE, left |-> 0]
        /\ heard = [r \in Requests |-> <<>>]
    BY <1>1 DEF ClientInit
  <2>2. NoRequest \in [type: Types, tid: Tids, tries: 0..MAX_RETRANSMIT + 1,
                       sock: {"NONE", "UNCONNECTED", "OPEN", "CLOSED"}]
    BY DEF NoRequest, Types, Tids
  <2>3. ClientTypeOK
    BY <2>1, <2>2 DEF ClientTypeOK
  <2>4. NodesKnown /\ TimerInv
    BY <2>1 DEF NodesKnown, TimerInv
  <2> QED BY <2>3, <2>4 DEF ClientInv
<1>2. ASSUME ClientInv, [ClientNext]_clientVars PROVE ClientInv'
  <2>1. ASSUME NEW type \in Types, request(type) PROVE ClientInv'
    BY <1>2, <2>1, RequestKeeps
  <2>2. ASSUME NEW type \in Types, requestOutOfMemory(type) PROVE ClientInv'
    BY <1>2, <2>2, RequestOutOfMemoryKeeps
  <2>3. ASSUME NEW r \in Requests, ResponseFound(r) PROVE ClientInv'
    BY <1>2, <2>3, ResponseKeeps
  <2>4. CASE (\E r \in Requests : ResponseTooLate(r)) \/ UNCHANGED clientVars
    BY <1>2, <2>4, OthersKeep
  <2>5. CASE Retransmit
    BY <1>2, <2>5, RetransmitKeeps
  <2>6. CASE GiveUp
    BY <1>2, <2>6, GiveUpKeeps
  <2>7. CASE Elapse
    BY <1>2, <2>7, ElapseKeeps
  <2> QED BY <1>2, <2>1, <2>2, <2>3, <2>4, <2>5, <2>6, <2>7 DEF ClientNext, timerTick
<1> QED BY <1>1, <1>2

LEMMA ClientInvariant == ClientSpec => []ClientInv
BY ClientInvInductive, PTL DEF ClientSpec

\* Every variable of the client keeps the type of its C++ counterpart, and no
\* field of a node leaves its range however often requests are made, answered
\* and retried.
THEOREM ClientTypeCorrect == ClientSpec => []ClientTypeOK
<1>1. ClientInv => ClientTypeOK
  BY DEF ClientInv
<1> QED BY <1>1, ClientInvariant, PTL

\* The timer is armed just when a request is pending: timerTick finds a first
\* node, and no request waits without a timer.
THEOREM TimerCorrect == ClientSpec => []TimerArmedIffPending
<1>1. ClientInv => TimerArmedIffPending
  BY DEF ClientInv, TimerInv, TimerArmedIffPending
<1> QED BY <1>1, ClientInvariant, PTL

(***************************************************************************)
(* No request is put off by what happens to others.                        *)
(***************************************************************************)
LEMMA MovesNeverPutOff ==
  ASSUME ClientInv, NEW e, NEW delta, Moves(e, delta), ClientInv',
         NEW r, IsPending(r), IsPending(r)',
         \A i \in 1..Len(queue') : New(e, i) => queue'[i].req # r
  PROVE  TimeLeft(r)' <= TimeLeft(r) + Late
<1>1. /\ queue' \in Nodes /\ From(queue', queue, e, delta) /\ queue \in Nodes
      /\ timer' = Restarted(queue', Stopped) /\ delta \in Int
      /\ queue # <<>> => delta <= timer.left - queue[1].t + Late
      /\ ClientTypeOK /\ NodesKnown
  BY ClientFacts DEF Moves, ClientInv
<1> DEFINE i == Index(r)
           j == Index(r)'
<1>2. i \in 1..Len(queue) /\ queue[i].req = r
  BY DEF Index, IsPending
<1>3. j \in 1..Len(queue') /\ queue'[j].req = r
  BY DEF Index, IsPending
<1>4. /\ TimeLeft(r) = timer.left - queue[1].t + Due(queue)[i]
      /\ TimeLeft(r)' = timer'.left - queue'[1].t + Due(queue')[j]
  BY DEF TimeLeft
<1> HIDE DEF i, j
<1>5. Len(queue) \in Nat /\ Len(queue') \in Nat
  BY <1>1, NodeFacts
<1>6. e[j] \in 1..Len(queue) /\ Like(queue'[j], queue[e[j]])
      /\ Due(queue')[j] = Due(queue)[e[j]] + delta
  BY <1>1, <1>3, <1>5 DEF From, New
<1>7. e[j] = i
  BY <1>1, <1>2, <1>3, <1>6 DEF NodesKnown, Like
<1>8. queue # <<>> /\ queue' # <<>>
  BY <1>1, <1>2, <1>3, <1>5, EmptySeq DEF Nodes
<1>9. timer'.left = queue'[1].t /\ queue'[1].t \in Nat
  <2>1. 1 \in 1..Len(queue')
    BY <1>3, <1>5
  <2> QED BY <1>1, <1>8, <2>1, RestartedTimer, NodeFacts
<1>10. Due(queue)[i] \in Int
  <2>1. i \in 0..Len(queue)
    BY <1>2
  <2> QED BY <1>1, <2>1, DueIsDue DEF IsDue
<1>11. /\ queue[1].t \in Nat /\ timer.left \in Int /\ Late \in Nat
  BY <1>1, <1>8, ClientFacts
<1>12. TimeLeft(r)' = Due(queue)[i] + delta
  BY <1>1, <1>4, <1>6, <1>7, <1>9, <1>10
<1> QED BY <1>1, <1>4, <1>8, <1>10, <1>11, <1>12

\* The invariant holds before and after a step.
LEMMA ClientStep ==
  ASSUME ClientInv, [ClientNext]_clientVars, NEW r \in Requests,
         IsPending(r), IsPending(r)', reqs'[r].tries = reqs[r].tries
  PROVE  TimeLeft(r)' <= TimeLeft(r) + Late
<1>0. ClientInv' /\ ClientTypeOK /\ NodesKnown /\ TimerInv
  BY ClientInvInductive DEF ClientInv
<1>1. PICK i \in 1..Len(queue) : queue[i].req = r
  BY DEF IsPending
<1>2. Known(queue[i], reqs, asked)
  BY <1>0, <1>1 DEF NodesKnown
<1>3. /\ r \in 1..asked /\ asked \in Nat /\ r # asked + 1
      /\ queue \in Nodes /\ queue # <<>>
      /\ Late \in Nat /\ TimeLeft(r) \in Int
  <2>1. r \in 1..asked /\ asked \in Nat /\ queue \in Nodes
    BY <1>0, <1>1, <1>2, ClientFacts DEF Known
  <2>2. Len(queue) \in Nat /\ queue # <<>>
    BY <1>1, <2>1, NodeFacts, EmptySeq DEF Nodes
  <2>3. Index(r) \in 0..Len(queue)
    <3>1. Index(r) \in 1..Len(queue)
      BY DEF Index, IsPending
    <3> QED BY <2>2, <3>1
  <2>4. Due(queue)[Index(r)] \in Int
    BY <2>1, <2>3, DueIsDue DEF IsDue
  <2>5. TimeLeft(r) \in Int /\ Late \in Nat
    BY <1>0, <2>2, <2>4, ClientFacts DEF TimeLeft
  <2> QED BY <2>1, <2>2, <2>5
<1>4. ASSUME NEW type \in Types, request(type)
      PROVE  TimeLeft(r)' <= TimeLeft(r) + Late
  <2>1. PICK e : \E delta \in Int :
          /\ Moves(e, delta)
          /\ \A j \in 1..Len(queue') : New(e, j) => queue'[j].req = asked + 1
    BY <1>0, <1>4, RequestMoves
  <2> QED BY <1>0, <1>3, <2>1, MovesNeverPutOff
<1>5. ASSUME NEW s \in Requests, ResponseFound(s)
      PROVE  TimeLeft(r)' <= TimeLeft(r) + Late
  <2>1. PICK e : \E delta \in Int :
          Moves(e, delta) /\ \A j \in 1..Len(queue') : ~New(e, j)
    BY <1>0, <1>5, ResponseMoves
  <2> QED BY <1>0, <2>1, MovesNeverPutOff
<1>6. CASE Retransmit
  <2>1. PICK e : \E delta \in Int :
          /\ Moves(e, delta)
          /\ \A j \in 1..Len(queue') : New(e, j) => queue'[j].req = First.req
    BY <1>0, <1>6, RetransmitMoves
  <2>2. r # First.req
    <3> DEFINE s == First.req
               n == reqs[s].tries
    <3>1. Known(First, reqs, asked) /\ First \in Node
      BY <1>0, <1>3, ClientFacts DEF NodesKnown
    <3>2. s \in Requests /\ n \in Nat /\ n + 1 # n
      <4>1. s \in Requests /\ First.rc \in Nat /\ n = First.rc + 1
        BY <3>1 DEF Known, Node
      <4> QED BY <4>1
    <3>3. reqs \in [Requests -> RequestRecords]
      BY <1>0 DEF ClientTypeOK, RequestRecords
    <3>4. PICK sock : reqs' = [reqs EXCEPT ![s].sock = sock, ![s].tries = @ + 1]
      BY <1>6 DEF Retransmit
    <3> HIDE DEF s
    <3>5. reqs'[s].tries = n + 1
      <4>1. reqs[s] \in RequestRecords
        BY <3>2, <3>3
      <4> QED BY <3>2, <3>3, <3>4, <4>1 DEF RequestRecords
    <3> QED BY <3>2, <3>5 DEF s
  <2> QED BY <1>0, <2>1, <2>2, MovesNeverPutOff
<1>7. CASE GiveUp
  <2>1. PICK e : \E delta \in Int :
          Moves(e, delta) /\ \A j \in 1..Len(queue') : ~New(e, j)
    BY <1>0, <1>7, GiveUpMoves
  <2> QED BY <1>0, <2>1, MovesNeverPutOff
<1>8. CASE Elapse
  <2>1. /\ queue' = queue /\ timer'.left = timer.left - 1
        /\ timer.left \in Int /\ Late \in Nat
    BY <1>0, <1>8, ClientFacts DEF Elapse, ClientTypeOK
  <2>2. Index(r)' = Index(r) /\ Index(r) \in 0..Len(queue) /\ queue[1].t \in Nat
    <3>1. Index(r) \in 1..Len(queue) /\ Len(queue) \in Nat
      BY <1>3, NodeFacts DEF Index, IsPending
    <3> QED BY <1>0, <1>3, <2>1, <3>1, ClientFacts DEF Index
  <2>3. Due(queue)[Index(r)] \in Int
    BY <1>3, <2>2, DueIsDue DEF IsDue
  <2>4. TimeLeft(r)' = timer'.left - queue[1].t + Due(queue)[Index(r)]
    BY <2>1, <2>2 DEF TimeLeft
  <2> QED BY <2>1, <2>2, <2>3, <2>4 DEF TimeLeft
<1>9. CASE UNCHANGED <<queue, timer>>
  <2>1. TimeLeft(r)' = TimeLeft(r)
    BY <1>9 DEF TimeLeft, Index
  <2> QED BY <1>3, <2>1
<1> QED BY <1>4, <1>5, <1>6, <1>7, <1>8, <1>9
     DEF ClientNext, timerTick, requestOutOfMemory, ResponseTooLate, clientVars

\* Nothing that happens to other requests (one made, answered, sent again or
\* given up: coapAddNode, coapRemoveNode, timerUpdate and timerRestart)
\* delays the next try of a request by more than the timer was late.
THEOREM NeverPutOffCorrect == ClientSpec => NeverPutOff
<1>1. ClientInv /\ [ClientNext]_clientVars =>
        [\A r \in Requests :
           /\ IsPending(r) /\ IsPending(r)' /\ reqs'[r].tries = reqs[r].tries
           => TimeLeft(r)' <= TimeLeft(r) + Late]_clientVars
  BY ClientStep
<1> QED BY <1>1, ClientInvariant, PTL DEF ClientSpec, NeverPutOff

(***************************************************************************)
(* Requests whose ids differ.                                              *)
(***************************************************************************)
\* The id of the next request is not that of one that is still pending.
NextIdIsFree ==
  asked < MaxRequests =>
    \A i \in 1..Len(queue) : queue[i].id # TransactionID[message_id]

\* The callback, the connection and the caller of a pending request.
Heard(n, C, H, R) ==
  C[n.id] = n.req /\ H[n.req] = <<>> /\ R[n.req].sock # "CLOSED"

NodesHeard ==
  /\ \A i \in 1..Len(queue) : Heard(queue[i], callbacks, heard, reqs)
  /\ \A i, j \in 1..Len(queue) : queue[i].id = queue[j].id => i = j
  /\ \A r \in Requests : r > asked => heard[r] = <<>> /\ reqs[r].tries = 0

LEMMA NodeOrigin ==
  ASSUME ClientTypeOK, NEW e, NEW delta, Moves(e, delta)
  PROVE  /\ \A i \in 1..Len(queue') : ~New(e, i) =>
              e[i] \in 1..Len(queue) /\ Like(queue'[i], queue[e[i]])
         /\ \A i, j \in 1..Len(queue') : e[i] = e[j] => i = j
<1>1. From(queue', queue, e, delta) /\ Len(queue) \in Nat
  BY ClientFacts, NodeFacts DEF Moves
<1> QED BY <1>1 DEF From, New

LEMMA MovesKeepIds ==
  ASSUME ClientTypeOK, NodesHeard, NEW e, NEW delta, Moves(e, delta),
         \A i, j \in 1..Len(queue') :
           New(e, i) /\ ~New(e, j) => queue'[i].id # queue'[j].id
  PROVE  \A i, j \in 1..Len(queue') : queue'[i].id = queue'[j].id => i = j
<1> SUFFICES ASSUME NEW i \in 1..Len(queue'), NEW j \in 1..Len(queue'),
                    queue'[i].id = queue'[j].id
             PROVE  i = j
  OBVIOUS
<1>1. CASE New(e, i) /\ New(e, j)
  BY <1>1, NodeOrigin DEF New
<1>2. CASE ~New(e, i) /\ ~New(e, j)
  <2>1. queue[e[i]].id = queue[e[j]].id
    BY <1>2, NodeOrigin DEF Like
  <2>2. e[i] = e[j]
    BY <1>2, <2>1, NodeOrigin DEF NodesHeard
  <2> QED BY <2>2, NodeOrigin
<1> QED BY <1>1, <1>2

LEMMA RequestHeard ==
  ASSUME ClientInv, NodesHeard, NextIdIsFree, NEW type \in Types, request(type)
  PROVE  NodesHeard'
<1> DEFINE r == asked + 1
           id == TransactionID[message_id]
<1>0. ClientTypeOK /\ NodesKnown /\ TimerInv
  BY DEF ClientInv
<1>1. /\ asked' = r /\ r \in Requests /\ asked \in Nat /\ id \in Tids
      /\ asked < MaxRequests /\ r > asked
  <2>1. asked \in 0..MaxRequests /\ asked < MaxRequests /\ asked' = asked + 1
    BY <1>0 DEF request, ClientTypeOK
  <2>2. message_id \in Mids
    BY <1>0 DEF ClientTypeOK
  <2> QED BY <2>1, <2>2 DEF Requests, Tids
<1>2. PICK sock \in SocketAfterSend("NONE") :
        reqs' = [reqs EXCEPT ![r] = [type |-> type, tid |-> id, sock |-> sock,
                                     tries |-> 1]]
  BY DEF request
<1>3. /\ callbacks' = [callbacks EXCEPT ![id] = r] /\ heard' = heard
      /\ \A i \in 1..Len(queue) : queue[i].id # id
  BY <1>1 DEF request, NextIdIsFree
<1> HIDE DEF r, id
<1>4. /\ reqs \in [Requests -> RequestRecords] /\ DOMAIN callbacks = Tids
  BY <1>0 DEF ClientTypeOK, RequestRecords
<1>5. /\ reqs'[r].sock # "CLOSED" /\ callbacks'[id] = r /\ heard'[r] = <<>>
      /\ \A s \in Requests : s # r => reqs'[s] = reqs[s]
  BY <1>1, <1>2, <1>3, <1>4 DEF SocketAfterSend, NodesHeard
<1>6. PICK e : \E delta \in Int :
        /\ Moves(e, delta)
        /\ \A i \in 1..Len(queue') : New(e, i) =>
             /\ queue'[i].req = r /\ queue'[i].rc = 0 /\ queue'[i].id = id
  BY <1>0, RequestMoves DEF r, id
<1>7. PICK delta \in Int : Moves(e, delta)
  BY <1>6
<1>8. \A i \in 1..Len(queue) :
        queue[i].req \in Requests /\ queue[i].req # r /\ queue[i].id \in Tids
  <2>1. \A i \in 1..Len(queue) : queue[i].req \in 1..asked /\ queue[i].id \in Tids
    BY <1>0, ClientFacts, NodeFacts DEF NodesKnown, Known, Node
  <2> QED BY <1>0, <1>1, <2>1 DEF Requests, r, ClientTypeOK
<1>9. ASSUME NEW i \in 1..Len(queue')
      PROVE  Heard(queue'[i], callbacks', heard', reqs') /\ (~New(e, i) => queue'[i].id # id)
  <2>1. CASE New(e, i)
    BY <1>5, <1>6, <2>1 DEF Heard
  <2>2. CASE ~New(e, i)
    <3> DEFINE k == e[i]
    <3>1. k \in 1..Len(queue) /\ Like(queue'[i], queue[k])
      BY <1>0, <1>7, <2>2, NodeOrigin
    <3> HIDE DEF k
    <3>2. Heard(queue[k], callbacks, heard, reqs) /\ queue[k].id # id
      BY <1>3, <3>1 DEF NodesHeard
    <3>3. /\ callbacks'[queue[k].id] = callbacks[queue[k].id]
          /\ reqs'[queue[k].req] = reqs[queue[k].req]
      BY <1>3, <1>4, <1>5, <1>8, <3>1, <3>2
    <3> QED BY <1>3, <3>1, <3>2, <3>3 DEF Heard, Like
  <2> QED BY <2>1, <2>2
<1>10. \A i, j \in 1..Len(queue') : queue'[i].id = queue'[j].id => i = j
  BY <1>0, <1>6, <1>7, <1>9, MovesKeepIds
<1>11. ASSUME NEW s \in Requests, s > asked'
       PROVE  heard'[s] = <<>> /\ reqs'[s].tries = 0
  <2>1. s > asked /\ s # r
    BY <1>1, <1>11 DEF r, Requests
  <2> QED BY <1>3, <1>5, <2>1 DEF NodesHeard
<1> QED BY <1>9, <1>10, <1>11 DEF NodesHeard

\* A callback stored under the invalid id is nobody's who waits.
LEMMA RequestOutOfMemoryHeard ==
  ASSUME ClientInv, NodesHeard, NEW type \in Types, requestOutOfMemory(type)
  PROVE  NodesHeard'
<1> DEFINE r == asked + 1
<1>0. ClientTypeOK /\ NodesKnown
  BY DEF ClientInv
<1>1. asked' = r /\ r \in Requests /\ asked \in 0..MaxRequests
  BY <1>0 DEF requestOutOfMemory, ClientTypeOK, Requests
<1>2. PICK new :
        /\ reqs' = [reqs EXCEPT ![r] = new]
        /\ callbacks' = [callbacks EXCEPT ![INVALID_TID] = r]
        /\ queue' = queue /\ heard' = heard
  BY DEF requestOutOfMemory
<1> HIDE DEF r
<1>3. /\ reqs \in [Requests -> RequestRecords]
      /\ callbacks \in [Tids -> Requests \cup {0}]
  BY <1>0 DEF ClientTypeOK, RequestRecords
<1>4. \A s \in Requests : s # r => reqs'[s] = reqs[s]
  BY <1>2, <1>3
<1>5. ASSUME NEW i \in 1..Len(queue) PROVE Heard(queue[i], callbacks', heard', reqs')
  <2>1. /\ queue[i].req \in Requests /\ queue[i].req # r
        /\ queue[i].id \in Tids /\ queue[i].id # INVALID_TID
    <3>1. /\ queue[i].req \in 1..asked /\ queue[i].id \in Tids
          /\ queue[i].id # INVALID_TID
      BY <1>0, ClientFacts, NodeFacts DEF NodesKnown, Known, Node
    <3> QED BY <1>1, <3>1 DEF Requests, r
  <2>2. Heard(queue[i], callbacks, heard, reqs)
    BY DEF NodesHeard
  <2>3. callbacks'[queue[i].id] = callbacks[queue[i].id]
    BY <1>2, <1>3, <2>1
  <2> QED BY <1>2, <1>4, <2>1, <2>2, <2>3 DEF Heard
<1>6. ASSUME NEW s \in Requests, s > asked'
      PROVE  heard'[s] = <<>> /\ reqs'[s].tries = 0
  <2>1. s > asked /\ s # r
    BY <1>1, <1>6 DEF r, Requests
  <2> QED BY <1>2, <1>4, <2>1 DEF NodesHeard
<1> QED BY <1>2, <1>5, <1>6 DEF NodesHeard

\* The answered request leaves the queue; its id, its callback and its
\* connection are no other node's.
LEMMA AnswerFacts ==
  ASSUME ClientInv, NodesHeard, NEW r \in Requests, ResponseFound(r)
  PROVE  LET id == reqs[r].tid
             c  == callbacks[id]
         IN
         /\ c \in 1..asked /\ c \in Requests /\ heard[c] = <<>> /\ reqs[c].tries > 0
         /\ heard' = [heard EXCEPT ![c] = Append(@, "ANSWERED")]
         /\ callbacks' = [callbacks EXCEPT ![id] = 0]
         /\ reqs' = [reqs EXCEPT ![r].sock = "CLOSED"]
         /\ NodeIndex(queue, id) \in 1..Len(queue)
         /\ \A i \in 1..Len(queue) : i # NodeIndex(queue, id) =>
              queue[i].id # id /\ queue[i].req # c /\ queue[i].req # r
<1> DEFINE id == reqs[r].tid
           k == NodeIndex(queue, id)
<1>0. ClientTypeOK /\ NodesKnown
  BY DEF ClientInv
<1>1. k \in 1..Len(queue) /\ queue[k].id = id /\ queue \in Nodes
  BY <1>0, ClientFacts, NodeIndexExists DEF ResponseFound
<1>2. Known(queue[k], reqs, asked) /\ Heard(queue[k], callbacks, heard, reqs)
  BY <1>0, <1>1 DEF NodesKnown, NodesHeard
<1>3. /\ callbacks[id] = queue[k].req /\ callbacks[id] \in 1..asked
      /\ callbacks[id] # 0
  <2>1. asked \in Nat
    BY <1>0, ClientFacts
  <2>2. queue[k].req \in 1..asked /\ callbacks[queue[k].id] = queue[k].req
    BY <1>2 DEF Known, Heard
  <2> HIDE DEF id, k
  <2>3. callbacks[id] = queue[k].req
    BY <1>1, <2>2
  <2> QED BY <2>1, <2>2, <2>3
<1>4. \A i \in 1..Len(queue) : i # k =>
        queue[i].id # id /\ queue[i].req # callbacks[id] /\ queue[i].req # r
  BY <1>0, <1>1, <1>3 DEF NodesHeard, NodesKnown, Known
<1>5. /\ heard' = [heard EXCEPT ![callbacks[id]] = Append(@, "ANSWERED")]
      /\ callbacks' = [callbacks EXCEPT ![id] = 0]
      /\ reqs' = [reqs EXCEPT ![r].sock = "CLOSED"]
  BY <1>3 DEF ResponseFound, Call
<1>6. /\ callbacks[id] \in Requests /\ heard[callbacks[id]] = <<>>
      /\ reqs[callbacks[id]].tries > 0
  <2>1. queue[k].rc \in Nat /\ queue[k].req \in Requests
    BY <1>1, NodeFacts DEF Node
  <2> QED BY <1>2, <1>3, <2>1 DEF Known, Heard
<1> HIDE DEF k, id
<1> QED BY <1>1, <1>3, <1>4, <1>5, <1>6 DEF k, id

LEMMA ResponseHeard ==
  ASSUME ClientInv, NodesHeard, NEW r \in Requests, ResponseFound(r)
  PROVE  NodesHeard'
<1> DEFINE id == reqs[r].tid
           c == callbacks[id]
           k == NodeIndex(queue, id)
<1>0. ClientTypeOK /\ NodesKnown /\ TimerInv
  BY DEF ClientInv
<1>1. /\ c \in 1..asked /\ c \in Requests
      /\ heard' = [heard EXCEPT ![c] = Append(@, "ANSWERED")]
      /\ callbacks' = [callbacks EXCEPT ![id] = 0]
      /\ reqs' = [reqs EXCEPT ![r].sock = "CLOSED"]
      /\ \A i \in 1..Len(queue) : i # k =>
           queue[i].id # id /\ queue[i].req # c /\ queue[i].req # r
  BY AnswerFacts
<1>2. PICK e : \E delta \in Int :
        /\ Moves(e, delta)
        /\ \A i \in 1..Len(queue') : ~New(e, i)
        /\ c # 0 => Loses(queue', queue, e, k)
  BY <1>0, ResponseMoves
<1>3. asked' = asked /\ asked \in Nat /\ c # 0
  BY <1>0, <1>1, ClientFacts DEF ResponseFound
<1> HIDE DEF id, c, k
<1>4. PICK delta \in Int : Moves(e, delta)
  BY <1>2
<1>5. /\ reqs \in [Requests -> RequestRecords]
      /\ callbacks \in [Tids -> Requests \cup {0}]
      /\ DOMAIN heard = Requests
  BY <1>0 DEF ClientTypeOK, RequestRecords
<1>6. /\ \A s \in Requests : s # r => reqs'[s].sock = reqs[s].sock
      /\ \A s \in Requests : reqs'[s].tries = reqs[s].tries
      /\ \A s \in Requests : s # c => heard'[s] = heard[s]
      /\ \A t \in Tids : t # id => callbacks'[t] = callbacks[t]
  <2>1. \A s \in Requests : s # r => reqs'[s] = reqs[s]
    BY <1>1, <1>5
  <2>2. reqs'[r].tries = reqs[r].tries
    <3> DEFINE old == reqs[r]
    <3>1. old \in RequestRecords /\ reqs' = [reqs EXCEPT ![r] = [old EXCEPT !.sock = "CLOSED"]]
      BY <1>1, <1>5
    <3> HIDE DEF old
    <3>2. [old EXCEPT !.sock = "CLOSED"].tries = old.tries
      BY <3>1 DEF RequestRecords
    <3> QED BY <1>5, <3>1, <3>2 DEF old
  <2>3. \A s \in Requests : s # c => heard'[s] = heard[s]
    BY <1>1, <1>5
  <2>4. \A t \in Tids : t # id => callbacks'[t] = callbacks[t]
    BY <1>1, <1>5
  <2> QED BY <2>1, <2>2, <2>3, <2>4
<1>7. ASSUME NEW i \in 1..Len(queue') PROVE Heard(queue'[i], callbacks', heard', reqs')
  <2> DEFINE j == e[i]
  <2>1. j \in 1..Len(queue) /\ Like(queue'[i], queue[j]) /\ j # k
    BY <1>0, <1>2, <1>3, <1>4, NodeOrigin DEF Loses
  <2> HIDE DEF j
  <2>2. Heard(queue[j], callbacks, heard, reqs) /\ queue[j].req \in Requests /\ queue[j].id \in Tids
    BY <1>0, <2>1, ClientFacts, NodeFacts DEF NodesHeard, Node
  <2>3. queue[j].id # id /\ queue[j].req # c /\ queue[j].req # r
    BY <1>1, <2>1
  <2> QED BY <1>6, <2>1, <2>2, <2>3 DEF Heard, Like
<1>8. \A i, j \in 1..Len(queue') : queue'[i].id = queue'[j].id => i = j
  BY <1>0, <1>2, <1>4, MovesKeepIds
<1>9. ASSUME NEW s \in Requests, s > asked'
      PROVE  heard'[s] = <<>> /\ reqs'[s].tries = 0
  <2>1. s > asked /\ s # c
    BY <1>1, <1>3, <1>9 DEF Requests
  <2> QED BY <1>6, <2>1 DEF NodesHeard
<1> QED BY <1>7, <1>8, <1>9 DEF NodesHeard

LEMMA RetransmitHeard ==
  ASSUME ClientInv, NodesHeard, Retransmit
  PROVE  NodesHeard'
<1> DEFINE r == First.req
<1>0. ClientTypeOK /\ NodesKnown /\ TimerInv
  BY DEF ClientInv
<1>1. /\ queue # <<>> /\ First \in Node /\ First = queue[1]
      /\ 1 \in 1..Len(queue) /\ asked \in 0..MaxRequests
  BY <1>0, ExpiredFacts, ClientFacts DEF Retransmit, ClientTypeOK
<1>2. /\ Known(First, reqs, asked) /\ Heard(First, callbacks, heard, reqs)
      /\ r \in Requests /\ r \in 1..asked
  BY <1>0, <1>1 DEF NodesKnown, NodesHeard, Known, Requests
<1>3. PICK sock \in SocketAfterSend(reqs[r].sock) :
        reqs' = [reqs EXCEPT ![r].sock = sock, ![r].tries = @ + 1]
  BY DEF Retransmit
<1>4. UNCHANGED <<callbacks, asked, heard>>
  BY DEF Retransmit
<1>5. reqs \in [Requests -> RequestRecords]
  BY <1>0 DEF ClientTypeOK, RequestRecords
<1>6. PICK e : \E delta \in Int :
        /\ Moves(e, delta)
        /\ \A i \in 1..Len(queue') :
             /\ e[i] # 1
             /\ New(e, i) => queue'[i].req = r /\ queue'[i].id = First.id
  BY <1>0, RetransmitMoves
<1> HIDE DEF r
<1>7. PICK delta \in Int : Moves(e, delta)
  BY <1>6
<1>8. \A s \in Requests : s # r => reqs'[s] = reqs[s]
  BY <1>3, <1>5
<1>9. reqs'[r].sock # "CLOSED"
  <2>1. sock # "CLOSED" /\ reqs[r] \in RequestRecords
    BY <1>2, <1>3, <1>5 DEF SocketAfterSend
  <2> QED BY <1>2, <1>3, <1>5, <2>1 DEF RequestRecords
<1>10. \A i \in 1..Len(queue) : i # 1 => queue[i].req # r /\ queue[i].id # First.id
  BY <1>0, <1>1 DEF NodesKnown, NodesHeard, r
<1>11. ASSUME NEW i \in 1..Len(queue')
       PROVE  Heard(queue'[i], callbacks', heard', reqs') /\ (~New(e, i) => queue'[i].id # First.id)
  <2>1. CASE New(e, i)
    BY <1>2, <1>4, <1>6, <1>9, <2>1 DEF Heard, r
  <2>2. CASE ~New(e, i)
    <3> DEFINE j == e[i]
    <3>1. j \in 1..Len(queue) /\ Like(queue'[i], queue[j]) /\ j # 1
      BY <1>0, <1>6, <1>7, <2>2, NodeOrigin
    <3> HIDE DEF j
    <3>2. Heard(queue[j], callbacks, heard, reqs) /\ queue[j].req \in Requests
      BY <1>0, <3>1, ClientFacts, NodeFacts DEF NodesHeard, Node
    <3>3. queue[j].req # r /\ queue[j].id # First.id
      BY <1>10, <3>1
    <3>4. reqs'[queue[j].req] = reqs[queue[j].req]
      BY <1>8, <3>2, <3>3
    <3> QED BY <1>4, <3>1, <3>2, <3>3, <3>4 DEF Heard, Like
  <2> QED BY <2>1, <2>2
<1>12. \A i, j \in 1..Len(queue') : queue'[i].id = queue'[j].id => i = j
  BY <1>0, <1>6, <1>7, <1>11, MovesKeepIds
<1>13. ASSUME NEW s \in Requests, s > asked'
       PROVE  heard'[s] = <<>> /\ reqs'[s].tries = 0
  <2>1. s > asked /\ s # r
    BY <1>1, <1>2, <1>4, <1>13 DEF Requests
  <2> QED BY <1>4, <1>8, <2>1 DEF NodesHeard
<1> QED BY <1>11, <1>12, <1>13 DEF NodesHeard

\* The caller of the request that is given up is told, and no other.
LEMMA FailureFacts ==
  ASSUME ClientInv, NodesHeard, GiveUp
  PROVE  LET c == First.req IN
         /\ c \in 1..asked /\ c \in Requests /\ heard[c] = <<>>
         /\ reqs[c].tries = First.rc + 1 /\ First.rc \in 0..MAX_RETRANSMIT
         /\ reqs[c].type = "NON" => First.rc = 0
         /\ heard' = [heard EXCEPT ![c] = Append(@, "FAILED")]
         /\ \A i \in 1..Len(queue) : i # 1 => queue[i].req # c
<1> DEFINE c == First.req
<1>0. ClientTypeOK /\ NodesKnown /\ TimerInv
  BY DEF ClientInv
<1>1. /\ queue # <<>> /\ First \in Node /\ First = queue[1]
      /\ 1 \in 1..Len(queue) /\ asked \in 0..MaxRequests
  BY <1>0, ExpiredFacts, ClientFacts DEF GiveUp, ClientTypeOK
<1>2. Known(First, reqs, asked) /\ Heard(First, callbacks, heard, reqs)
  BY <1>0, <1>1 DEF NodesKnown, NodesHeard
<1>3. /\ c \in 1..asked /\ c \in Requests /\ c # 0 /\ callbacks[First.id] = c
      /\ heard[c] = <<>> /\ reqs[c].tries = First.rc + 1
      /\ reqs[c].type = "NON" => First.rc = 0
  BY <1>1, <1>2 DEF Known, Heard, Requests
<1>4. heard' = [heard EXCEPT ![c] = Append(@, "FAILED")]
  <2>1. Call(First.id, "FAILED")
    BY DEF GiveUp
  <2> QED BY <1>3, <2>1 DEF Call
<1>5. First.rc \in 0..MAX_RETRANSMIT
  BY <1>1 DEF Node
<1>6. \A i \in 1..Len(queue) : i # 1 => queue[i].req # c
  BY <1>0, <1>1 DEF NodesKnown
<1> HIDE DEF c
<1> QED BY <1>3, <1>4, <1>5, <1>6 DEF c

LEMMA GiveUpHeard ==
  ASSUME ClientInv, NodesHeard, GiveUp
  PROVE  NodesHeard'
<1> DEFINE c == First.req
<1>0. ClientTypeOK /\ NodesKnown /\ TimerInv
  BY DEF ClientInv
<1>1. /\ c \in 1..asked /\ c \in Requests
      /\ heard' = [heard EXCEPT ![c] = Append(@, "FAILED")]
      /\ \A i \in 1..Len(queue) : i # 1 => queue[i].req # c
  BY FailureFacts
<1>2. UNCHANGED <<callbacks, asked, reqs>> /\ asked \in Nat
  BY <1>0, ClientFacts DEF GiveUp
<1>3. PICK e : \E delta \in Int :
        Moves(e, delta) /\ \A i \in 1..Len(queue') : e[i] # 1 /\ ~New(e, i)
  BY <1>0, GiveUpMoves
<1> HIDE DEF c
<1>4. PICK delta \in Int : Moves(e, delta)
  BY <1>3
<1>5. \A s \in Requests : s # c => heard'[s] = heard[s]
  BY <1>0, <1>1 DEF ClientTypeOK
<1>6. ASSUME NEW i \in 1..Len(queue') PROVE Heard(queue'[i], callbacks', heard', reqs')
  <2> DEFINE j == e[i]
  <2>1. j \in 1..Len(queue) /\ Like(queue'[i], queue[j]) /\ j # 1
    BY <1>0, <1>3, <1>4, NodeOrigin
  <2> HIDE DEF j
  <2>2. Heard(queue[j], callbacks, heard, reqs) /\ queue[j].req \in Requests /\ queue[j].req # c
    BY <1>0, <1>1, <2>1, ClientFacts, NodeFacts DEF NodesHeard, Node
  <2> QED BY <1>2, <1>5, <2>1, <2>2 DEF Heard, Like
<1>7. \A i, j \in 1..Len(queue') : queue'[i].id = queue'[j].id => i = j
  BY <1>0, <1>3, <1>4, MovesKeepIds
<1>8. ASSUME NEW s \in Requests, s > asked'
      PROVE  heard'[s] = <<>> /\ reqs'[s].tries = 0
  <2>1. s > asked /\ s # c
    BY <1>1, <1>2, <1>8 DEF Requests
  <2> QED BY <1>2, <1>5, <2>1 DEF NodesHeard
<1> QED BY <1>6, <1>7, <1>8 DEF NodesHeard

LEMMA NodesHeardInductive ==
  /\ ClientInit => NodesHeard
  /\ ClientInv /\ NodesHeard /\ NextIdIsFree /\ [ClientNext]_clientVars => NodesHeard'
<1>1. ASSUME ClientInit PROVE NodesHeard
  BY <1>1 DEF ClientInit, NodesHeard, NoRequest
<1>2. ASSUME ClientInv, NodesHeard, NextIdIsFree, [ClientNext]_clientVars
      PROVE  NodesHeard'
  <2>1. ASSUME NEW type \in Types, request(type) PROVE NodesHeard'
    BY <1>2, <2>1, RequestHeard
  <2>2. ASSUME NEW type \in Types, requestOutOfMemory(type) PROVE NodesHeard'
    BY <1>2, <2>2, RequestOutOfMemoryHeard
  <2>3. ASSUME NEW r \in Requests, ResponseFound(r) PROVE NodesHeard'
    BY <1>2, <2>3, ResponseHeard
  <2>4. CASE Retransmit
    BY <1>2, <2>4, RetransmitHeard
  <2>5. CASE GiveUp
    BY <1>2, <2>5, GiveUpHeard
  <2>6. CASE UNCHANGED <<queue, callbacks, reqs, asked, heard>>
    BY <1>2, <2>6 DEF NodesHeard, Heard
  <2> QED BY <1>2, <2>1, <2>2, <2>3, <2>4, <2>5, <2>6
       DEF ClientNext, timerTick, ResponseTooLate, Elapse, clientVars
<1> QED BY <1>1, <1>2

LEMMA HeardInvariant == ClientSpec /\ []NextIdIsFree => []NodesHeard
BY ClientInvariant, NodesHeardInductive, PTL DEF ClientSpec

(***************************************************************************)
(* The client keeps its promise.                                           *)
(***************************************************************************)
LEMMA PromiseStart ==
  ASSUME ClientInit
  PROVE  Promise!PromiseInit
<1>1. asked = 0 /\ heard = [r \in Requests |-> <<>>]
      /\ \A r \in Requests : r > asked /\ reqs[r].tries = 0
  BY DEF ClientInit, NoRequest, Requests
<1> QED BY <1>1 DEF Promise!PromiseInit

\* The tries a request may use.
Limit(R, n) == [r \in Requests |-> IF r > n THEN 0
                                   ELSE IF R[r].type = "NON" THEN 1
                                   ELSE MAX_RETRANSMIT + 1]
Tries(R) == [r \in Requests |-> R[r].tries]

\* A new request.
LEMMA PromiseMade ==
  ASSUME ClientTypeOK, NodesHeard, asked < MaxRequests, asked' = asked + 1,
         heard' = heard, NEW new \in RequestRecords, new.tries \in {0, 1},
         NEW r \in Requests, r = asked + 1, reqs' = [reqs EXCEPT ![r] = new]
  PROVE  Promise!PromiseNext
<1> DEFINE n == IF new.type = "NON" THEN 1 ELSE MAX_RETRANSMIT + 1
           k == new.tries
<1>1. /\ asked \in 0..MaxRequests /\ r \in Requests /\ r > asked
      /\ reqs \in [Requests -> RequestRecords]
  BY DEF ClientTypeOK, RequestRecords, Requests
<1>2. \A s \in Requests : s # r =>
        /\ reqs'[s] = reqs[s]
        /\ s > asked' <=> s > asked
  BY <1>1 DEF Requests
<1>3. reqs'[r] = new /\ ~(r > asked')
  BY <1>1
<1>4. Limit(reqs, asked)[r] = 0
  BY <1>1 DEF Limit
<1>5. Limit(reqs', asked') = [Limit(reqs, asked) EXCEPT ![r] = n]
  BY <1>1, <1>2, <1>3 DEF Limit
<1>6. Tries(reqs') = [Tries(reqs) EXCEPT ![r] = k]
  BY <1>1, <1>2, <1>3 DEF Tries
<1>7. n \in {1, MAX_RETRANSMIT + 1} /\ k \in {0, 1}
  OBVIOUS
<1> HIDE DEF n, k
<1>8. Promise!Make(r)
  BY <1>4, <1>5, <1>6, <1>7 DEF Promise!Make, Limit, Tries
<1> QED BY <1>8 DEF Promise!PromiseNext

\* The limits stay when the types and the number of requests do.
LEMMA LimitStays ==
  ASSUME asked' = asked,
         \A r \in Requests : reqs'[r].type = reqs[r].type
  PROVE  Limit(reqs', asked') = Limit(reqs, asked)
BY DEF Limit

LEMMA PromiseStep ==
  ASSUME ClientInv, NodesHeard, [ClientNext]_clientVars
  PROVE  [Promise!PromiseNext]_(Promise!promiseVars)
<1> DEFINE Kept == [Promise!PromiseNext]_(Promise!promiseVars)
<1>0. /\ ClientTypeOK /\ NodesKnown /\ TimerInv
      /\ reqs \in [Requests -> RequestRecords]
  BY DEF ClientInv, ClientTypeOK, RequestRecords
<1>1. ASSUME UNCHANGED <<reqs, asked, heard>> PROVE Kept
  BY <1>1 DEF Promise!promiseVars
<1>2. ASSUME NEW type \in Types, request(type) PROVE Kept
  <2>1. PICK sock \in SocketAfterSend("NONE") :
          reqs' = [reqs EXCEPT ![asked + 1] =
                     [type |-> type, tid |-> TransactionID[message_id],
                      sock |-> sock, tries |-> 1]]
    BY <1>2 DEF request
  <2> DEFINE new == [type |-> type, tid |-> TransactionID[message_id],
                     sock |-> sock, tries |-> 1]
  <2>2. new \in RequestRecords /\ new.tries \in {0, 1}
    <3>1. TransactionID[message_id] \in Tids /\ sock \in {"OPEN", "UNCONNECTED"}
      BY <1>0, <2>1 DEF ClientTypeOK, Tids, SocketAfterSend
    <3> QED BY <3>1 DEF RequestRecords
  <2>3. reqs' = [reqs EXCEPT ![asked + 1] = new]
    BY <2>1
  <2> HIDE DEF new
  <2>4. /\ asked < MaxRequests /\ asked' = asked + 1 /\ heard' = heard
        /\ asked + 1 \in Requests
    BY <1>0, <1>2 DEF request, ClientTypeOK, Requests
  <2>5. Promise!PromiseNext
    <3>1. PICK r \in Requests : r = asked + 1
      BY <2>4
    <3> QED BY <1>0, <2>2, <2>3, <2>4, <3>1, PromiseMade
  <2> QED BY <2>5
<1>3. ASSUME NEW type \in Types, requestOutOfMemory(type) PROVE Kept
  <2> DEFINE new == [NoRequest EXCEPT !.type = type, !.sock = "UNCONNECTED"]
  <2>1. new \in RequestRecords /\ new.tries \in {0, 1}
    <3>1. NoRequest \in RequestRecords /\ NoRequest.tries = 0
      BY DEF NoRequest, RequestRecords, Types, Tids
    <3> QED BY <3>1 DEF RequestRecords
  <2>2. reqs' = [reqs EXCEPT ![asked + 1] = new]
    BY <1>3 DEF requestOutOfMemory
  <2> HIDE DEF new
  <2>3. /\ asked < MaxRequests /\ asked' = asked + 1 /\ heard' = heard
        /\ asked + 1 \in Requests
    BY <1>0, <1>3 DEF requestOutOfMemory, ClientTypeOK, Requests
  <2>4. Promise!PromiseNext
    <3>1. PICK r \in Requests : r = asked + 1
      BY <2>3
    <3> QED BY <1>0, <2>1, <2>2, <2>3, <3>1, PromiseMade
  <2> QED BY <2>4
<1>4. ASSUME NEW r \in Requests, ResponseFound(r) PROVE Kept
  <2> DEFINE c == callbacks[reqs[r].tid]
  <2>1. /\ c \in Requests /\ heard[c] = <<>> /\ reqs[c].tries > 0
        /\ heard' = [heard EXCEPT ![c] = Append(@, "ANSWERED")]
        /\ reqs' = [reqs EXCEPT ![r].sock = "CLOSED"]
        /\ asked' = asked
    BY <1>4, AnswerFacts DEF ResponseFound
  <2> HIDE DEF c
  <2>2. /\ \A s \in Requests : reqs'[s].type = reqs[s].type
        /\ \A s \in Requests : reqs'[s].tries = reqs[s].tries
    <3> DEFINE old == reqs[r]
               new == [old EXCEPT !.sock = "CLOSED"]
    <3>1. old \in RequestRecords /\ reqs' = [reqs EXCEPT ![r] = new]
      BY <1>0, <2>1
    <3> HIDE DEF old
    <3>2. new.type = old.type /\ new.tries = old.tries
      BY <3>1 DEF RequestRecords
    <3> HIDE DEF new
    <3> QED BY <1>0, <3>1, <3>2 DEF old
  <2>3. Limit(reqs', asked') = Limit(reqs, asked) /\ Tries(reqs') = Tries(reqs)
    BY <2>1, <2>2, LimitStays DEF Tries
  <2>4. heard' = [heard EXCEPT ![c] = <<"ANSWERED">>]
    <3>1. Append(<<>>, "ANSWERED") = <<"ANSWERED">>
      OBVIOUS
    <3> QED BY <2>1, <3>1
  <2>5. Tries(reqs)[c] > 0
    BY <2>1 DEF Tries
  <2>6. Promise!Tell(c, "ANSWERED")
    BY <2>1, <2>3, <2>4, <2>5 DEF Promise!Tell, Limit, Tries
  <2> QED BY <2>1, <2>6 DEF Promise!PromiseNext
<1>5. ASSUME Retransmit PROVE Kept
  <2>1. /\ queue # <<>> /\ First \in Node /\ First = queue[1]
        /\ 1 \in 1..Len(queue) /\ asked \in 0..MaxRequests
    BY <1>0, <1>5, ExpiredFacts, ClientFacts DEF Retransmit, ClientTypeOK
  <2>12. PICK r \in Requests : r = First.req
    BY <2>1 DEF Node
  <2>2. /\ Known(First, reqs, asked) /\ Heard(First, callbacks, heard, reqs)
        /\ r \in Requests /\ ~(r > asked)
    BY <1>0, <2>1, <2>12 DEF NodesKnown, NodesHeard, Known, Requests
  <2>3. /\ First.rc \in Nat /\ First.rc < MAX_RETRANSMIT
        /\ reqs[r].type = "CON" /\ asked' = asked /\ heard' = heard
    BY <1>5, <2>1, <2>12 DEF Retransmit, RetriesLeft, Node
  <2>4. PICK sock : reqs' = [reqs EXCEPT ![r].sock = sock, ![r].tries = @ + 1]
    BY <1>5, <2>12 DEF Retransmit
  <2>5. heard[r] = <<>> /\ reqs[r].tries = First.rc + 1
    BY <2>2, <2>12 DEF Heard, Known
  <2>6. /\ \A s \in Requests : reqs'[s].type = reqs[s].type
        /\ \A s \in Requests : s # r => reqs'[s].tries = reqs[s].tries
        /\ reqs'[r].tries = reqs[r].tries + 1
    <3>1. \A s \in Requests : s # r => reqs'[s] = reqs[s]
      BY <1>0, <2>4
    <3>2. reqs'[r].tries = reqs[r].tries + 1 /\ reqs'[r].type = reqs[r].type
      <4>1. reqs[r] \in RequestRecords
        BY <1>0, <2>2
      <4> QED BY <1>0, <2>2, <2>4, <4>1 DEF RequestRecords
    <3> QED BY <3>1, <3>2
  <2>7. Limit(reqs', asked') = Limit(reqs, asked)
    BY <2>3, <2>6, LimitStays
  <2>8. Tries(reqs') = [Tries(reqs) EXCEPT ![r] = @ + 1]
    BY <2>2, <2>6 DEF Tries
  <2>9. Tries(reqs)[r] \in 1..(Limit(reqs, asked)[r] - 1)
    BY <2>2, <2>3, <2>5 DEF Tries, Limit
  <2>10. Promise!TryAgain(r)
    BY <2>3, <2>5, <2>7, <2>8, <2>9 DEF Promise!TryAgain, Limit, Tries
  <2>11. Promise!PromiseNext
    BY <2>10 DEF Promise!PromiseNext
  <2> QED BY <2>11
<1>6. ASSUME GiveUp PROVE Kept
  <2> DEFINE c == First.req
  <2>1. /\ c \in 1..asked /\ c \in Requests /\ heard[c] = <<>>
        /\ reqs[c].tries = First.rc + 1 /\ First.rc \in 0..MAX_RETRANSMIT
        /\ reqs[c].type = "NON" => First.rc = 0
        /\ heard' = [heard EXCEPT ![c] = Append(@, "FAILED")]
    BY <1>6, FailureFacts
  <2>2. reqs[c].type = "CON" => First.rc >= MAX_RETRANSMIT
    BY <1>6, <2>1 DEF GiveUp, RetriesLeft
  <2>3. asked' = asked /\ reqs' = reqs /\ asked \in Nat
    BY <1>0, <1>6, ClientFacts DEF GiveUp
  <2> HIDE DEF c
  <2>4. reqs[c].type \in {"CON", "NON"} /\ ~(c > asked)
    BY <1>0, <2>1, <2>3 DEF RequestRecords, Types
  <2>5. Tries(reqs)[c] > 0 /\ Tries(reqs)[c] = Limit(reqs, asked)[c]
    BY <2>1, <2>2, <2>4 DEF Tries, Limit
  <2>6. heard' = [heard EXCEPT ![c] = <<"FAILED">>]
    <3>1. Append(<<>>, "FAILED") = <<"FAILED">>
      OBVIOUS
    <3> QED BY <2>1, <3>1
  <2>7. Promise!Tell(c, "FAILED")
    BY <2>1, <2>3, <2>5, <2>6 DEF Promise!Tell, Limit, Tries
  <2> QED BY <2>1, <2>7 DEF Promise!PromiseNext
<1> QED BY <1>1, <1>2, <1>3, <1>4, <1>5, <1>6
     DEF ClientNext, timerTick, ResponseTooLate, Elapse, clientVars

(***************************************************************************)
(* When the ids differ.                                                    *)
(***************************************************************************)
\* How many message ids b comes after a.
Distance(a, b) == IF b >= a THEN b - a ELSE b + MidMod - a

\* As many requests in a row as are made have different transaction ids.
IdsApart ==
  /\ MaxRequests <= MidMod
  /\ \A a, b \in Mids :
       Distance(a, b) \in 1..(MaxRequests - 1) => TransactionID[a] # TransactionID[b]

\* Every pending id is of one of the message ids used so far.
Recent ==
  asked < MaxRequests =>
    \A i \in 1..Len(queue) :
      \E m \in Mids : /\ queue[i].id = TransactionID[m]
                      /\ Distance(m, message_id) \in 1..asked

LEMMA NextDistance ==
  ASSUME IdsApart, message_id \in Mids, NEW n \in Nat, n + 1 < MaxRequests
  PROVE  /\ Distance(message_id, NextMessageId) = 1
         /\ \A m \in Mids : Distance(m, message_id) \in 1..n =>
              Distance(m, NextMessageId) \in 1..(n + 1)
<1>1. /\ message_id \in Nat /\ message_id < MidMod /\ MidMod \in Nat
      /\ n + 1 < MidMod
      /\ NextMessageId = IF message_id + 1 = MidMod THEN 0 ELSE message_id + 1
  BY NextMessageIdTyped DEF IdsApart, Mids
<1>2. \A m \in Mids : m \in Nat /\ m < MidMod
  BY DEF Mids
<1> QED BY <1>1, <1>2 DEF Distance

\* The nodes of a step keep their ids, except for the new one of a request.
LEMMA RecentInductive ==
  ASSUME IdsApart
  PROVE  /\ ClientInit => Recent
         /\ ClientInv /\ Recent /\ [ClientNext]_clientVars => Recent'
<1>1. ASSUME ClientInit PROVE Recent
  BY <1>1 DEF ClientInit, Recent
<1>2. ASSUME ClientInv, Recent, [ClientNext]_clientVars PROVE Recent'
  <2>0. /\ ClientTypeOK /\ TimerInv /\ message_id \in Mids /\ asked \in Nat
    BY <1>2, ClientFacts DEF ClientInv, ClientTypeOK
  <2>1. ASSUME NEW e, NEW delta, Moves(e, delta),
               UNCHANGED <<message_id, asked>>,
               \A i \in 1..Len(queue') : New(e, i) =>
                 \E j \in 1..Len(queue) : queue'[i].id = queue[j].id
        PROVE  Recent'
    <3>1. \A i \in 1..Len(queue') :
            \E j \in 1..Len(queue) : queue'[i].id = queue[j].id
      BY <2>0, <2>1, NodeOrigin DEF Like
    <3> QED BY <1>2, <2>1, <3>1 DEF Recent
  <2>2. ASSUME message_id' = NextMessageId, asked' = asked + 1,
               \A i \in 1..Len(queue') :
                 \/ queue'[i].id = TransactionID[message_id]
                 \/ \E j \in 1..Len(queue) : queue'[i].id = queue[j].id
        PROVE  Recent'
    <3> SUFFICES ASSUME asked + 1 < MaxRequests, NEW i \in 1..Len(queue')
                 PROVE  \E m \in Mids :
                          /\ queue'[i].id = TransactionID[m]
                          /\ Distance(m, NextMessageId) \in 1..(asked + 1)
      BY <2>2 DEF Recent
    <3>1. CASE queue'[i].id = TransactionID[message_id]
      <4>1. Distance(message_id, NextMessageId) \in 1..(asked + 1)
        BY <2>0, NextDistance
      <4> QED BY <2>0, <3>1, <4>1
    <3>2. ASSUME NEW j \in 1..Len(queue), queue'[i].id = queue[j].id
          PROVE  \E m \in Mids :
                   /\ queue'[i].id = TransactionID[m]
                   /\ Distance(m, NextMessageId) \in 1..(asked + 1)
      <4>1. asked < MaxRequests
        BY <2>0
      <4>2. PICK m \in Mids : /\ queue[j].id = TransactionID[m]
                              /\ Distance(m, message_id) \in 1..asked
        BY <1>2, <4>1 DEF Recent
      <4>3. Distance(m, NextMessageId) \in 1..(asked + 1)
        BY <2>0, <4>2, NextDistance
      <4> QED BY <3>2, <4>2, <4>3
    <3> QED BY <2>2, <3>1, <3>2
  <2>3. ASSUME NEW type \in Types, request(type) PROVE Recent'
    <3>1. PICK e : \E delta \in Int :
            /\ Moves(e, delta)
            /\ \A i \in 1..Len(queue') : New(e, i) =>
                 queue'[i].id = TransactionID[message_id]
      BY <2>0, <2>3, RequestMoves
    <3>2. \A i \in 1..Len(queue') : ~New(e, i) =>
            \E j \in 1..Len(queue) : queue'[i].id = queue[j].id
      BY <2>0, <3>1, NodeOrigin DEF Like
    <3> QED BY <2>2, <2>3, <3>1, <3>2 DEF request
  <2>4. ASSUME NEW type \in Types, requestOutOfMemory(type) PROVE Recent'
    BY <2>2, <2>4 DEF requestOutOfMemory
  <2>5. ASSUME NEW r \in Requests, ResponseFound(r) PROVE Recent'
    <3>1. PICK e : \E delta \in Int :
            Moves(e, delta) /\ \A i \in 1..Len(queue') : ~New(e, i)
      BY <2>0, <2>5, ResponseMoves
    <3> QED BY <2>1, <2>5, <3>1 DEF ResponseFound
  <2>6. CASE Retransmit
    <3>1. PICK e : \E delta \in Int :
            /\ Moves(e, delta)
            /\ \A i \in 1..Len(queue') : New(e, i) => queue'[i].id = First.id
      BY <2>0, <2>6, RetransmitMoves
    <3>2. First = queue[1] /\ 1 \in 1..Len(queue)
      BY <2>0, <2>6, ExpiredFacts, ClientFacts DEF Retransmit
    <3> QED BY <2>1, <2>6, <3>1, <3>2 DEF Retransmit
  <2>7. CASE GiveUp
    <3>1. PICK e : \E delta \in Int :
            Moves(e, delta) /\ \A i \in 1..Len(queue') : ~New(e, i)
      BY <2>0, <2>7, GiveUpMoves
    <3> QED BY <2>1, <2>7, <3>1 DEF GiveUp
  <2>8. CASE UNCHANGED <<queue, message_id, asked>>
    BY <1>2, <2>8 DEF Recent
  <2> QED BY <1>2, <2>3, <2>4, <2>5, <2>6, <2>7, <2>8
       DEF ClientNext, timerTick, ResponseTooLate, Elapse, clientVars
<1> QED BY <1>1, <1>2

LEMMA RecentIsFree ==
  ASSUME IdsApart, ClientInv, Recent
  PROVE  NextIdIsFree
<1> SUFFICES ASSUME asked < MaxRequests, NEW i \in 1..Len(queue)
             PROVE  queue[i].id # TransactionID[message_id]
  BY DEF NextIdIsFree
<1>1. PICK m \in Mids : /\ queue[i].id = TransactionID[m]
                        /\ Distance(m, message_id) \in 1..asked
  BY DEF Recent
<1>2. message_id \in Mids /\ asked \in Nat
  BY DEF ClientInv, ClientTypeOK
<1>3. Distance(m, message_id) \in 1..(MaxRequests - 1)
  BY <1>1, <1>2
<1> QED BY <1>1, <1>2, <1>3 DEF IdsApart

LEMMA IdsFree == ASSUME IdsApart PROVE ClientSpec => []NextIdIsFree
<1>1. ClientInit => Recent
  BY RecentInductive
<1>2. ClientInv /\ Recent /\ [ClientNext]_clientVars => Recent'
  BY RecentInductive
<1>3. ClientInv /\ Recent => NextIdIsFree
  BY RecentIsFree
<1> QED BY <1>1, <1>2, <1>3, ClientInvariant, PTL DEF ClientSpec

\* A pending request is in the queue once, under its id, with its own callback
\* behind that id and its connection open for the next try, as long as no two
\* of the requests made have the same transaction id.
THEOREM PendingIsWholeCorrect ==
  ASSUME IdsApart
  PROVE  ClientSpec => []PendingIsWhole
<1>1. ClientInv /\ NodesHeard => PendingIsWhole
  BY DEF ClientInv, NodesKnown, Known, NodesHeard, Heard, PendingIsWhole
<1> QED BY <1>1, IdsFree, ClientInvariant, HeardInvariant, PTL

\* The client implements RequestPromise: a limited number of tries, and one
\* call of the callback, with failure only after the last try.
THEOREM PromiseKept ==
  ASSUME IdsApart
  PROVE  ClientSpec => KeepsPromise
<1>1. ClientInit => Promise!PromiseInit
  BY PromiseStart
<1>2. ClientInv /\ NodesHeard /\ [ClientNext]_clientVars =>
        [Promise!PromiseNext]_(Promise!promiseVars)
  BY PromiseStep
<1> QED BY <1>1, <1>2, IdsFree, ClientInvariant, HeardInvariant, PTL
     DEF ClientSpec, KeepsPromise, Promise!PromiseSpec
=============================================================================
