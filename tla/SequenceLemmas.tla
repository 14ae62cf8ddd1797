---------------------------- MODULE SequenceLemmas ----------------------------
(***************************************************************************)
(* Facts about sequences and searches that the proofs share: what the      *)
(* operators of SequencesExt that stand for the linked lists of the stack  *)
(* return, position by position.                                           *)
(***************************************************************************)
EXTENDS Integers, Sequences, SequencesExt, SequenceTheorems,
        WellFoundedInduction, TLAPS

\* A set of positions that is not empty has a first one.
LEMMA LeastElement ==
  ASSUME NEW S, S \subseteq Nat, S # {}
  PROVE  \E x \in S : \A y \in S : x <= y
<1> DEFINE R == {ss \in Nat \X Nat : ss[1] < ss[2]}
<1>1. IsWellFoundedOn(R, Nat)
  BY NatLessThanWellFounded DEF OpToRel
<1>2. PICK x \in S : \A y \in S : ~(<<y, x>> \in R)
  <2> HIDE DEF R
  <2> QED BY <1>1, WFMin
<1>3. ASSUME NEW y \in S PROVE x <= y
  <2>1. <<y, x>> \in Nat \X Nat
    OBVIOUS
  <2>2. ~(<<y, x>>[1] < <<y, x>>[2])
    BY <1>2, <2>1
  <2> QED BY <2>2
<1> QED BY <1>3

(***************************************************************************)
(* Removing and inserting.                                                 *)
(***************************************************************************)
\* Removing position i moves what is behind it one place to the front.
LEMMA RemoveAtProperties ==
  ASSUME NEW S, NEW q \in Seq(S), NEW i \in 1..Len(q)
  PROVE  /\ RemoveAt(q, i) \in Seq(S)
         /\ Len(RemoveAt(q, i)) = Len(q) - 1
         /\ \A j \in 1..Len(q)-1 :
              RemoveAt(q, i)[j] = IF j < i THEN q[j] ELSE q[j+1]
<1> DEFINE front == SubSeq(q, 1, i-1)
           back == SubSeq(q, i+1, Len(q))
<1>0. Len(q) \in Nat /\ \A j \in 1..Len(q) : q[j] \in S
  BY LenProperties, ElementOfSeq
<1>1. /\ front \in Seq(S) /\ Len(front) = i-1
      /\ \A j \in 1..i-1 : front[j] = q[j]
  <2>1. \A j \in 1..i-1 : q[j] \in S
    BY <1>0
  <2>2. 1 \in Int /\ i-1 \in Int
    BY <1>0
  <2>3. /\ front \in Seq(S)
        /\ Len(front) = IF 1 <= i-1 THEN (i-1)-1+1 ELSE 0
        /\ \A j \in 1..(i-1)-1+1 : front[j] = q[1+j-1]
    BY <2>1, <2>2, SubSeqProperties
  <2> QED BY <2>3, <1>0
<1>2. /\ back \in Seq(S) /\ Len(back) = Len(q)-i
      /\ \A j \in 1..Len(q)-i : back[j] = q[i+j]
  <2>1. \A j \in i+1..Len(q) : q[j] \in S
    BY <1>0
  <2>2. i+1 \in Int /\ Len(q) \in Int
    BY <1>0
  <2>3. /\ back \in Seq(S)
        /\ Len(back) = IF i+1 <= Len(q) THEN Len(q)-(i+1)+1 ELSE 0
        /\ \A j \in 1..Len(q)-(i+1)+1 : back[j] = q[i+1+j-1]
    BY <2>1, <2>2, SubSeqProperties
  <2> QED BY <2>3, <1>0
<1>3. RemoveAt(q, i) = front \o back
  BY DEF RemoveAt
<1> HIDE DEF front, back
<1>4. /\ front \o back \in Seq(S)
      /\ Len(front \o back) = Len(front) + Len(back)
      /\ \A j \in 1..Len(front) + Len(back) :
           (front \o back)[j] = IF j <= Len(front) THEN front[j]
                                                   ELSE back[j - Len(front)]
  BY <1>1, <1>2, ConcatProperties
<1>5. Len(front) + Len(back) = Len(q)-1
  BY <1>0, <1>1, <1>2
<1> DEFINE whole == front \o back
<1> HIDE DEF whole
<1>6. \A j \in 1..Len(q)-1 :
        whole[j] = IF j <= i-1 THEN front[j] ELSE back[j - (i-1)]
  <2>1. \A j \in 1..Len(front) + Len(back) :
          whole[j] = IF j <= Len(front) THEN front[j]
                                        ELSE back[j - Len(front)]
    BY <1>4 DEF whole
  <2>2. Len(front) = i-1
    BY <1>1
  <2> QED BY <2>1, <2>2, <1>5
<1>7. ASSUME NEW j \in 1..Len(q)-1
      PROVE  whole[j] = IF j < i THEN q[j] ELSE q[j+1]
  <2>0. whole[j] = IF j <= i-1 THEN front[j] ELSE back[j - (i-1)]
    BY <1>6
  <2>1. CASE j < i
    <3>1. j \in 1..i-1 /\ j <= i-1
      BY <1>0, <2>1
    <3>2. front[j] = q[j]
      BY <1>1, <3>1
    <3> QED BY <2>0, <2>1, <3>1, <3>2
  <2>2. CASE ~(j < i)
    <3>1. /\ j - (i-1) \in 1..Len(q)-i
          /\ i + (j - (i-1)) = j+1
          /\ ~(j <= i-1)
      BY <1>0, <2>2
    <3>2. back[j - (i-1)] = q[i + (j - (i-1))]
      BY <1>2, <3>1
    <3>3. back[j - (i-1)] = q[j+1]
      BY <3>1, <3>2
    <3> QED BY <2>0, <2>2, <3>1, <3>3
  <2> QED BY <2>1, <2>2
<1>8. whole = RemoveAt(q, i) /\ whole \in Seq(S) /\ Len(whole) = Len(q)-1
  BY <1>3, <1>4, <1>5 DEF whole
<1> QED BY <1>7, <1>8

\* Removing the first e removes one of the positions that hold it.
LEMMA RemoveFirstIsRemoveAt ==
  ASSUME NEW S, NEW q \in Seq(S), NEW e, \E i \in 1..Len(q) : q[i] = e
  PROVE  \E i \in 1..Len(q) : q[i] = e /\ RemoveFirst(q, e) = RemoveAt(q, i)
<1> DEFINE I == {i \in 1..Len(q) : q[i] = e}
<1>1. Len(q) \in Nat
  BY LenProperties
<1>2. Min(I) \in I
  <2>1. I \subseteq Nat /\ I # {}
    BY <1>1
  <2> HIDE DEF I
  <2> QED BY <2>1, LeastElement DEF Min
<1>3. RemoveFirst(q, e) = RemoveAt(q, Min(I))
  BY <1>2, ZenonT(60) DEF RemoveFirst, SelectInSeq
<1> QED BY <1>2, <1>3

\* What is taken from the list goes on in two parts.
LEMMA PartOfSeq ==
  ASSUME NEW S, NEW q \in Seq(S), NEW a \in 1..Len(q)+1, NEW b \in a-1..Len(q)
  PROVE  /\ SubSeq(q, a, b) \in Seq(S)
         /\ Len(SubSeq(q, a, b)) = b - a + 1
         /\ \A j \in 1..b-a+1 : SubSeq(q, a, b)[j] = q[a+j-1]
<1>1. Len(q) \in Nat /\ \A j \in 1..Len(q) : q[j] \in S
  BY LenProperties, ElementOfSeq
<1>2. \A j \in a..b : q[j] \in S
  BY <1>1
<1>3. a \in Int /\ b \in Int
  BY <1>1
<1>4. /\ SubSeq(q, a, b) \in Seq(S)
      /\ Len(SubSeq(q, a, b)) = IF a <= b THEN b-a+1 ELSE 0
      /\ \A j \in 1..b-a+1 : SubSeq(q, a, b)[j] = q[a+j-1]
  BY <1>2, <1>3, SubSeqProperties
<1>5. ~(a <= b) => b - a + 1 = 0
  BY <1>1
<1> QED BY <1>4, <1>5

\* Something goes in front of a sequence.
LEMMA PrependProperties ==
  ASSUME NEW S, NEW e \in S, NEW q \in Seq(S)
  PROVE  /\ <<e>> \o q \in Seq(S) /\ Len(q) \in Nat /\ Len(<<e>> \o q) = Len(q) + 1
         /\ (<<e>> \o q)[1] = e
         /\ \A j \in 1..Len(q) : (<<e>> \o q)[j+1] = q[j]
<1> DEFINE one == <<e>>
           w == one \o q
<1>1. one \in Seq(S) /\ Len(one) = 1 /\ one[1] = e
  OBVIOUS
<1>2. Len(q) \in Nat
  BY LenProperties
<1> HIDE DEF one
<1>3. /\ w \in Seq(S) /\ Len(w) = Len(one) + Len(q)
      /\ \A j \in 1..Len(one)+Len(q) :
           w[j] = IF j <= Len(one) THEN one[j] ELSE q[j-Len(one)]
  BY <1>1, ConcatProperties
<1> HIDE DEF w
<1>4. w[1] = e
  <2>1. 1 \in 1..1+Len(q)
    BY <1>2
  <2> QED BY <1>1, <1>3, <2>1
<1>5. ASSUME NEW j \in 1..Len(q) PROVE w[j+1] = q[j]
  <2>1. j+1 \in 1..1+Len(q) /\ ~(j+1 <= 1) /\ (j+1)-1 = j
    BY <1>2
  <2> QED BY <1>1, <1>3, <2>1
<1>6. Len(w) = Len(q) + 1
  BY <1>1, <1>2, <1>3
<1> QED BY <1>2, <1>3, <1>4, <1>5, <1>6 DEF w, one

\* Inserting at position i moves what was there, and all behind it, one place
\* to the back.
LEMMA InsertAtProperties ==
  ASSUME NEW S, NEW q \in Seq(S), NEW i \in 1..Len(q)+1, NEW e \in S
  PROVE  /\ InsertAt(q, i, e) \in Seq(S)
         /\ Len(InsertAt(q, i, e)) = Len(q) + 1
         /\ \A j \in 1..Len(q)+1 :
              InsertAt(q, i, e)[j] = IF j < i THEN q[j]
                                     ELSE IF j = i THEN e ELSE q[j-1]
<1> DEFINE front == SubSeq(q, 1, i-1)
           back == SubSeq(q, i, Len(q))
           begin == front \o <<e>>
           whole == begin \o back
<1>0. Len(q) \in Nat
  BY LenProperties
<1>1. /\ front \in Seq(S) /\ Len(front) = i-1
      /\ \A j \in 1..i-1 : front[j] = q[j]
  <2>1. 1 \in 1..Len(q)+1 /\ i-1 \in 1-1..Len(q)
    BY <1>0
  <2>2. /\ front \in Seq(S) /\ Len(front) = (i-1)-1+1
        /\ \A j \in 1..(i-1)-1+1 : front[j] = q[1+j-1]
    BY <2>1, PartOfSeq
  <2> QED BY <2>2, <1>0
<1>2. /\ back \in Seq(S) /\ Len(back) = Len(q)-i+1
      /\ \A j \in 1..Len(q)-i+1 : back[j] = q[i+j-1]
  <2>1. Len(q) \in i-1..Len(q)
    BY <1>0
  <2> QED BY <2>1, PartOfSeq
<1>3. <<e>> \in Seq(S) /\ Len(<<e>>) = 1 /\ <<e>>[1] = e
  OBVIOUS
<1>4. InsertAt(q, i, e) = whole
  BY DEF InsertAt
<1> HIDE DEF front, back
<1> DEFINE one == <<e>>
<1> HIDE DEF one
<1>5. /\ begin \in Seq(S) /\ Len(begin) = i
      /\ \A j \in 1..i : begin[j] = IF j < i THEN q[j] ELSE e
  <2>1. one \in Seq(S) /\ Len(one) = 1 /\ one[1] = e
    BY <1>3 DEF one
  <2>2. /\ front \o one \in Seq(S)
        /\ Len(front \o one) = Len(front) + Len(one)
        /\ \A j \in 1..Len(front) + Len(one) :
             (front \o one)[j] = IF j <= Len(front) THEN front[j]
                                                    ELSE one[j - Len(front)]
    BY <1>1, <2>1, ConcatProperties
  <2>3. begin = front \o one
    BY DEF one
  <2>4. Len(front) + Len(one) = i
    BY <1>1, <2>1, <1>0
  <2>5. begin \in Seq(S) /\ Len(begin) = i
    BY <2>2, <2>3, <2>4
  <2>6. ASSUME NEW j \in 1..i
        PROVE  begin[j] = IF j < i THEN q[j] ELSE e
    <3>1. begin[j] = IF j <= i-1 THEN front[j] ELSE one[j - (i-1)]
      BY <2>2, <2>3, <2>4, <1>1
    <3>2. CASE j < i
      <4>1. j <= i-1 /\ j \in 1..i-1
        BY <3>2, <1>0
      <4> QED BY <3>1, <3>2, <4>1, <1>1
    <3>3. CASE ~(j < i)
      <4>1. j - (i-1) = 1 /\ ~(j <= i-1)
        BY <3>3, <1>0
      <4> QED BY <3>1, <3>3, <4>1, <2>1
    <3> QED BY <3>2, <3>3
  <2> HIDE DEF begin
  <2> QED BY <2>5, <2>6
<1> HIDE DEF begin
<1>6. /\ whole \in Seq(S)
      /\ Len(whole) = Len(begin) + Len(back)
      /\ \A j \in 1..Len(begin) + Len(back) :
           whole[j] = IF j <= Len(begin) THEN begin[j] ELSE back[j - Len(begin)]
  BY <1>2, <1>5, ConcatProperties
<1> HIDE DEF whole
<1>7. Len(begin) + Len(back) = Len(q) + 1
  BY <1>0, <1>2, <1>5
<1>8. ASSUME NEW j \in 1..Len(q)+1
      PROVE  whole[j] = IF j < i THEN q[j] ELSE IF j = i THEN e ELSE q[j-1]
  <2>1. whole[j] = IF j <= i THEN begin[j] ELSE back[j - i]
    BY <1>5, <1>6, <1>7
  <2>2. CASE j <= i
    <3>1. j \in 1..i
      BY <2>2, <1>0
    <3>2. begin[j] = IF j < i THEN q[j] ELSE e
      BY <3>1, <1>5
    <3>3. ~(j < i) => j = i
      BY <2>2, <1>0
    <3> QED BY <2>1, <2>2, <3>2, <3>3
  <2>3. CASE ~(j <= i)
    <3>1. j - i \in 1..Len(q)-i+1 /\ i + (j-i) - 1 = j-1 /\ ~(j < i) /\ j # i
      BY <2>3, <1>0
    <3>2. back[j-i] = q[i + (j-i) - 1]
      BY <3>1, <1>2
    <3> QED BY <2>1, <2>3, <3>1, <3>2
  <2> QED BY <2>2, <2>3
<1>9. InsertAt(q, i, e) = whole /\ whole \in Seq(S) /\ Len(whole) = Len(q)+1
  BY <1>4, <1>6, <1>7
<1> QED BY <1>8, <1>9

\* A part of a sequence is replaced: what is before the part stays in place,
\* and what is behind it goes on behind the new part.
LEMMA SpliceProperties ==
  ASSUME NEW S, NEW q \in Seq(S), NEW part \in Seq(S),
         NEW a \in 0..Len(q), NEW b \in a..Len(q)
  PROVE  LET w == SubSeq(q, 1, a) \o part \o SubSeq(q, b+1, Len(q)) IN
         /\ w \in Seq(S)
         /\ Len(w) = a + Len(part) + Len(q) - b
         /\ \A i \in 1..Len(w) :
              w[i] = IF i <= a THEN q[i]
                     ELSE IF i <= a + Len(part) THEN part[i - a]
                     ELSE q[i - a - Len(part) + b]
<1> DEFINE front == SubSeq(q, 1, a)
           back == SubSeq(q, b+1, Len(q))
           begin == front \o part
           w == begin \o back
           k == Len(part)
<1>0. Len(q) \in Nat /\ k \in Nat
  BY LenProperties
<1>1. /\ front \in Seq(S) /\ Len(front) = a
      /\ \A i \in 1..a : front[i] = q[i]
  <2>1. 1 \in 1..Len(q)+1 /\ a \in 1-1..Len(q)
    BY <1>0
  <2>2. /\ front \in Seq(S) /\ Len(front) = a-1+1
        /\ \A i \in 1..a-1+1 : front[i] = q[1+i-1]
    BY <2>1, PartOfSeq
  <2> QED BY <2>2, <1>0
<1>2. /\ back \in Seq(S) /\ Len(back) = Len(q)-b
      /\ \A i \in 1..Len(q)-b : back[i] = q[b+i]
  <2>1. b+1 \in 1..Len(q)+1 /\ Len(q) \in b+1-1..Len(q)
    BY <1>0
  <2>2. /\ back \in Seq(S) /\ Len(back) = Len(q)-(b+1)+1
        /\ \A i \in 1..Len(q)-(b+1)+1 : back[i] = q[b+1+i-1]
    BY <2>1, PartOfSeq
  <2> QED BY <2>2, <1>0
<1> HIDE DEF front, back
<1>3. /\ begin \in Seq(S) /\ Len(begin) = a + k
      /\ \A i \in 1..a+k : begin[i] = IF i <= a THEN q[i] ELSE part[i-a]
  <2>1. /\ begin \in Seq(S) /\ Len(begin) = Len(front) + Len(part)
        /\ \A i \in 1..Len(front)+Len(part) :
             begin[i] = IF i <= Len(front) THEN front[i] ELSE part[i-Len(front)]
    BY <1>1, ConcatProperties
  <2> HIDE DEF begin
  <2>2. ASSUME NEW i \in 1..a+k
        PROVE  begin[i] = IF i <= a THEN q[i] ELSE part[i-a]
    <3>1. begin[i] = IF i <= a THEN front[i] ELSE part[i-a]
      BY <2>1, <1>1
    <3>2. i <= a => i \in 1..a
      BY <1>0
    <3> QED BY <3>1, <3>2, <1>1
  <2> QED BY <2>1, <2>2, <1>1
<1> HIDE DEF begin
<1>4. /\ w \in Seq(S) /\ Len(w) = Len(begin) + Len(back)
      /\ \A i \in 1..Len(begin)+Len(back) :
           w[i] = IF i <= Len(begin) THEN begin[i] ELSE back[i-Len(begin)]
  BY <1>2, <1>3, ConcatProperties
<1> HIDE DEF w
<1>5. Len(w) = a + k + Len(q) - b
  BY <1>0, <1>2, <1>3, <1>4
<1>6. ASSUME NEW i \in 1..Len(w)
      PROVE  w[i] = IF i <= a THEN q[i]
                    ELSE IF i <= a + k THEN part[i-a]
                    ELSE q[i - a - k + b]
  <2>1. w[i] = IF i <= a+k THEN begin[i] ELSE back[i-(a+k)]
    BY <1>2, <1>3, <1>4
  <2>2. CASE i <= a + k
    <3>1. i \in 1..a+k
      BY <1>0, <1>5, <2>2
    <3>2. begin[i] = IF i <= a THEN q[i] ELSE part[i-a]
      BY <3>1, <1>3
    <3> QED BY <2>1, <2>2, <3>2, <1>0
  <2>3. CASE ~(i <= a + k)
    <3>1. /\ i-(a+k) \in 1..Len(q)-b
          /\ b + (i-(a+k)) = i - a - k + b /\ ~(i <= a)
      BY <1>0, <1>5, <2>3
    <3>2. back[i-(a+k)] = q[b + (i-(a+k))]
      BY <3>1, <1>2
    <3> QED BY <2>1, <2>3, <3>1, <3>2
  <2> QED BY <2>2, <2>3
<1>7. w = SubSeq(q, 1, a) \o part \o SubSeq(q, b+1, Len(q))
  BY DEF w, begin, front, back
<1> HIDE DEF k
<1>8. k = Len(part)
  BY DEF k
<1> QED BY <1>4, <1>5, <1>6, <1>7, <1>8

(***************************************************************************)
(* Folds.  FoldLeft is a choice of a recursive function over the subsets   *)
(* of the positions; these facts turn it into a chain of results, one for  *)
(* every prefix.  The step is a function F on a set A of results and a set *)
(* B of elements, so a lemma about a fold over a given operator has only   *)
(* to say that the operator agrees with F there.                           *)
(***************************************************************************)
\* What holds at 0 and is passed on from each number to the next one holds at
\* all of them.
LEMMA StepByStep ==
  ASSUME NEW n \in Nat, NEW S, 0 \in S,
         \A k \in 1..n : k-1 \in S => k \in S
  PROVE  0..n \subseteq S
<1> DEFINE out == {k \in 0..n : k \notin S}
<1>1. ASSUME out # {} PROVE FALSE
  <2>1. PICK k \in out : \A j \in out : k <= j
    <3>1. out \subseteq Nat
      OBVIOUS
    <3> HIDE DEF out
    <3> QED BY <1>1, <3>1, LeastElement
  <2>2. k \in 1..n /\ k \notin S
    OBVIOUS
  <2>3. k-1 \in 0..n /\ ~(k <= k-1)
    BY <2>2
  <2>4. k-1 \in S
    BY <2>1, <2>3
  <2> QED BY <2>2, <2>4
<1> QED BY <1>1

\* A set of positions has a last one.
LEMMA GreatestElement ==
  ASSUME NEW n \in Nat, NEW s \in SUBSET (1..n), s # {}
  PROVE  Max(s) \in s /\ \A y \in s : Max(s) >= y
<1> DEFINE from == {n - x : x \in s}
<1>1. from \subseteq Nat /\ from # {}
  <2>1. \A x \in s : x \in 1..n /\ n - x \in Nat
    OBVIOUS
  <2> QED BY <2>1
<1>2. PICK z \in from : \A y \in from : z <= y
  <2> HIDE DEF from
  <2> QED BY <1>1, LeastElement
<1>3. PICK x \in s : z = n - x
  OBVIOUS
<1>4. ASSUME NEW y \in s PROVE x >= y
  <2>1. n - x <= n - y
    BY <1>2, <1>3
  <2>2. x \in Int /\ y \in Int
    OBVIOUS
  <2> QED BY <2>1, <2>2
<1> QED BY <1>3, <1>4 DEF Max

\* The last of some positions of a sequence, and the element there.
LEMMA LastOfPositions ==
  ASSUME NEW B, NEW q \in Seq(B), NEW s \in SUBSET DOMAIN q, s # {}
  PROVE  /\ s \ {Max(s)} \in SUBSET DOMAIN q /\ Max(s) \in DOMAIN q
         /\ q[Max(s)] \in B
<1>1. Len(q) \in Nat /\ DOMAIN q = 1..Len(q)
  BY LenProperties
<1>2. Max(s) \in s
  BY <1>1, GreatestElement
<1>3. Max(s) \in 1..Len(q)
  BY <1>1, <1>2
<1> QED BY <1>1, <1>3, ElementOfSeq

\* A solution of its recursion, and the chain of its results.
IsFold(g, A, F, base, q) ==
  /\ g \in [SUBSET DOMAIN q -> A] /\ g[{}] = base
  /\ \A s \in SUBSET DOMAIN q : s # {} =>
       /\ s \ {Max(s)} \in SUBSET DOMAIN q /\ Max(s) \in DOMAIN q
       /\ g[s] = F[<<g[s \ {Max(s)}], q[Max(s)]>>]
IsChain(c, A, F, base, q, result) ==
  /\ c \in [0..Len(q) -> A] /\ c[0] = base /\ c[Len(q)] = result
  /\ \A k \in 1..Len(q) : c[k] = F[<<c[k-1], q[k]>>]

\* The recursion of a fold has a solution.
LEMMA FoldDefined ==
  ASSUME NEW A, NEW B, NEW F \in [A \X B -> A], NEW base \in A, NEW q \in Seq(B)
  PROVE  \E g : IsFold(g, A, F, base, q)
<1> DEFINE n == Len(q)
           Solves(g, k) ==
             /\ g \in [SUBSET (1..k) -> A] /\ g[{}] = base
             /\ \A s \in SUBSET (1..k) : s # {} =>
                  g[s] = F[<<g[s \ {Max(s)}], q[Max(s)]>>]
           K == {k \in 0..n : \E g : Solves(g, k)}
<1>0. n \in Nat /\ DOMAIN q = 1..n /\ \A i \in 1..n : q[i] \in B
  BY LenProperties, ElementOfSeq
<1>1. 0 \in K
  <2> DEFINE g == [s \in SUBSET (1..0) |-> base]
  <2>1. 1..0 = {}
    OBVIOUS
  <2>2. g \in [SUBSET (1..0) -> A] /\ g[{}] = base /\ \A s \in SUBSET (1..0) : s = {}
    BY <2>1
  <2>3. Solves(g, 0)
    BY <2>2
  <2> HIDE DEF Solves, g
  <2> QED BY <1>0, <2>3
<1>2. ASSUME NEW k \in 1..n, k-1 \in K PROVE k \in K
  <2>1. PICK g : Solves(g, k-1)
    BY <1>2
  <2> DEFINE h == [s \in SUBSET (1..k) |->
                     IF k \in s THEN F[<<g[s \ {k}], q[k]>>] ELSE g[s]]
  <2>2. k \in Nat /\ 1..k = (1..k-1) \cup {k} /\ k \notin 1..k-1 /\ q[k] \in B
    BY <1>0
  <2>3. ASSUME NEW s \in SUBSET (1..k)
        PROVE  IF k \in s THEN s \ {k} \in SUBSET (1..k-1)
               ELSE s \in SUBSET (1..k-1)
    BY <2>2
  <2>4. h \in [SUBSET (1..k) -> A]
    <3>1. ASSUME NEW s \in SUBSET (1..k)
          PROVE  (IF k \in s THEN F[<<g[s \ {k}], q[k]>>] ELSE g[s]) \in A
      <4>1. CASE k \in s
        <5>1. g[s \ {k}] \in A
          BY <2>1, <2>3, <4>1
        <5> QED BY <2>2, <4>1, <5>1
      <4>2. CASE k \notin s
        BY <2>1, <2>3, <4>2
      <4> QED BY <4>1, <4>2
    <3> HIDE DEF Solves
    <3> QED BY <3>1
  <2>5. h[{}] = base
    <3>1. {} \in SUBSET (1..k) /\ k \notin {}
      OBVIOUS
    <3> QED BY <2>1, <3>1
  <2>6. ASSUME NEW s \in SUBSET (1..k), s # {}
        PROVE  h[s] = F[<<h[s \ {Max(s)}], q[Max(s)]>>]
    <3> DEFINE m == Max(s)
    <3>1. m \in s /\ (\A y \in s : m >= y) /\ s \ {m} \in SUBSET (1..k)
      BY <2>2, <2>6, GreatestElement
    <3> HIDE DEF m
    <3>2. CASE k \in s
      <4>1. m = k
        <5>1. m >= k /\ m \in 1..k
          BY <3>1, <3>2
        <5> QED BY <2>2, <5>1
      <4>2. h[s \ {k}] = g[s \ {k}]
        BY <3>1, <4>1
      <4>3. h[s] = F[<<g[s \ {k}], q[k]>>]
        BY <3>2
      <4> QED BY <4>1, <4>2, <4>3 DEF m
    <3>3. CASE k \notin s
      <4>1. h[s] = g[s] /\ h[s \ {m}] = g[s \ {m}]
        BY <3>1, <3>3
      <4>2. s \in SUBSET (1..k-1)
        BY <2>3, <3>3
      <4>3. g[s] = F[<<g[s \ {m}], q[m]>>]
        BY <2>1, <2>6, <4>2 DEF m
      <4> QED BY <4>1, <4>3 DEF m
    <3> QED BY <3>2, <3>3
  <2>7. Solves(h, k)
    <3> HIDE DEF h
    <3> QED BY <2>4, <2>5, <2>6
  <2>8. k \in 0..n
    BY <1>0
  <2> HIDE DEF Solves, h, n
  <2> QED BY <2>7, <2>8
<1>3. n \in K
  <2> HIDE DEF K, n
  <2>1. 0..n \subseteq K
    BY <1>0, <1>1, <1>2, StepByStep
  <2> QED BY <1>0, <2>1
<1>4. PICK g : Solves(g, n)
  BY <1>3
<1>5. ASSUME NEW s \in SUBSET DOMAIN q, s # {}
      PROVE  Max(s) \in DOMAIN q /\ s \ {Max(s)} \in SUBSET DOMAIN q
  <2>1. s \in SUBSET (1..n)
    BY <1>0
  <2>2. Max(s) \in s
    BY <1>0, <1>5, <2>1, GreatestElement
  <2> QED BY <2>2
<1>6. IsFold(g, A, F, base, q)
  <2> HIDE DEF n
  <2> QED BY <1>0, <1>4, <1>5 DEF IsFold
<1> QED BY <1>6

\* Whatever solution is chosen, its results for the prefixes are a chain.
LEMMA FoldChain ==
  ASSUME NEW A, NEW B, NEW F \in [A \X B -> A], NEW base \in A, NEW q \in Seq(B),
         NEW h, h[{}] = base,
         \A s \in SUBSET DOMAIN q :
           s # {} /\ h[s \ {Max(s)}] \in A =>
             h[s] = F[<<h[s \ {Max(s)}], q[Max(s)]>>]
  PROVE  \E c : IsChain(c, A, F, base, q, h[DOMAIN q])
<1> DEFINE n == Len(q)
           c == [k \in 0..n |-> h[1..k]]
           K == {k \in 0..n : h[1..k] \in A}
<1>0. n \in Nat /\ DOMAIN q = 1..n /\ \A i \in 1..n : q[i] \in B
  BY LenProperties, ElementOfSeq
<1>1. h[1..0] = base
  <2>1. 1..0 = {}
    OBVIOUS
  <2> QED BY <2>1
<1>2. ASSUME NEW k \in 1..n, h[1..(k-1)] \in A
      PROVE  h[1..k] = F[<<h[1..(k-1)], q[k]>>] /\ h[1..k] \in A
  <2>1. k \in Nat /\ 1..k \in SUBSET DOMAIN q /\ 1..k # {} /\ k \in 1..k
    BY <1>0
  <2>2. Max(1..k) \in 1..k /\ Max(1..k) >= k
    BY <2>1, GreatestElement
  <2>3. Max(1..k) = k
    BY <2>1, <2>2
  <2>4. (1..k) \ {k} = 1..(k-1)
    BY <2>1
  <2>5. h[1..k] = F[<<h[1..(k-1)], q[k]>>]
    BY <1>2, <2>1, <2>3, <2>4
  <2> QED BY <1>0, <1>2, <2>5
<1>3. 0..n \subseteq K
  <2>1. 0 \in K
    BY <1>0, <1>1
  <2>2. ASSUME NEW k \in 1..n, k-1 \in K PROVE k \in K
    <3>1. k \in 0..n /\ h[1..(k-1)] \in A
      BY <1>0, <2>2
    <3> QED BY <1>2, <3>1
  <2> HIDE DEF K, n
  <2> QED BY <1>0, <2>1, <2>2, StepByStep
<1>4. c \in [0..n -> A]
  BY <1>3
<1>5. c[0] = base /\ c[n] = h[DOMAIN q]
  BY <1>0, <1>1
<1>6. ASSUME NEW k \in 1..n PROVE c[k] = F[<<c[k-1], q[k]>>]
  <2>1. k \in 0..n /\ k-1 \in 0..n
    BY <1>0
  <2> QED BY <1>2, <1>3, <2>1
<1>7. IsChain(c, A, F, base, q, h[DOMAIN q])
  <2> HIDE DEF c
  <2> QED BY <1>4, <1>5, <1>6 DEF IsChain
<1> QED BY <1>7

(***************************************************************************)
(* Walks.  A reader that goes from one place of its input to a later one,  *)
(* until it stops, visits a list of places.                                *)
(***************************************************************************)
\* The places it visits from each place on.
IsWalk(g, n, stops, next) ==
  g = [off \in 0..n |-> IF off \in stops THEN <<off>>
                        ELSE <<off>> \o g[next[off]]]

\* The recursion of a walk has a solution, since every step leads further.
LEMMA WalkDefined ==
  ASSUME NEW n \in Nat, NEW stops, NEW next,
         \A off \in 0..n : off \notin stops => next[off] \in off+1..n
  PROVE  \E g : IsWalk(g, n, stops, next)
<1> DEFINE Solves(g, k) ==
             g = [off \in n-k..n |-> IF off \in stops THEN <<off>>
                                     ELSE <<off>> \o g[next[off]]]
           K == {k \in 0..n : \E g : Solves(g, k)}
<1>1. 0 \in K
  <2> DEFINE g == [off \in n-0..n |-> IF off \in stops THEN <<off>> ELSE <<off>> \o <<>>]
  <2>1. n-0..n = {n} /\ n \in 0..n
    OBVIOUS
  <2>2. n \in stops
    <3>1. n \notin stops => next[n] \in n+1..n
      BY <2>1
    <3>2. n+1..n = {}
      OBVIOUS
    <3> QED BY <3>1, <3>2
  <2>3. g = [off \in n-0..n |-> IF off \in stops THEN <<off>>
                                ELSE <<off>> \o g[next[off]]]
    BY <2>1, <2>2
  <2> HIDE DEF g
  <2>4. 0 \in 0..n
    OBVIOUS
  <2> QED BY <2>3, <2>4
<1>2. ASSUME NEW k \in 1..n, k-1 \in K PROVE k \in K
  <2>1. PICK g : Solves(g, k-1)
    BY <1>2
  <2> DEFINE first == n - k
             h == [off \in first..n |->
                     IF off = first
                     THEN IF first \in stops THEN <<first>>
                          ELSE <<first>> \o g[next[first]]
                     ELSE g[off]]
  <2>2. /\ first \in 0..n /\ n - (k-1) = first + 1
        /\ first..n = {first} \cup (first+1..n) /\ first \notin first+1..n
    OBVIOUS
  <2> HIDE DEF first
  <2>3. g = [off \in first+1..n |-> IF off \in stops THEN <<off>>
                                    ELSE <<off>> \o g[next[off]]]
    BY <2>1, <2>2
  <2>4. \A off \in first+1..n : h[off] = g[off]
    BY <2>2
  <2>5. ASSUME NEW off \in first..n
        PROVE  h[off] = IF off \in stops THEN <<off>> ELSE <<off>> \o h[next[off]]
    <3>1. off \in 0..n
      BY <2>2
    <3>2. CASE off \in stops
      <4>1. off # first => off \in first+1..n
        BY <2>2
      <4> QED BY <2>3, <2>4, <3>2, <4>1
    <3>3. CASE off \notin stops
      <4>1. next[off] \in off+1..n
        BY <3>1, <3>3
      <4>2. next[off] \in first+1..n
        BY <2>2, <3>1, <4>1
      <4>3. h[next[off]] = g[next[off]]
        BY <2>4, <4>2
      <4>4. off # first => off \in first+1..n
        BY <2>2
      <4>5. off # first => h[off] = <<off>> \o g[next[off]]
        BY <2>3, <2>4, <3>3, <4>4
      <4>6. off = first => h[off] = <<off>> \o g[next[off]]
        BY <3>3
      <4> QED BY <3>3, <4>3, <4>5, <4>6
    <3> QED BY <3>2, <3>3
  <2>6. h = [off \in first..n |-> IF off \in stops THEN <<off>>
                                  ELSE <<off>> \o h[next[off]]]
    <3>1. h = [off \in first..n |-> h[off]]
      OBVIOUS
    <3> HIDE DEF h
    <3> QED BY <2>5, <3>1
  <2>7. Solves(h, k)
    <3> HIDE DEF h
    <3> QED BY <2>6, Zenon DEF first
  <2>8. k \in 0..n
    OBVIOUS
  <2> HIDE DEF h, Solves
  <2> QED BY <2>7, <2>8
<1>3. n \in K
  <2> HIDE DEF K
  <2> QED BY <1>1, <1>2, StepByStep
<1>4. PICK g : Solves(g, n)
  BY <1>3
<1>5. n - n = 0
  OBVIOUS
<1>6. IsWalk(g, n, stops, next)
  BY <1>4, <1>5 DEF IsWalk
<1> QED BY <1>6
=============================================================================
