------------------------------ MODULE WireProofs ------------------------------
(***************************************************************************)
(* What the operators of the wire format do for every option list, number, *)
(* value and representation: options stay sorted, their differences lose   *)
(* nothing, the buffer of a datagram has the right size, a message is read *)
(* as it was built, and a payload has room where the response points to.   *)
(*                                                                         *)
(* Whole lists are packed and read by folds and by a recursive function.   *)
(* SequenceLemmas shows that both exist and turns a fold into the chain of *)
(* its results, one for every prefix of the list; what holds of the whole  *)
(* list is then shown from each prefix to the next one.                    *)
(***************************************************************************)
EXTENDS CoapTransfer, SequenceLemmas

(***************************************************************************)
(* Arithmetic, apart from everything else.                                 *)
(***************************************************************************)
\* What fits 16 or 8 bits is not changed by the conversion to them.
LEMMA SixteenBits ==
  ASSUME NEW n \in Nat, n < 65536
  PROVE  n % 65536 = n
OBVIOUS

LEMMA EightBits ==
  ASSUME NEW n \in Nat, n < 256
  PROVE  n % 256 = n
OBVIOUS

\* A 16-bit number is its two bytes.
LEMMA TwoBytes ==
  ASSUME NEW n \in Nat, n < 65536
  PROVE  /\ n \div 256 \in Nat /\ n \div 256 < 256
         /\ n % 256 \in Nat /\ (n \div 256) * 256 + (n % 256) = n
OBVIOUS

(***************************************************************************)
(* Option lists.                                                           *)
(***************************************************************************)
\* The options of a list have 16-bit numbers.
LEMMA NumbersOfOptions ==
  ASSUME NEW opts \in Seq(Option)
  PROVE  /\ Len(opts) \in Nat
         /\ \A j \in 1..Len(opts) : opts[j].num \in Nat /\ opts[j].num < 65536
<1>1. Len(opts) \in Nat
  BY LenProperties
<1>2. ASSUME NEW o \in Option PROVE o.num \in Nat /\ o.num < 65536
  <2> DEFINE V == Seq(Byte)
  <2>1. Option = [num : OptNum, val : V]
    BY DEF Option
  <2> HIDE DEF V
  <2>2. o.num \in OptNum
    BY <2>1
  <2> QED BY <2>2 DEF OptNum
<1>3. ASSUME NEW j \in 1..Len(opts) PROVE opts[j].num \in Nat /\ opts[j].num < 65536
  <2>1. opts[j] \in Option
    BY ElementOfSeq
  <2> QED BY <1>2, <2>1
<1> QED BY <1>1, <1>3

\* So has a new option.
LEMMA OneOption ==
  ASSUME NEW n \in OptNum, NEW v \in Seq(Byte)
  PROVE  /\ CoAP_option_t(n, v) \in Option
         /\ CoAP_option_t(n, v).num = n /\ n \in Nat
<1> DEFINE V == Seq(Byte)
<1>1. v \in V
  OBVIOUS
<1>2. Option = [num : OptNum, val : V]
  BY DEF Option
<1>3. n \in Nat
  BY DEF OptNum
<1> HIDE DEF V
<1>4. [num |-> n, val |-> v] \in [num : OptNum, val : V]
  BY <1>1
<1> QED BY <1>2, <1>3, <1>4 DEF CoAP_option_t

\* The place for an option is behind all that have its number or a smaller one.
LEMMA InsertPosIsBetween ==
  ASSUME NEW opts \in Seq(Option), Sorted(opts), NEW n \in OptNum
  PROVE  /\ InsertPos(opts, n) \in 1..Len(opts)+1
         /\ \A j \in 1..Len(opts) :
              /\ j < InsertPos(opts, n) => opts[j].num <= n
              /\ j >= InsertPos(opts, n) => n <= opts[j].num
<1>1. Len(opts) \in Nat /\ \A j \in 1..Len(opts) : opts[j].num \in Nat
  BY NumbersOfOptions
<1>2. n \in Nat
  BY DEF OptNum
<1>3. CASE Behind(opts, n) = {}
  <2>1. InsertPos(opts, n) = Len(opts) + 1
    BY <1>3 DEF InsertPos
  <2>2. \A j \in 1..Len(opts) : opts[j].num <= n
    BY <1>1, <1>2, <1>3 DEF Behind
  <2> QED BY <1>1, <2>1, <2>2
<1>4. CASE Behind(opts, n) # {}
  <2> DEFINE p == InsertPos(opts, n)
  <2>1. Behind(opts, n) \subseteq Nat
    BY <1>1 DEF Behind
  <2>2. p \in Behind(opts, n) /\ \A j \in Behind(opts, n) : p <= j
    BY <1>4, <2>1, LeastElement DEF InsertPos
  <2> HIDE DEF p
  <2>3. p \in 1..Len(opts) /\ opts[p].num > n
    BY <2>2 DEF Behind
  <2>4. ASSUME NEW j \in 1..Len(opts), j < p
        PROVE  opts[j].num <= n
    BY <1>1, <1>2, <2>2, <2>3, <2>4 DEF Behind
  <2>5. ASSUME NEW j \in 1..Len(opts), j >= p
        PROVE  n <= opts[j].num
    <3>1. CASE j = p
      BY <1>1, <1>2, <2>3, <3>1
    <3>2. CASE j # p
      <4>1. p < j
        BY <1>1, <2>3, <2>5, <3>2
      <4>2. opts[p].num <= opts[j].num
        BY <2>3, <4>1 DEF Sorted
      <4> QED BY <1>1, <1>2, <2>3, <4>2
    <3> QED BY <3>1, <3>2
  <2>6. p \in 1..Len(opts)+1
    BY <1>1, <2>3
  <2> QED BY <2>4, <2>5, <2>6 DEF p
<1> QED BY <1>3, <1>4

\* An option may be added at any time: it is in the list afterwards, and the
\* list is as sorted as before (CoAP_AppendOptionToList).
THEOREM AppendKeepsSorted ==
  ASSUME NEW opts \in Seq(Option), Sorted(opts),
         NEW n \in OptNum, NEW v \in Seq(Byte)
  PROVE  /\ CoAP_AppendOptionToList(opts, n, v) \in Seq(Option)
         /\ Sorted(CoAP_AppendOptionToList(opts, n, v))
         /\ Len(CoAP_AppendOptionToList(opts, n, v)) = Len(opts) + 1
         /\ CoAP_AppendOptionToList(opts, n, v)[InsertPos(opts, n)]
              = CoAP_option_t(n, v)
<1> DEFINE e == CoAP_option_t(n, v)
           p == InsertPos(opts, n)
           new == CoAP_AppendOptionToList(opts, n, v)
<1>1. Len(opts) \in Nat /\ \A j \in 1..Len(opts) : opts[j].num \in Nat
  BY NumbersOfOptions
<1>2. /\ p \in 1..Len(opts)+1
      /\ \A j \in 1..Len(opts) : /\ j < p => opts[j].num <= n
                                 /\ j >= p => n <= opts[j].num
  BY InsertPosIsBetween
<1>3. e \in Option /\ e.num = n /\ n \in Nat
  BY OneOption
<1> HIDE DEF e, p
<1>4. /\ new \in Seq(Option) /\ Len(new) = Len(opts) + 1
      /\ \A j \in 1..Len(opts)+1 :
           new[j] = IF j < p THEN opts[j] ELSE IF j = p THEN e ELSE opts[j-1]
  <2>1. new = InsertAt(opts, p, e)
    BY DEF CoAP_AppendOptionToList, p, e
  <2>2. p \in 1..Len(opts)+1 /\ e \in Option
    BY <1>2, <1>3
  <2> DEFINE put == InsertAt(opts, p, e)
  <2> HIDE DEF new
  <2>3. /\ put \in Seq(Option) /\ Len(put) = Len(opts) + 1
        /\ \A j \in 1..Len(opts)+1 :
             put[j] = IF j < p THEN opts[j] ELSE IF j = p THEN e ELSE opts[j-1]
    <3>1. opts \in Seq(Option)
      OBVIOUS
    <3> HIDE DEF new
    <3> QED BY ONLY <2>2, <3>1, InsertAtProperties
  <2>4. new = put
    BY <2>1
  <2> HIDE DEF put
  <2> QED BY <2>3, <2>4
<1> HIDE DEF new
<1>5. ASSUME NEW i \in 1..Len(new), NEW j \in 1..Len(new), i < j
      PROVE  new[i].num <= new[j].num
  <2>1. CASE j < p
    <3>1. i \in 1..Len(opts) /\ j \in 1..Len(opts) /\ i < p
      BY <1>1, <1>2, <1>4, <1>5, <2>1
    <3> QED BY <1>4, <1>5, <2>1, <3>1 DEF Sorted
  <2>2. CASE j = p
    <3>1. i \in 1..Len(opts) /\ i < p
      BY <1>1, <1>2, <1>4, <1>5, <2>2
    <3> QED BY <1>2, <1>3, <1>4, <2>2, <3>1
  <2>3. CASE j > p
    <3>1. j-1 \in 1..Len(opts) /\ j-1 >= p /\ new[j] = opts[j-1]
      BY <1>1, <1>2, <1>4, <2>3
    <3>2. CASE i < p
      <4>1. i \in 1..Len(opts) /\ i < j-1 /\ new[i] = opts[i]
        BY <1>1, <1>2, <1>4, <2>3, <3>2
      <4> QED BY <3>1, <4>1 DEF Sorted
    <3>3. CASE i = p
      BY <1>2, <1>3, <1>4, <3>1, <3>3
    <3>4. CASE i > p
      <4>1. i-1 \in 1..Len(opts) /\ i-1 < j-1 /\ new[i] = opts[i-1]
        BY <1>1, <1>2, <1>4, <1>5, <3>4
      <4> QED BY <3>1, <4>1 DEF Sorted
    <3> QED BY <1>2, <1>4, <3>2, <3>3, <3>4
  <2> QED BY <1>2, <1>4, <2>1, <2>2, <2>3
<1>6. Sorted(new)
  BY <1>5 DEF Sorted
<1>7. new[p] = e
  BY <1>1, <1>2, <1>4
<1> QED BY <1>4, <1>6, <1>7 DEF new, p, e

\* Taking any option out leaves the others sorted
\* (CoAP_RemoveOptionFromList).
THEOREM RemoveKeepsSorted ==
  ASSUME NEW opts \in Seq(Option), Sorted(opts), NEW i \in 1..Len(opts)
  PROVE  /\ CoAP_RemoveOptionFromList(opts, i) \in Seq(Option)
         /\ Sorted(CoAP_RemoveOptionFromList(opts, i))
<1> DEFINE new == CoAP_RemoveOptionFromList(opts, i)
<1>1. Len(opts) \in Nat
  BY LenProperties
<1>2. /\ new \in Seq(Option) /\ Len(new) = Len(opts) - 1
      /\ \A j \in 1..Len(opts)-1 : new[j] = IF j < i THEN opts[j] ELSE opts[j+1]
  BY RemoveAtProperties DEF CoAP_RemoveOptionFromList
<1> HIDE DEF new
<1>3. ASSUME NEW j \in 1..Len(new), NEW k \in 1..Len(new), j < k
      PROVE  new[j].num <= new[k].num
  <2> DEFINE Old(x) == IF x < i THEN x ELSE x + 1
  <2>1. new[j] = opts[Old(j)] /\ new[k] = opts[Old(k)]
    BY <1>2
  <2>2. Old(j) \in 1..Len(opts) /\ Old(k) \in 1..Len(opts) /\ Old(j) < Old(k)
    BY <1>1, <1>2, <1>3
  <2> HIDE DEF Old
  <2> QED BY <2>1, <2>2 DEF Sorted
<1> QED BY <1>2, <1>3 DEF Sorted, new

(***************************************************************************)
(* One option on the wire.                                                 *)
(***************************************************************************)
\* The differences of a sorted list do not wrap.
LEMMA DeltaNeverWraps ==
  ASSUME NEW opts \in Seq(Option), Sorted(opts), NEW i \in 1..Len(opts)
  PROVE  /\ Delta(opts, i) \in OptNum
         /\ (IF i = 1 THEN 0 ELSE opts[i-1].num) + Delta(opts, i) = opts[i].num
<1> DEFINE last == IF i = 1 THEN 0 ELSE opts[i-1].num
<1>1. /\ Len(opts) \in Nat
      /\ \A j \in 1..Len(opts) : opts[j].num \in Nat /\ opts[j].num < 65536
  BY NumbersOfOptions
<1>2. last \in Nat /\ last <= opts[i].num
  <2>1. CASE i = 1
    BY <1>1, <2>1
  <2>2. CASE i # 1
    <3>1. i-1 \in 1..Len(opts) /\ i-1 < i
      BY <1>1, <2>2
    <3> QED BY <1>1, <2>2, <3>1 DEF Sorted
  <2> QED BY <2>1, <2>2
<1>3. Delta(opts, i) = (opts[i].num - last) % 65536
  BY DEF Delta
<1> HIDE DEF last
<1>4. opts[i].num - last \in Nat /\ opts[i].num - last < 65536
  BY <1>1, <1>2
<1>5. Delta(opts, i) = opts[i].num - last
  BY <1>3, <1>4, SixteenBits
<1>6. last + Delta(opts, i) = opts[i].num
  BY <1>1, <1>2, <1>5
<1>7. Delta(opts, i) \in OptNum
  BY <1>4, <1>5 DEF OptNum
<1> QED BY <1>6, <1>7 DEF last

\* The sums of the first 0, 1, 2, ... differences of a list.
DeltaSums(opts) ==
  LET sum[k \in 0..Len(opts)] == IF k = 0 THEN 0 ELSE sum[k-1] + Delta(opts, k)
  IN sum

\* However long a sorted list is, and however its numbers repeat or jump, the
\* differences up to an option add up to its number, with no carry lost in
\* their 16 bits: a receiver that only adds finds every number again
\* (pack_OptionsFromList, parse_OptionsFromRaw).
THEOREM DeltasAddUp ==
  ASSUME NEW opts \in Seq(Option), Sorted(opts), NEW i \in 1..Len(opts)
  PROVE  DeltaSums(opts)[i] = opts[i].num
<1> DEFINE n == Len(opts)
           Number(k) == IF k = 0 THEN 0 ELSE opts[k].num
           Solves(f) == f = [k \in 0..n |->
                               IF k = 0 THEN 0 ELSE f[k-1] + Delta(opts, k)]
           sums == DeltaSums(opts)
           S == {k \in 0..n : sums[k] = Number(k)}
<1>1. /\ n \in Nat
      /\ \A k \in 1..n :
           /\ k # 0 /\ k \in 0..n /\ k-1 \in 0..n /\ (k-1 = 0 <=> k = 1)
           /\ Number(k-1) = IF k = 1 THEN 0 ELSE opts[k-1].num
  BY LenProperties
<1>2. \A k \in 1..n : Number(k-1) + Delta(opts, k) = Number(k)
  BY <1>1, DeltaNeverWraps
<1>3. Solves(sums)
  <2> DEFINE g == [k \in 0..n |-> Number(k)]
  <2>1. \A k \in 0..n :
          g[k] = IF k = 0 THEN 0 ELSE g[k-1] + Delta(opts, k)
    <3>1. \A k \in 0..n : k = 0 \/ k \in 1..n
      BY <1>1
    <3> HIDE DEF n
    <3> QED BY <1>1, <1>2, <3>1
  <2>2. Solves(g)
    <3> HIDE DEF n, Number
    <3> QED BY <2>1
  <2>3. \E f : Solves(f)
    <3> HIDE DEF Solves
    <3> QED BY <2>2
  <2>4. sums = CHOOSE f : Solves(f)
    BY DEF DeltaSums
  <2> HIDE DEF Solves, sums
  <2> QED BY <2>3, <2>4
<1>4. \A k \in 0..n : sums[k] = IF k = 0 THEN 0 ELSE sums[k-1] + Delta(opts, k)
  <2> HIDE DEF sums, n
  <2> QED BY <1>3
<1> HIDE DEF sums, n, Solves
<1>5. 0 \in S
  BY <1>1, <1>4
<1>6. ASSUME NEW k \in 1..n, k-1 \in S
      PROVE  k \in S
  <2>1. sums[k-1] = Number(k-1) /\ sums[k] = sums[k-1] + Delta(opts, k)
    <3> HIDE DEF Number
    <3> QED BY <1>1, <1>4, <1>6
  <2>2. sums[k] = Number(k)
    <3> HIDE DEF Number
    <3> QED BY <1>2, <2>1
  <2> QED BY <1>1, <2>2
<1>7. 0..n \subseteq S
  <2> HIDE DEF S
  <2> QED BY <1>1, <1>5, <1>6, StepByStep
<1>8. i \in 1..n /\ i \in 0..n /\ i # 0
  BY <1>1 DEF n
<1> QED BY <1>7, <1>8 DEF sums

\* What is written for a number, by its size.
LEMMA ExtensionCases ==
  ASSUME NEW n \in OptNum
  PROVE  /\ n \in Nat /\ n < 65536
         /\ n < 13 => Field(n) = n /\ Extension(n) = <<>>
         /\ n >= 13 /\ n < 269 => Field(n) = 13 /\ Extension(n) = <<n - 13>>
         /\ n >= 269 =>
              /\ Field(n) = 14
              /\ Extension(n) = <<(n - 269) \div 256, (n - 269) % 256>>
<1>1. n \in Nat /\ n < 65536
  BY DEF OptNum
<1>2. CASE n < 13
  <2>1. Field(n) = n /\ Field(n) # 13 /\ Field(n) # 14
    BY <1>1, <1>2 DEF Field
  <2> QED BY <1>1, <1>2, <2>1 DEF Extension
<1>3. CASE n >= 13 /\ n < 269
  <2>1. Field(n) = 13
    BY <1>1, <1>3 DEF Field
  <2>2. n - 13 \in Nat /\ n - 13 < 256
    BY <1>1, <1>3
  <2>3. (n - 13) % 256 = n - 13
    BY <2>2, EightBits
  <2> QED BY <1>1, <1>3, <2>1, <2>3 DEF Extension
<1>4. CASE n >= 269
  <2>1. Field(n) = 14
    BY <1>1, <1>4 DEF Field
  <2>2. n - 269 \in Nat /\ n - 269 < 65536
    BY <1>1, <1>4
  <2>3. ((n - 269) \div 256) % 256 = (n - 269) \div 256
    BY <2>2, TwoBytes, EightBits
  <2> QED BY <1>1, <1>4, <2>1, <2>3 DEF Extension
<1> QED BY <1>1, <1>2, <1>3, <1>4

\* Every number, whatever is in front of it and behind it, is read as it was
\* written, and the reader steps over just the bytes that were written for it.
THEOREM NumbersReadBack ==
  ASSUME NEW n \in OptNum, NEW raw, NEW off \in Nat,
         \A k \in 1..Len(Extension(n)) : raw[off + k] = Extension(n)[k]
  PROVE  /\ Extended(raw, off, Field(n)) = n
         /\ ExtendedBy(Field(n)) = Len(Extension(n))
<1>1. n \in Nat /\ n < 65536
  BY ExtensionCases
<1>2. CASE n < 13
  <2>1. Field(n) = n /\ n # 13 /\ n # 14 /\ Extension(n) = <<>>
    BY <1>1, <1>2, ExtensionCases
  <2> QED BY <2>1 DEF Extended, ExtendedBy
<1>3. CASE n >= 13 /\ n < 269
  <2>1. Field(n) = 13 /\ Extension(n) = <<n - 13>>
    BY <1>3, ExtensionCases
  <2>2. Len(Extension(n)) = 1 /\ raw[off + 1] = n - 13
    BY <2>1
  <2> QED BY <1>1, <2>1, <2>2 DEF Extended, ExtendedBy
<1>4. CASE n >= 269
  <2>1. Field(n) = 14 /\ Extension(n) = <<(n - 269) \div 256, (n - 269) % 256>>
    BY <1>4, ExtensionCases
  <2>2. /\ Len(Extension(n)) = 2
        /\ raw[off + 1] = (n - 269) \div 256
        /\ raw[off + 2] = (n - 269) % 256
    BY <2>1
  <2> DEFINE m == n - 269
             hi == m \div 256
             lo == m % 256
  <2>3. m \in Nat /\ m = hi * 256 + lo /\ hi \in Int /\ lo \in Int
    <3>1. m \in Nat /\ m < 65536
      BY <1>1, <1>4
    <3> HIDE DEF m
    <3>2. (m \div 256) * 256 + (m % 256) = m /\ m \div 256 \in Nat /\ m % 256 \in Nat
      BY <3>1, TwoBytes
    <3> QED BY <3>1, <3>2
  <2>4. hi * 256 + lo + 269 = n
    <3>1. m + 269 = n
      BY <1>1
    <3> HIDE DEF m, hi, lo
    <3> QED BY <2>3, <3>1
  <2>5. n % 65536 = n
    BY <1>1, SixteenBits
  <2>6. (hi * 256 + lo + 269) % 65536 = n
    BY <2>4, <2>5
  <2>7. raw[off + 1] = hi /\ raw[off + 2] = lo
    BY <2>2
  <2> HIDE DEF m, hi, lo
  <2> QED BY <2>1, <2>2, <2>6, <2>7 DEF Extended, ExtendedBy
<1> QED BY <1>1, <1>2, <1>3, <1>4

\* One part behind the other.
LEMMA Concatenated ==
  ASSUME NEW T, NEW a \in Seq(T), NEW b \in Seq(T)
  PROVE  a \o b \in Seq(T) /\ Len(a \o b) = Len(a) + Len(b)
BY ConcatProperties

\* The loop that works out the size of the buffer and the one that fills it
\* agree on every option (CoAP_NeededMem4PackOptions, pack_OptionsFromList).
THEOREM OptionFitsBuffer ==
  ASSUME NEW delta \in OptNum, NEW S, NEW val \in Seq(S), Len(val) \in OptNum
  PROVE  Len(PackOption(delta, val)) = OptionSize(delta, Len(val))
<1>1. ASSUME NEW n \in OptNum
      PROVE  /\ Extension(n) \in Seq(Int)
             /\ Len(Extension(n)) = ExtensionSize(n)
  <2>1. n \in Nat
    BY ExtensionCases
  <2>2. CASE n < 13
    <3>1. Extension(n) = <<>>
      BY <2>2, ExtensionCases
    <3> QED BY <2>1, <2>2, <3>1 DEF ExtensionSize
  <2>3. CASE n >= 13 /\ n < 269
    <3>1. Extension(n) = <<n - 13>>
      BY <2>3, ExtensionCases
    <3> QED BY <2>1, <2>3, <3>1 DEF ExtensionSize
  <2>4. CASE n >= 269
    <3>1. Extension(n) = <<(n - 269) \div 256, (n - 269) % 256>>
      BY <2>4, ExtensionCases
    <3>2. (n - 269) \div 256 \in Int /\ (n - 269) % 256 \in Int
      BY <2>1, <2>4
    <3> QED BY <2>1, <2>4, <3>1, <3>2 DEF ExtensionSize
  <2> QED BY <2>1, <2>2, <2>3, <2>4
<1> DEFINE head == <<16 * Field(delta) + Field(Len(val))>>
           len == Len(val)
           T == S \cup Int \cup {head[1]}
<1>2. head \in Seq(T) /\ Len(head) = 1
  OBVIOUS
<1>3. /\ Extension(delta) \in Seq(T) /\ Extension(len) \in Seq(T)
      /\ val \in Seq(T)
  <2> HIDE DEF T
  <2>1. Int \subseteq T /\ S \subseteq T
    BY DEF T
  <2>2. Seq(Int) \subseteq Seq(T) /\ Seq(S) \subseteq Seq(T)
    BY <2>1
  <2> QED BY <1>1, <2>2
<1>4. Len(Extension(delta)) \in Nat /\ Len(Extension(len)) \in Nat /\ Len(val) \in Nat
  BY <1>3, LenProperties
<1>5. PackOption(delta, val) = ((head \o Extension(delta)) \o Extension(len)) \o val
  BY DEF PackOption
<1> HIDE DEF head, T
<1> DEFINE two == head \o Extension(delta)
           three == two \o Extension(len)
<1>6. two \in Seq(T) /\ Len(two) = 1 + Len(Extension(delta))
  BY <1>2, <1>3, Concatenated
<1> HIDE DEF two
<1>7. three \in Seq(T) /\ Len(three) = 1 + Len(Extension(delta)) + Len(Extension(len))
  BY <1>3, <1>6, Concatenated
<1> HIDE DEF three
<1>8. Len(three \o val) = Len(three) + Len(val)
  BY <1>3, <1>7, Concatenated
<1>9. PackOption(delta, val) = three \o val
  BY <1>5 DEF two, three
<1>10. Len(Extension(delta)) = ExtensionSize(delta) /\ Len(Extension(len)) = ExtensionSize(len)
  BY <1>1
<1> QED BY <1>4, <1>7, <1>8, <1>9, <1>10 DEF OptionSize

(***************************************************************************)
(* Payloads.                                                               *)
(***************************************************************************)
\* What PayloadFits asks of a response that carries n bytes.
HasRoom(b, n) == b.held = PayloadBlocks(b) /\ n <= b.room /\ b.size <= b.room

\* A copy of n bytes has room, in the old buffer or in a new block, and the
\* block it replaces is given back.
LEMMA CopiedHasRoom ==
  ASSUME NEW b \in Buffer, HasRoom(b, 0), NEW n \in Nat
  PROVE  Copied(b, n) \in Buffer /\ HasRoom(Copied(b, n), n)
<1>1. CASE b.size < n
  <2>1. Copied(b, n) = [at |-> "HEAP", size |-> n, room |-> n, held |-> 1]
    BY <1>1 DEF Copied, NewBlock, HeldAfterFree, HasRoom, Buffer, PayloadBlocks
  <2> QED BY <2>1 DEF Buffer, HasRoom, PayloadBlocks
<1>2. CASE ~(b.size < n)
  <2>1. Copied(b, n) = [b EXCEPT !.size = n]
    BY <1>2 DEF Copied
  <2>2. n <= b.room
    BY <1>2 DEF HasRoom, Buffer
  <2> QED BY <2>1, <2>2 DEF Buffer, HasRoom, PayloadBlocks
<1> QED BY <1>1, <1>2

\* However often a response is filled: its payload is the block of the
\* representation that was cut out, it has room where the response points to,
\* and the response owns that block of the pool alone (CoAP_SetPayload).  Bytes
\* that are in place already must have had room, and bytes that stay may not
\* take the place of a block of the pool.
THEOREM FilledHasRoom ==
  ASSUME NEW m, NEW b \in Buffer, HasRoom(b, 0), NEW opts,
         NEW S, NEW data \in Seq(S),
         NEW cut, cut.from \in Nat, cut.size \in Nat \ {0},
         cut.left \in Nat \ {0}, cut.from + cut.left = Len(data),
         NEW use \in {"IN_PLACE", "VOLATILE", "STATIC"},
         use = "IN_PLACE" => Len(data) <= b.room,
         use = "STATIC" => b.at # "HEAP"
  PROVE  LET n == BytesToSend(cut)
             filled == Filled(m, b, data, cut, use, opts)
         IN  /\ n \in 1..cut.size /\ cut.from + n <= Len(data)
             /\ Len(SubSeq(data, cut.from + 1, cut.from + n)) = n
             /\ filled.buf \in Buffer /\ HasRoom(filled.buf, n)
<1> DEFINE n == BytesToSend(cut)
           from == cut.from
<1>0. Len(data) \in Nat /\ from \in Nat
  BY LenProperties
<1>1. n \in Nat /\ n \in 1..cut.size /\ from + n <= Len(data)
  BY <1>0 DEF BytesToSend
<1>2. Filled(m, b, data, cut, use, opts).buf = NewBuffer(b, use, n)
  BY DEF Filled
<1> HIDE DEF n, from
<1>3. Len(SubSeq(data, from + 1, from + n)) = n
  <2>1. from + 1 \in 1..Len(data)+1 /\ from + n \in (from + 1) - 1..Len(data)
    BY <1>0, <1>1
  <2>2. Len(SubSeq(data, from + 1, from + n)) = (from + n) - (from + 1) + 1
    BY <2>1, PartOfSeq
  <2> QED BY <1>0, <1>1, <2>2
<1>4. NewBuffer(b, use, n) \in Buffer /\ HasRoom(NewBuffer(b, use, n), n)
  <2>1. CASE use = "IN_PLACE"
    <3>1. NewBuffer(b, use, n) = b /\ n <= b.room
      BY <1>0, <1>1, <2>1 DEF NewBuffer, Buffer
    <3> QED BY <3>1 DEF HasRoom
  <2>2. CASE use = "VOLATILE"
    BY <1>1, <2>2, CopiedHasRoom DEF NewBuffer
  <2>3. CASE use = "STATIC"
    <3>1. NewBuffer(b, use, n) = [b EXCEPT !.at = "STATIC", !.size = 0, !.room = n]
      BY <2>3 DEF NewBuffer, Pointed
    <3>2. b.held = 0
      BY <2>3 DEF HasRoom, PayloadBlocks
    <3>3. NewBuffer(b, use, n) = [at |-> "STATIC", size |-> 0, room |-> n, held |-> 0]
      BY <3>1, <3>2 DEF Buffer
    <3> QED BY <1>1, <3>3 DEF Buffer, HasRoom, PayloadBlocks
  <2> QED BY <2>1, <2>2, <2>3
<1> QED BY <1>1, <1>2, <1>3, <1>4 DEF n, from

\* The cut for the block a client asks for is a proper one whenever it is not
\* refused: it starts and ends inside the representation, is not larger than
\* asked for, and is marked as the last one just when nothing is left behind it.
THEOREM BlockIsOfRepresentation ==
  ASSUME NEW block, block.num \in Nat, block.size \in Nat \ {0}, block.more = FALSE,
         NEW len \in Nat, BlockToSend(block, len).left > 0
  PROVE  LET cut == BlockToSend(block, len)
         IN  /\ cut.size \in 1..MAX_PAYLOAD_SIZE /\ cut.size <= block.size
             /\ cut.from \in Nat /\ cut.left \in Nat \ {0}
             /\ cut.from = cut.num * cut.size /\ cut.from + cut.left = len
             /\ cut.more <=> cut.from + BytesToSend(cut) < len
<1> DEFINE size == IF block.size > MAX_PAYLOAD_SIZE THEN MAX_PAYLOAD_SIZE
                   ELSE block.size
           from == size * block.num
           left == len - from
           more == left > size \/ block.more
<1>1. BlockToSend(block, len) =
        [num |-> block.num, size |-> size, left |-> left, from |-> from,
         more |-> more]
  BY DEF BlockToSend
<1>2. MAX_PAYLOAD_SIZE \in Nat \ {0}
  BY WireAssumption
<1>3. size \in 1..MAX_PAYLOAD_SIZE /\ size <= block.size
  BY <1>2
<1>4. from \in Nat /\ from = block.num * size
  <2>1. size \in Nat
    BY <1>2
  <2> HIDE DEF size
  <2> QED BY <2>1
<1> HIDE DEF from, more
<1>5. left \in Int /\ left > 0 /\ from + left = len
  BY <1>1, <1>4
<1> HIDE DEF left, size
<1>6. BytesToSend(BlockToSend(block, len)) = IF left > size THEN size ELSE left
  BY <1>1 DEF BytesToSend
<1>7. BlockToSend(block, len).more <=> left > size
  <2>1. BlockToSend(block, len).more = more
    BY <1>1
  <2>2. more <=> left > size
    BY Zenon DEF more
  <2> QED BY <2>1, <2>2, Zenon
<1>8. left > size <=> from + (IF left > size THEN size ELSE left) < len
  BY <1>2, <1>3, <1>4, <1>5
<1> QED BY <1>1, <1>3, <1>4, <1>5, <1>6, <1>7, <1>8

(***************************************************************************)
(* A list of options on the wire.                                          *)
(***************************************************************************)
\* A list that can be sent: sorted, no value too long, and of a size that
\* fits 16 bits however its options are packed.
Packable(opts) ==
  /\ opts \in Seq(Option) /\ Sorted(opts)
  /\ \A i \in 1..Len(opts) : Len(opts[i].val) <= MAX_OPTION_VALUE_SIZE
  /\ Len(opts) * (MAX_OPTION_VALUE_SIZE + 5) < 65536

\* The number and the value of its options.
LEMMA PackableOption ==
  ASSUME NEW opts, Packable(opts), NEW i \in 1..Len(opts)
  PROVE  /\ opts[i] \in Option /\ opts[i].num \in OptNum
         /\ opts[i].val \in Seq(Byte) /\ Len(opts[i].val) \in OptNum
         /\ Len(opts[i].val) <= MAX_OPTION_VALUE_SIZE
         /\ Delta(opts, i) \in OptNum
<1>1. opts \in Seq(Option) /\ Sorted(opts) /\ Len(opts[i].val) <= MAX_OPTION_VALUE_SIZE
  BY DEF Packable
<1>2. opts[i] \in Option
  BY <1>1, ElementOfSeq
<1> DEFINE V == Seq(Byte)
           o == opts[i]
<1>3. o.num \in OptNum /\ o.val \in V
  <2>1. Option = [num : OptNum, val : V]
    BY DEF Option
  <2>2. o \in Option
    BY <1>2
  <2> HIDE DEF V, o
  <2> QED BY <2>1, <2>2
<1>4. Len(o.val) \in Nat
  BY <1>3, LenProperties
<1>5. Len(o.val) \in OptNum
  BY <1>1, <1>4, WireAssumption DEF OptNum
<1> QED BY <1>1, <1>2, <1>3, <1>5, DeltaNeverWraps

LEMMA ExtensionIsBytes ==
  ASSUME NEW n \in OptNum
  PROVE  /\ Extension(n) \in Seq(Byte) /\ Len(Extension(n)) \in 0..2
         /\ Field(n) \in 0..14
<1>1. n \in Nat /\ n < 65536
  BY ExtensionCases
<1>2. CASE n < 13
  <2>1. Field(n) = n /\ Extension(n) = <<>>
    BY <1>2, ExtensionCases
  <2> QED BY <1>1, <1>2, <2>1
<1>3. CASE n >= 13 /\ n < 269
  <2>1. Field(n) = 13 /\ Extension(n) = <<n - 13>>
    BY <1>3, ExtensionCases
  <2>2. n - 13 \in Byte
    BY <1>1, <1>3 DEF Byte
  <2> QED BY <2>1, <2>2
<1>4. CASE n >= 269
  <2>1. Field(n) = 14 /\ Extension(n) = <<(n - 269) \div 256, (n - 269) % 256>>
    BY <1>4, ExtensionCases
  <2> DEFINE m == n - 269
  <2>2. m \div 256 \in Byte /\ m % 256 \in Byte
    <3>1. m \in Nat /\ m < 65536
      BY <1>1, <1>4
    <3> HIDE DEF m
    <3> QED BY <3>1 DEF Byte
  <2> QED BY <2>1, <2>2
<1> QED BY <1>1, <1>2, <1>3, <1>4

\* The first byte of an option is its two fields, and no marker.
LEMMA HeaderByte ==
  ASSUME NEW a \in 0..14, NEW b \in 0..14
  PROVE  /\ 16 * a + b \in 0..238
         /\ (16 * a + b) \div 16 = a /\ (16 * a + b) % 16 = b
OBVIOUS

\* The parts of a packed option.
LEMMA PackedOption ==
  ASSUME NEW delta \in OptNum, NEW val \in Seq(Byte), Len(val) \in OptNum
  PROVE  LET p == PackOption(delta, val)
             d == Len(Extension(delta))
             l == Len(Extension(Len(val)))
         IN  /\ p \in Seq(Byte) /\ d \in 0..2 /\ l \in 0..2
             /\ Len(p) = 1 + d + l + Len(val)
             /\ p[1] = 16 * Field(delta) + Field(Len(val))
             /\ \A k \in 1..d : p[1 + k] = Extension(delta)[k]
             /\ \A k \in 1..l : p[1 + d + k] = Extension(Len(val))[k]
             /\ \A k \in 1..Len(val) : p[1 + d + l + k] = val[k]
<1> DEFINE len == Len(val)
           first == 16 * Field(delta) + Field(len)
           head == <<first>>
           D == Extension(delta)
           L == Extension(len)
           two == head \o D
           three == two \o L
           p == three \o val
<1>1. D \in Seq(Byte) /\ Len(D) \in 0..2 /\ L \in Seq(Byte) /\ Len(L) \in 0..2
  BY ExtensionIsBytes
<1>2. len \in Nat
  BY DEF OptNum
<1>3. head \in Seq(Byte) /\ Len(head) = 1 /\ head[1] = first
  <2>1. Field(delta) \in 0..14 /\ Field(len) \in 0..14
    BY ExtensionIsBytes
  <2>2. first \in 0..238
    BY <2>1, HeaderByte
  <2>3. first \in Byte
    BY <2>2 DEF Byte
  <2> HIDE DEF first
  <2> QED BY <2>3
<1>4. PackOption(delta, val) = p
  BY DEF PackOption
<1> HIDE DEF head, D, L, len, first
<1>5. /\ two \in Seq(Byte) /\ Len(two) = 1 + Len(D)
      /\ \A j \in 1..1+Len(D) : two[j] = IF j <= 1 THEN head[j] ELSE D[j-1]
  <2>1. /\ two \in Seq(Byte) /\ Len(two) = Len(head) + Len(D)
        /\ \A j \in 1..Len(head)+Len(D) :
             two[j] = IF j <= Len(head) THEN head[j] ELSE D[j-Len(head)]
    BY <1>1, <1>3, ConcatProperties
  <2> HIDE DEF two
  <2> QED BY <1>3, <2>1
<1> HIDE DEF two
<1>6. /\ three \in Seq(Byte) /\ Len(three) = 1 + Len(D) + Len(L)
      /\ \A j \in 1..1+Len(D)+Len(L) :
           three[j] = IF j <= 1+Len(D) THEN two[j] ELSE L[j-(1+Len(D))]
  <2>1. /\ three \in Seq(Byte) /\ Len(three) = Len(two) + Len(L)
        /\ \A j \in 1..Len(two)+Len(L) :
             three[j] = IF j <= Len(two) THEN two[j] ELSE L[j-Len(two)]
    BY <1>1, <1>5, ConcatProperties
  <2> HIDE DEF three
  <2> QED BY <1>5, <2>1
<1> HIDE DEF three
<1>7. /\ p \in Seq(Byte) /\ Len(p) = 1 + Len(D) + Len(L) + len
      /\ \A j \in 1..1+Len(D)+Len(L)+len :
           p[j] = IF j <= 1+Len(D)+Len(L) THEN three[j] ELSE val[j-(1+Len(D)+Len(L))]
  <2>1. /\ p \in Seq(Byte) /\ Len(p) = Len(three) + Len(val)
        /\ \A j \in 1..Len(three)+Len(val) :
             p[j] = IF j <= Len(three) THEN three[j] ELSE val[j-Len(three)]
    <3>1. val \in Seq(Byte) /\ three \in Seq(Byte)
      BY <1>6
    <3> QED BY <3>1, ConcatProperties
  <2> HIDE DEF p
  <2> QED BY <1>6, <2>1 DEF len
<1> HIDE DEF p
<1>8. p[1] = first
  <2>1. 1 \in 1..1+Len(D)+Len(L)+len /\ 1 \in 1..1+Len(D)+Len(L) /\ 1 \in 1..1+Len(D)
    BY <1>1, <1>2
  <2>2. p[1] = three[1] /\ three[1] = two[1] /\ two[1] = head[1]
    BY <1>1, <1>5, <1>6, <1>7, <2>1
  <2> QED BY <1>3, <2>2
<1>9. ASSUME NEW k \in 1..Len(D) PROVE p[1+k] = D[k]
  <2>1. /\ 1+k \in 1..1+Len(D)+Len(L)+len /\ 1+k \in 1..1+Len(D)+Len(L)
        /\ 1+k \in 1..1+Len(D) /\ (1+k)-1 = k /\ ~(1+k <= 1)
    BY <1>1, <1>2
  <2>2. p[1+k] = three[1+k]
    BY <1>1, <1>7, <2>1
  <2>3. three[1+k] = two[1+k]
    BY <1>1, <1>6, <2>1
  <2>4. two[1+k] = D[k]
    BY <1>5, <2>1
  <2> QED BY <2>2, <2>3, <2>4
<1>10. ASSUME NEW k \in 1..Len(L) PROVE p[1+Len(D)+k] = L[k]
  <2>1. /\ 1+Len(D)+k \in 1..1+Len(D)+Len(L)+len /\ 1+Len(D)+k \in 1..1+Len(D)+Len(L)
        /\ (1+Len(D)+k)-(1+Len(D)) = k /\ ~(1+Len(D)+k <= 1+Len(D))
    BY <1>1, <1>2
  <2>2. p[1+Len(D)+k] = three[1+Len(D)+k]
    BY <1>1, <1>7, <2>1
  <2>3. three[1+Len(D)+k] = L[k]
    BY <1>6, <2>1
  <2> QED BY <2>2, <2>3
<1>11. ASSUME NEW k \in 1..len PROVE p[1+Len(D)+Len(L)+k] = val[k]
  <2>1. /\ 1+Len(D)+Len(L)+k \in 1..1+Len(D)+Len(L)+len
        /\ (1+Len(D)+Len(L)+k)-(1+Len(D)+Len(L)) = k
        /\ ~(1+Len(D)+Len(L)+k <= 1+Len(D)+Len(L))
    BY <1>1, <1>2
  <2> QED BY <1>7, <2>1
<1> QED BY <1>1, <1>4, <1>7, <1>8, <1>9, <1>10, <1>11 DEF len, D, L, first

\* Packing the options one by one makes a chain, the bytes of the first k.
LEMMA PackedChain ==
  ASSUME NEW opts, Packable(opts)
  PROVE  \E c \in [0..Len(opts) -> Seq(Byte)] :
           /\ c[0] = <<>> /\ c[Len(opts)] = pack_OptionsFromList(opts)
           /\ \A k \in 1..Len(opts) :
                c[k] = c[k-1] \o PackOption(Delta(opts, k), opts[k].val)
<1> DEFINE A == Seq(Byte)
           B == 1..Len(opts)
           q == [i \in 1..Len(opts) |-> i]
           Op(a, b) == a \o PackOption(Delta(opts, b), opts[b].val)
           F == [p \in A \X B |-> Op(p[1], p[2])]
           P(h) == h = [s \in SUBSET DOMAIN q |->
                          IF s = {} THEN <<>> ELSE Op(h[s \ {Max(s)}], q[Max(s)])]
           H == CHOOSE h : P(h)
<1>1. /\ <<>> \in A /\ q \in Seq(B) /\ Len(q) = Len(opts)
      /\ \A k \in 1..Len(opts) : q[k] = k
      /\ \A a \in A, b \in B : Op(a, b) \in A
  <2>1. Len(opts) \in Nat
    BY LenProperties DEF Packable
  <2>2. ASSUME NEW a \in A, NEW b \in B PROVE Op(a, b) \in A
    <3> DEFINE p == PackOption(Delta(opts, b), opts[b].val)
    <3>1. p \in Seq(Byte)
      BY PackableOption, PackedOption
    <3> HIDE DEF p
    <3>2. a \o p \in Seq(Byte)
      BY <3>1, ConcatProperties
    <3> QED BY <3>2 DEF p
  <2> QED BY <2>1, <2>2
<1>2. pack_OptionsFromList(opts) = H[DOMAIN q]
  BY DEF pack_OptionsFromList, FoldLeft, MapThenFoldSet
<1> HIDE DEF A, B, q, Op
<1>3. F \in [A \X B -> A] /\ \A a \in A, b \in B : F[<<a, b>>] = Op(a, b)
  BY <1>1
<1> HIDE DEF F, H
<1>4. P(H)
  <2>1. PICK g : IsFold(g, A, F, <<>>, q)
    BY <1>1, <1>3, FoldDefined
  <2>2. ASSUME NEW s \in SUBSET DOMAIN q
        PROVE  g[s] = IF s = {} THEN <<>> ELSE Op(g[s \ {Max(s)}], q[Max(s)])
    <3>1. CASE s = {}
      BY <2>1, <3>1 DEF IsFold
    <3>2. CASE s # {}
      <4>1. s \ {Max(s)} \in SUBSET DOMAIN q /\ q[Max(s)] \in B
        BY <1>1, <3>2, LastOfPositions
      <4>2. g[s \ {Max(s)}] \in A
        BY <2>1, <4>1 DEF IsFold
      <4> QED BY <1>3, <2>1, <3>2, <4>1, <4>2 DEF IsFold
    <3> QED BY <3>1, <3>2
  <2>3. g = [s \in SUBSET DOMAIN q |-> g[s]]
    BY <2>1 DEF IsFold
  <2>4. P(g)
    BY <2>2, <2>3
  <2> HIDE DEF P
  <2> QED BY <2>4 DEF H
<1>5. H[{}] = <<>>
  BY <1>4
<1>6. ASSUME NEW s \in SUBSET DOMAIN q, s # {}, H[s \ {Max(s)}] \in A
      PROVE  H[s] = F[<<H[s \ {Max(s)}], q[Max(s)]>>]
  <2>1. q[Max(s)] \in B
    BY <1>1, <1>6, LastOfPositions
  <2> QED BY <1>3, <1>4, <1>6, <2>1
<1> HIDE DEF P
<1>7. PICK c : IsChain(c, A, F, <<>>, q, H[DOMAIN q])
  BY <1>1, <1>3, <1>5, <1>6, FoldChain
<1>8. /\ c \in [0..Len(q) -> A] /\ c[0] = <<>> /\ c[Len(q)] = H[DOMAIN q]
      /\ \A k \in 1..Len(q) : q[k] \in B /\ c[k-1] \in A /\ c[k] = Op(c[k-1], q[k])
  <2>1. /\ c \in [0..Len(q) -> A] /\ c[0] = <<>> /\ c[Len(q)] = H[DOMAIN q]
        /\ \A k \in 1..Len(q) : c[k] = F[<<c[k-1], q[k]>>]
    BY <1>7 DEF IsChain
  <2>2. Len(q) \in Nat /\ \A k \in 1..Len(q) : q[k] \in B
    BY <1>1, LenProperties, ElementOfSeq
  <2>3. \A k \in 1..Len(q) : k-1 \in 0..Len(q)
    BY <2>2
  <2> QED BY <1>3, <2>1, <2>2, <2>3
<1>9. /\ c \in [0..Len(opts) -> Seq(Byte)] /\ c[0] = <<>>
      /\ c[Len(opts)] = pack_OptionsFromList(opts)
  BY <1>1, <1>2, <1>8 DEF A
<1>10. ASSUME NEW k \in 1..Len(opts)
       PROVE  c[k] = c[k-1] \o PackOption(Delta(opts, k), opts[k].val)
  <2>1. c[k] = Op(c[k-1], q[k]) /\ q[k] = k
    BY <1>1, <1>8
  <2> QED BY <2>1 DEF Op
<1> QED BY <1>9, <1>10

\* So many options of so many bytes each.
LEMMA Times ==
  ASSUME NEW W \in Nat, NEW n \in Nat, NEW k \in 0..n
  PROVE  k * W \in Nat /\ k * W <= n * W /\ (k >= 1 => (k-1) * W + W = k * W)
OBVIOUS

\* The size of a packed option, and that it is as it was worked out.
LEMMA PackedSize1 ==
  ASSUME NEW opts, Packable(opts), NEW i \in 1..Len(opts)
  PROVE  /\ PackOption(Delta(opts, i), opts[i].val) \in Seq(Byte)
         /\ Len(PackOption(Delta(opts, i), opts[i].val))
              = OptionSize(Delta(opts, i), Len(opts[i].val))
         /\ OptionSize(Delta(opts, i), Len(opts[i].val)) \in 1..MAX_OPTION_VALUE_SIZE+5
<1> DEFINE d == Delta(opts, i)
           v == opts[i].val
           p == PackOption(d, v)
<1>1. d \in OptNum /\ v \in Seq(Byte) /\ Len(v) \in OptNum /\ Len(v) <= MAX_OPTION_VALUE_SIZE
  BY PackableOption
<1>2. Len(p) = OptionSize(d, Len(v))
  BY <1>1, OptionFitsBuffer
<1> DEFINE a == Len(Extension(d))
           b == Len(Extension(Len(v)))
<1>3. p \in Seq(Byte) /\ a \in 0..2 /\ b \in 0..2 /\ Len(p) = 1 + a + b + Len(v)
  BY <1>1, PackedOption
<1>4. Len(v) \in Nat /\ MAX_OPTION_VALUE_SIZE \in Nat
  BY <1>1, WireAssumption DEF OptNum
<1> HIDE DEF d, v, p, a, b
<1>5. Len(p) \in 1..MAX_OPTION_VALUE_SIZE+5
  BY <1>1, <1>3, <1>4
<1> QED BY <1>2, <1>3, <1>5 DEF d, v, p

\* Neither does the loop that works out the size take more than 16 bits.
LEMMA SizeChain ==
  ASSUME NEW opts, Packable(opts)
  PROVE  \E c \in [0..Len(opts) -> OptNum] :
           /\ c[0] = 0 /\ c[Len(opts)] = CoAP_NeededMem4PackOptions(opts)
           /\ \A k \in 1..Len(opts) :
                c[k] = (c[k-1] + OptionSize(Delta(opts, k), Len(opts[k].val))) % 65536
<1> DEFINE A == OptNum
           B == 1..Len(opts)
           q == [i \in 1..Len(opts) |-> i]
           Op(a, b) == (a + OptionSize(Delta(opts, b), Len(opts[b].val))) % 65536
           F == [p \in A \X B |-> Op(p[1], p[2])]
           P(h) == h = [s \in SUBSET DOMAIN q |->
                          IF s = {} THEN 0 ELSE Op(h[s \ {Max(s)}], q[Max(s)])]
           H == CHOOSE h : P(h)
<1>1. /\ 0 \in A /\ q \in Seq(B) /\ Len(q) = Len(opts)
      /\ \A k \in 1..Len(opts) : q[k] = k
      /\ \A a \in A, b \in B : Op(a, b) \in A
  <2>1. Len(opts) \in Nat
    BY LenProperties DEF Packable
  <2>2. ASSUME NEW a \in A, NEW b \in B PROVE Op(a, b) \in A
    <3>1. OptionSize(Delta(opts, b), Len(opts[b].val)) \in Nat
      BY PackedSize1, WireAssumption
    <3> QED BY <3>1 DEF OptNum
  <2> QED BY <2>1, <2>2 DEF OptNum
<1>2. CoAP_NeededMem4PackOptions(opts) = H[DOMAIN q]
  BY DEF CoAP_NeededMem4PackOptions, FoldLeft, MapThenFoldSet
<1> HIDE DEF A, B, q, Op
<1>3. F \in [A \X B -> A] /\ \A a \in A, b \in B : F[<<a, b>>] = Op(a, b)
  BY <1>1
<1> HIDE DEF F, H
<1>4. P(H)
  <2>1. PICK g : IsFold(g, A, F, 0, q)
    BY <1>1, <1>3, FoldDefined
  <2>2. ASSUME NEW s \in SUBSET DOMAIN q
        PROVE  g[s] = IF s = {} THEN 0 ELSE Op(g[s \ {Max(s)}], q[Max(s)])
    <3>1. CASE s = {}
      BY <2>1, <3>1 DEF IsFold
    <3>2. CASE s # {}
      <4>1. s \ {Max(s)} \in SUBSET DOMAIN q /\ q[Max(s)] \in B
        BY <1>1, <3>2, LastOfPositions
      <4>2. g[s \ {Max(s)}] \in A
        BY <2>1, <4>1 DEF IsFold
      <4> QED BY <1>3, <2>1, <3>2, <4>1, <4>2 DEF IsFold
    <3> QED BY <3>1, <3>2
  <2>3. g = [s \in SUBSET DOMAIN q |-> g[s]]
    BY <2>1 DEF IsFold
  <2>4. P(g)
    BY <2>2, <2>3
  <2> HIDE DEF P
  <2> QED BY <2>4 DEF H
<1>5. H[{}] = 0
  BY <1>4
<1>6. ASSUME NEW s \in SUBSET DOMAIN q, s # {}, H[s \ {Max(s)}] \in A
      PROVE  H[s] = F[<<H[s \ {Max(s)}], q[Max(s)]>>]
  <2>1. q[Max(s)] \in B
    BY <1>1, <1>6, LastOfPositions
  <2> QED BY <1>3, <1>4, <1>6, <2>1
<1> HIDE DEF P
<1>7. PICK c : IsChain(c, A, F, 0, q, H[DOMAIN q])
  BY <1>1, <1>3, <1>5, <1>6, FoldChain
<1>8. /\ c \in [0..Len(q) -> A] /\ c[0] = 0 /\ c[Len(q)] = H[DOMAIN q]
      /\ \A k \in 1..Len(q) : q[k] \in B /\ c[k-1] \in A /\ c[k] = Op(c[k-1], q[k])
  <2>1. /\ c \in [0..Len(q) -> A] /\ c[0] = 0 /\ c[Len(q)] = H[DOMAIN q]
        /\ \A k \in 1..Len(q) : c[k] = F[<<c[k-1], q[k]>>]
    BY <1>7 DEF IsChain
  <2>2. Len(q) \in Nat /\ \A k \in 1..Len(q) : q[k] \in B
    BY <1>1, LenProperties, ElementOfSeq
  <2>3. \A k \in 1..Len(q) : k-1 \in 0..Len(q)
    BY <2>2
  <2> QED BY <1>3, <2>1, <2>2, <2>3
<1>9. c \in [0..Len(opts) -> OptNum] /\ c[0] = 0
      /\ c[Len(opts)] = CoAP_NeededMem4PackOptions(opts)
  BY <1>1, <1>2, <1>8 DEF A
<1>10. ASSUME NEW k \in 1..Len(opts)
       PROVE  c[k] = (c[k-1] + OptionSize(Delta(opts, k), Len(opts[k].val))) % 65536
  <2>1. c[k] = Op(c[k-1], q[k]) /\ q[k] = k
    BY <1>1, <1>8
  <2> QED BY <2>1 DEF Op
<1> QED BY <1>9, <1>10

\* The buffer is made as large as the packed options are.
LEMMA PackedSize ==
  ASSUME NEW opts, Packable(opts)
  PROVE  /\ pack_OptionsFromList(opts) \in Seq(Byte)
         /\ Len(pack_OptionsFromList(opts)) = CoAP_NeededMem4PackOptions(opts)
<1> DEFINE n == Len(opts)
           W == MAX_OPTION_VALUE_SIZE + 5
           Size(k) == OptionSize(Delta(opts, k), Len(opts[k].val))
           Pack(k) == PackOption(Delta(opts, k), opts[k].val)
<1>1. PICK c \in [0..n -> Seq(Byte)] :
        /\ c[0] = <<>> /\ c[n] = pack_OptionsFromList(opts)
        /\ \A k \in 1..n : c[k] = c[k-1] \o Pack(k)
  BY PackedChain
<1>2. PICK d \in [0..n -> OptNum] :
        /\ d[0] = 0 /\ d[n] = CoAP_NeededMem4PackOptions(opts)
        /\ \A k \in 1..n : d[k] = (d[k-1] + Size(k)) % 65536
  BY SizeChain
<1>3. \A k \in 1..n : Pack(k) \in Seq(Byte) /\ Len(Pack(k)) = Size(k) /\ Size(k) \in 1..W
  BY PackedSize1
<1>4. n \in Nat /\ W \in Nat /\ n * W < 65536
  BY LenProperties, WireAssumption DEF Packable
<1> HIDE DEF n, W, Size, Pack
<1> DEFINE S == {k \in 0..n : Len(c[k]) = d[k] /\ d[k] <= k * W}
<1>5. 0 \in S
  <2>1. 0 * W = 0
    BY <1>4
  <2> QED BY <1>1, <1>2, <1>4, <2>1
<1>6. ASSUME NEW k \in 1..n, k-1 \in S PROVE k \in S
  <2>0. k-1 \in 0..n /\ Len(c[k-1]) = d[k-1] /\ d[k-1] <= (k-1) * W
    BY <1>6
  <2>1. k \in 0..n /\ k-1 \in 0..n
    BY <1>4
  <2> HIDE DEF S
  <2>2. c[k-1] \in Seq(Byte) /\ Pack(k) \in Seq(Byte) /\ c[k] = c[k-1] \o Pack(k)
    BY <1>1, <1>3, <2>1
  <2>3. Len(c[k]) = Len(c[k-1]) + Len(Pack(k))
    BY <2>2, Concatenated
  <2>4. Len(c[k]) = d[k-1] + Size(k) /\ Size(k) \in 1..W /\ d[k-1] \in OptNum
    <3>1. Len(Pack(k)) = Size(k) /\ Size(k) \in 1..W
      BY <1>3
    <3>2. Len(c[k-1]) = d[k-1]
      BY <2>0
    <3>3. d[k-1] \in OptNum
      BY <1>2, <2>1
    <3>4. Len(c[k]) = d[k-1] + Size(k)
      BY ONLY <2>3, <3>1, <3>2
    <3> QED BY <3>1, <3>3, <3>4
  <2>5. (k-1)*W + W = k*W /\ k*W <= n*W /\ k*W \in Nat /\ (k-1)*W \in Nat /\ n*W \in Nat
    BY <1>4, <2>1, Times
  <2>6. d[k-1] <= (k-1)*W
    BY <2>0
  <2> DEFINE x == (k-1)*W
             y == k*W
             z == n*W
  <2>7. x + W = y /\ y <= z /\ x \in Nat /\ y \in Nat /\ z \in Nat /\ z < 65536 /\ d[k-1] <= x
    BY <1>4, <2>5, <2>6
  <2> HIDE DEF x, y, z
  <2>8. d[k-1] + Size(k) \in Nat /\ d[k-1] + Size(k) <= y /\ d[k-1] + Size(k) < 65536
    <3> DEFINE before == d[k-1]
               size == Size(k)
    <3>1. W \in Nat
      BY <1>4
    <3>2. before \in Nat /\ size \in 1..W
      BY <2>4 DEF OptNum
    <3>3. before <= x /\ x + W = y /\ y <= z /\ x \in Nat /\ y \in Nat /\ z \in Nat /\ z < 65536
      BY <2>7
    <3> HIDE DEF before, size
    <3>4. before + size \in Nat /\ before + size <= y /\ before + size < 65536
      BY ONLY <3>1, <3>2, <3>3
    <3> QED BY <3>4 DEF before, size
  <2>9. d[k] = d[k-1] + Size(k)
    <3>1. (d[k-1] + Size(k)) % 65536 = d[k-1] + Size(k)
      BY <2>8, SixteenBits
    <3> QED BY <1>2, <3>1
  <2>10. Len(c[k]) = d[k] /\ d[k] <= k * W
    BY <2>4, <2>8, <2>9 DEF y
  <2> QED BY <2>1, <2>10 DEF S
<1>7. n \in S
  <2> HIDE DEF S
  <2>0. n \in Nat
    BY <1>4
  <2>1. 0..n \subseteq S
    BY <2>0, <1>5, <1>6, StepByStep
  <2> QED BY <1>4, <2>1
<1>8. c[n] \in Seq(Byte) /\ Len(c[n]) = d[n]
  BY <1>1, <1>4, <1>7
<1> QED BY <1>1, <1>2, <1>8

\* A chain of parts, each put behind the ones before.
IsConcatenation(c, p, n) == \A k \in 1..n : c[k] = c[k-1] \o p[k]
StaysThere(c, p, n, m) ==
  /\ Len(c[m-1]) \in Nat /\ Len(c[m]) = Len(c[m-1]) + Len(p[m])
  /\ Len(c[m]) <= Len(c[n])
  /\ \A j \in 1..Len(p[m]) : c[n][Len(c[m-1]) + j] = p[m][j]

\* What a chain of parts has put down stays where it is.
LEMMA ChainGrows ==
  ASSUME NEW T, NEW n \in Nat, NEW c \in [0..n -> Seq(T)], NEW p \in [1..n -> Seq(T)],
         IsConcatenation(c, p, n), NEW m \in 1..n
  PROVE  StaysThere(c, p, n, m)
<1> DEFINE Step(k) ==
             /\ Len(c[k-1]) \in Nat /\ Len(c[k]) = Len(c[k-1]) + Len(p[k])
             /\ \A j \in 1..Len(c[k-1]) : c[k][j] = c[k-1][j]
             /\ \A j \in 1..Len(p[k]) : c[k][Len(c[k-1]) + j] = p[k][j]
           Kept(k, i) ==
             /\ Len(c[k]) <= Len(c[i])
             /\ \A j \in 1..Len(c[k]) : c[i][j] = c[k][j]
           S == {i \in 0..n : \A k \in 0..i : Kept(k, i)}
<1>0. \A k \in 0..n : Len(c[k]) \in Nat
  BY LenProperties
<1>1. ASSUME NEW k \in 1..n PROVE Step(k)
  <2> DEFINE a == c[k-1]
             b == p[k]
  <2>1. a \in Seq(T) /\ b \in Seq(T) /\ c[k] = a \o b
    BY k-1 \in 0..n DEF IsConcatenation
  <2>2. Len(a) \in Nat /\ Len(b) \in Nat
    BY <2>1, LenProperties
  <2> HIDE DEF a, b
  <2>3. /\ Len(a \o b) = Len(a) + Len(b)
        /\ \A j \in 1..Len(a) + Len(b) :
             (a \o b)[j] = IF j <= Len(a) THEN a[j] ELSE b[j - Len(a)]
    BY <2>1, ConcatProperties
  <2>4. \A j \in 1..Len(a) : (a \o b)[j] = a[j]
    BY <2>2, <2>3
  <2>5. ASSUME NEW j \in 1..Len(b) PROVE (a \o b)[Len(a) + j] = b[j]
    <3>1. Len(a) + j \in 1..Len(a) + Len(b) /\ ~(Len(a) + j <= Len(a)) /\ (Len(a) + j) - Len(a) = j
      BY <2>2
    <3> QED BY <2>3, <3>1
  <2> QED BY <2>1, <2>2, <2>3, <2>4, <2>5 DEF a, b
<1>2. 0 \in S
  BY <1>0
<1>3. ASSUME NEW i \in 1..n, i-1 \in S PROVE i \in S
  <2>1. i \in 0..n /\ i-1 \in 0..n
    OBVIOUS
  <2>2. \A k \in 0..i-1 : Kept(k, i-1)
    BY <1>3
  <2>3. Len(c[i]) >= Len(c[i-1]) /\ \A j \in 1..Len(c[i-1]) : c[i][j] = c[i-1][j]
    <3>1. Len(p[i]) \in Nat
      BY LenProperties
    <3> QED BY <1>1, <3>1
  <2>4. ASSUME NEW k \in 0..i PROVE Kept(k, i)
    <3>1. CASE k = i
      BY <1>0, <2>1, <3>1
    <3>2. CASE k # i
      <4>1. k \in 0..i-1 /\ k \in 0..n
        BY <3>2
      <4>2. Kept(k, i-1)
        BY <2>2, <4>1
      <4>3. Len(c[k]) \in Nat /\ Len(c[i-1]) \in Nat /\ Len(c[i]) \in Nat
        BY <1>0, <2>1, <4>1
      <4> QED BY <2>3, <4>2, <4>3
    <3> QED BY <3>1, <3>2
  <2> HIDE DEF Kept
  <2> QED BY <2>1, <2>4
<1>4. n \in S
  <2> HIDE DEF S
  <2>1. 0..n \subseteq S
    BY <1>2, <1>3, StepByStep
  <2> QED BY <2>1
<1>5. ASSUME NEW k \in 1..n
      PROVE  /\ Len(c[k-1]) \in Nat /\ Len(c[k]) = Len(c[k-1]) + Len(p[k])
             /\ Len(c[k]) <= Len(c[n])
             /\ \A j \in 1..Len(p[k]) : c[n][Len(c[k-1]) + j] = p[k][j]
  <2>1. Step(k)
    BY <1>1
  <2>2. Kept(k, n)
    <3>1. k \in 0..n
      OBVIOUS
    <3> HIDE DEF Kept
    <3> QED BY <1>4, <3>1
  <2>3. Len(p[k]) \in Nat
    BY LenProperties
  <2>4. ASSUME NEW j \in 1..Len(p[k]) PROVE c[n][Len(c[k-1]) + j] = p[k][j]
    <3>1. Len(c[k-1]) + j \in 1..Len(c[k])
      BY <2>1, <2>3
    <3> QED BY <2>1, <2>2, <3>1
  <2> QED BY <2>1, <2>2, <2>4
<1> QED BY <1>5 DEF StaysThere

\* An option in the bytes of a datagram is read as it was packed, and the
\* reader goes on just behind it.
LEMMA OptionReadsBack ==
  ASSUME NEW delta \in OptNum, NEW val \in Seq(Byte), Len(val) \in OptNum,
         Len(val) <= MAX_OPTION_VALUE_SIZE,
         NEW raw \in Seq(Byte), NEW off \in Nat,
         off + Len(PackOption(delta, val)) <= Len(raw),
         \A j \in 1..Len(PackOption(delta, val)) :
           raw[off + j] = PackOption(delta, val)[j]
  PROVE  /\ off < Len(raw) /\ raw[off + 1] # PayloadMarker /\ ~Malformed(raw, off)
         /\ OptionDelta(raw, off) = delta
         /\ OptionEnd(raw, off) = off + Len(PackOption(delta, val))
         /\ SubSeq(raw, ValueAt(raw, off) + 1, OptionEnd(raw, off)) = val
<1> DEFINE p == PackOption(delta, val)
           len == Len(val)
           D == Extension(delta)
           L == Extension(len)
           d == Len(D)
           l == Len(L)
           fd == Field(delta)
           fl == Field(len)
<1>0. len \in Nat /\ Len(raw) \in Nat /\ MAX_OPTION_VALUE_SIZE \in Nat
  BY LenProperties, WireAssumption
<1>1. /\ p \in Seq(Byte) /\ d \in 0..2 /\ l \in 0..2 /\ Len(p) = 1 + d + l + len
      /\ p[1] = 16 * fd + fl
      /\ \A k \in 1..d : p[1 + k] = D[k]
      /\ \A k \in 1..l : p[1 + d + k] = L[k]
      /\ \A k \in 1..len : p[1 + d + l + k] = val[k]
  BY PackedOption
<1>a. /\ d \in Nat /\ l \in Nat /\ len \in Nat /\ Len(p) = 1 + d + l + len
      /\ Len(raw) \in Nat /\ off \in Nat /\ off + Len(p) <= Len(raw)
  BY <1>0, <1>1
<1>2. \A j \in 1..Len(p) : raw[off + j] = p[j]
  OBVIOUS
<1>3. fd \in 0..14 /\ fl \in 0..14
  BY ExtensionIsBytes
<1>4. off + Len(p) <= Len(raw)
  OBVIOUS
<1>n. \A n \in OptNum, r \in {raw}, o \in Nat :
        (\A k \in 1..Len(Extension(n)) : r[o + k] = Extension(n)[k]) =>
        /\ Extended(r, o, Field(n)) = n
        /\ ExtendedBy(Field(n)) = Len(Extension(n))
  BY NumbersReadBack
<1>d. delta \in OptNum /\ len \in OptNum /\ len <= MAX_OPTION_VALUE_SIZE /\ val \in Seq(Byte)
  OBVIOUS
<1> HIDE DEF p, len, fd, fl
<1>5. raw[off + 1] = 16 * fd + fl
  <2>1. 1 \in 1..Len(p)
    BY <1>0, <1>1
  <2> QED BY <1>1, <1>2, <2>1
<1>6. DeltaField(raw, off) = fd /\ LengthField(raw, off) = fl /\ raw[off + 1] \in 0..238
  BY <1>3, <1>5, HeaderByte DEF DeltaField, LengthField
<1>7. ASSUME NEW k \in 1..d PROVE raw[(off + 1) + k] = D[k]
  <2> HIDE DEF d, l
  <2>1. 1 + k \in 1..Len(p) /\ off + (1 + k) = (off + 1) + k
    BY <1>a
  <2> QED BY <1>1, <1>2, <2>1
<1>8. ASSUME NEW k \in 1..l PROVE raw[(off + 1 + d) + k] = L[k]
  <2> HIDE DEF d, l
  <2>1. 1 + d + k \in 1..Len(p) /\ off + (1 + d + k) = (off + 1 + d) + k
    BY <1>a
  <2> QED BY <1>1, <1>2, <2>1
<1>9. ASSUME NEW k \in 1..len PROVE raw[(off + 1 + d + l) + k] = val[k]
  <2> HIDE DEF d, l
  <2>a. k \in Nat /\ 1 <= k /\ k <= len
    BY <1>a
  <2>b. 1 + d + l + k <= Len(p) /\ off + (1 + d + l + k) = (off + 1 + d + l) + k
    BY <1>a, <2>a
  <2>1. 1 + d + l + k \in 1..Len(p) /\ off + (1 + d + l + k) = (off + 1 + d + l) + k
    BY <1>a, <2>a, <2>b
  <2>2. raw[off + (1 + d + l + k)] = p[1 + d + l + k]
    BY <1>2, <2>1
  <2>3. p[1 + d + l + k] = val[k]
    BY <1>1
  <2> QED BY <2>1, <2>2, <2>3
<1>10. Extended(raw, off + 1, fd) = delta /\ ExtendedBy(fd) = d
  <2>1. \A k \in 1..Len(Extension(delta)) : raw[(off + 1) + k] = Extension(delta)[k]
    BY <1>7
  <2>2. off + 1 \in Nat
    OBVIOUS
  <2> QED BY <1>n, <1>d, <2>1, <2>2 DEF fd
<1>11. Extended(raw, off + 1 + d, fl) = len /\ ExtendedBy(fl) = l
  <2>1. \A k \in 1..Len(Extension(len)) : raw[(off + 1 + d) + k] = Extension(len)[k]
    BY <1>8
  <2>2. off + 1 + d \in Nat
    BY <1>1
  <2> QED BY <1>n, <1>d, <2>1, <2>2 DEF fl
<1> HIDE DEF d, l
<1>12. LengthAt(raw, off) = off + 1 + d /\ ValueAt(raw, off) = off + 1 + d + l
  BY <1>6, <1>10, <1>11 DEF LengthAt, ValueAt
<1>13. OptionDelta(raw, off) = delta /\ OptionLength(raw, off) = len
  BY <1>6, <1>10, <1>11, <1>12 DEF OptionDelta, OptionLength
<1>14. OptionEnd(raw, off) = off + 1 + d + l + len /\ off + 1 + d + l + len = off + Len(p)
  BY <1>a, <1>12, <1>13 DEF OptionEnd
<1>15. off < Len(raw) /\ raw[off + 1] # PayloadMarker
  <2>1. off < Len(raw)
    BY <1>a
  <2>2. \A x \in 0..238 : x # 255
    OBVIOUS
  <2>3. raw[off + 1] # 255
    BY <1>6, <2>2, Zenon
  <2> QED BY <2>1, <2>3 DEF PayloadMarker
<1>16. ~Malformed(raw, off)
  <2>1. ~(off + 1 + d + l > Len(raw)) /\ ~(off + 1 + d + l + len > Len(raw))
    BY <1>a
  <2>2. ~(len > MAX_OPTION_VALUE_SIZE)
    BY <1>0, <1>d
  <2>3. fd # 15 /\ fl # 15
    BY <1>3
  <2> QED BY <1>6, <1>12, <1>13, <1>14, <2>1, <2>2, <2>3 DEF Malformed
<1>17. SubSeq(raw, ValueAt(raw, off) + 1, OptionEnd(raw, off)) = val
  <2> DEFINE a == off + 1 + d + l
             s == SubSeq(raw, a + 1, a + len)
  <2>1. a \in Nat /\ a + len <= Len(raw) /\ a + 1 \in 1..Len(raw)+1 /\ a + len \in (a+1)-1..Len(raw)
    BY <1>a
  <2> HIDE DEF a
  <2>2. /\ s \in Seq(Byte) /\ Len(s) = (a + len) - (a + 1) + 1
        /\ \A j \in 1..(a + len) - (a + 1) + 1 : s[j] = raw[(a + 1) + j - 1]
    BY <2>1, PartOfSeq
  <2> HIDE DEF s
  <2>3. (a + len) - (a + 1) + 1 = len
    BY <1>0, <2>1
  <2>4. ASSUME NEW j \in 1..len PROVE s[j] = val[j]
    <3>1. (a + 1) + j - 1 = a + j
      BY <1>0, <2>1
    <3>2. raw[a + j] = val[j]
      BY <1>9 DEF a
    <3> QED BY <2>2, <2>3, <3>1, <3>2
  <2>5. s = val
    <3>1. Len(s) = Len(val)
      BY <2>2, <2>3 DEF len
    <3>2. \A j \in 1..Len(s) : s[j] = val[j]
      BY <2>2, <2>3, <2>4
    <3> QED BY <1>d, <2>2, <3>1, <3>2, SeqEqual
  <2> QED BY <1>12, <1>14, <2>5 DEF a, s
<1> QED BY <1>13, <1>14, <1>15, <1>16, <1>17 DEF p

\* For where the values of Byte do not matter.
LEMMA BytesAreNumbers == \A b \in Byte : b \in Nat /\ b < 256
BY DEF Byte

(***************************************************************************)
(* Reading it.                                                             *)
(***************************************************************************)
\* A number that is read is one.
LEMMA ExtendedIsNat ==
  ASSUME NEW raw \in Seq(Byte), NEW off \in Nat, NEW f \in 0..15,
         off + ExtendedBy(f) <= Len(raw)
  PROVE  Extended(raw, off, f) \in Nat /\ ExtendedBy(f) \in 0..2
<1>1. ExtendedBy(f) \in 0..2
  BY DEF ExtendedBy
<1>2. Len(raw) \in Nat /\ \A i \in 1..Len(raw) : raw[i] \in Nat
  <2>1. \A i \in 1..Len(raw) : raw[i] \in Byte
    BY ElementOfSeq
  <2> QED BY <2>1, LenProperties, BytesAreNumbers
<1>3. CASE f = 13
  <2>1. off + 1 \in 1..Len(raw)
    BY <1>2, <1>3 DEF ExtendedBy
  <2>2. raw[off + 1] \in Nat
    BY <1>2, <2>1
  <2>3. Extended(raw, off, f) = raw[off + 1] + 13
    BY <1>3 DEF Extended
  <2> QED BY <1>1, <2>2, <2>3
<1>4. CASE f = 14
  <2>1. off + 1 \in 1..Len(raw) /\ off + 2 \in 1..Len(raw)
    BY <1>2, <1>4 DEF ExtendedBy
  <2>2. raw[off + 1] \in Nat /\ raw[off + 2] \in Nat
    BY <1>2, <2>1
  <2>3. Extended(raw, off, f) = (raw[off + 1] * 256 + raw[off + 2] + 269) % 65536
    BY <1>4 DEF Extended
  <2> DEFINE hi == raw[off + 1]
             lo == raw[off + 2]
             n == hi * 256 + lo + 269
  <2>4. hi \in Nat /\ lo \in Nat
    BY <2>2
  <2> HIDE DEF hi, lo
  <2>5. n \in Nat
    BY <2>4
  <2> HIDE DEF n
  <2>6. n % 65536 \in Nat
    BY <2>5
  <2>7. Extended(raw, off, f) = n % 65536
    BY <2>3 DEF n, hi, lo
  <2> QED BY <1>1, <2>6, <2>7
<1>5. CASE f # 13 /\ f # 14
  <2>1. Extended(raw, off, f) = f
    BY <1>5 DEF Extended
  <2> QED BY <1>1, <2>1
<1> QED BY <1>3, <1>4, <1>5

\* The reader gets on with every option and stays in what it reads.
LEMMA ReaderGetsOn ==
  ASSUME NEW raw \in Seq(Byte), NEW off \in Nat, off < Len(raw), ~Malformed(raw, off)
  PROVE  OptionEnd(raw, off) \in off+1..Len(raw)
<1> DEFINE fd == DeltaField(raw, off)
           fl == LengthField(raw, off)
<1>1. Len(raw) \in Nat
  BY LenProperties
<1>2. fd \in 0..15 /\ fl \in 0..15
  <2>1. off + 1 \in 1..Len(raw)
    BY <1>1
  <2>2. raw[off + 1] \in Byte
    BY <2>1, ElementOfSeq
  <2>3. raw[off + 1] \in Nat /\ raw[off + 1] < 256
    BY <2>2, BytesAreNumbers
  <2>4. \A x \in Nat : x < 256 => x \div 16 \in 0..15 /\ x % 16 \in 0..15
    OBVIOUS
  <2> QED BY <2>3, <2>4 DEF DeltaField, LengthField
<1>3. ~(ValueAt(raw, off) > Len(raw)) /\ ~(OptionEnd(raw, off) > Len(raw))
  BY DEF Malformed
<1>4. LengthAt(raw, off) = off + 1 + ExtendedBy(fd)
  BY DEF LengthAt
<1>5. ValueAt(raw, off) = LengthAt(raw, off) + ExtendedBy(fl)
  BY DEF ValueAt
<1>6. OptionEnd(raw, off) = ValueAt(raw, off) + Extended(raw, LengthAt(raw, off), fl)
  BY DEF OptionEnd, OptionLength
<1> HIDE DEF fd, fl
<1>7. ExtendedBy(fd) \in 0..2 /\ ExtendedBy(fl) \in 0..2
  BY <1>2 DEF ExtendedBy
<1>8. LengthAt(raw, off) \in Nat /\ LengthAt(raw, off) + ExtendedBy(fl) <= Len(raw)
  BY <1>1, <1>3, <1>4, <1>5, <1>7
<1>9. Extended(raw, LengthAt(raw, off), fl) \in Nat
  BY <1>2, <1>8, ExtendedIsNat
<1> QED BY <1>1, <1>3, <1>4, <1>5, <1>6, <1>7, <1>9

\* It stops at every start of an option, and at last at what is no option.
LEMMA StartsAreFound ==
  ASSUME NEW raw \in Seq(Byte), NEW n \in Nat, NEW pos \in [0..n -> Nat], pos[0] = 0,
         \A k \in 1..n :
           /\ pos[k-1] < Len(raw) /\ raw[pos[k-1] + 1] # PayloadMarker
           /\ ~Malformed(raw, pos[k-1]) /\ OptionEnd(raw, pos[k-1]) = pos[k],
         pos[n] <= Len(raw),
         pos[n] = Len(raw) \/ raw[pos[n] + 1] = PayloadMarker
  PROVE  /\ OptionStarts(raw) \in Seq(Nat) /\ Len(OptionStarts(raw)) = n + 1
         /\ \A i \in 1..n+1 : OptionStarts(raw)[i] = pos[i-1]
<1> DEFINE N == Len(raw)
           Stops(off) ==
             off = Len(raw) \/ raw[off + 1] = PayloadMarker \/ Malformed(raw, off)
           P(f) == f = [off \in 0..Len(raw) |->
                          IF Stops(off) THEN <<off>>
                          ELSE <<off>> \o f[OptionEnd(raw, off)]]
           from == CHOOSE f : P(f)
           stops == {off \in 0..N : Stops(off)}
           next == [off \in 0..N |-> OptionEnd(raw, off)]
<1>1. OptionStarts(raw) = from[0]
  BY DEF OptionStarts
<1>2. N \in Nat
  BY LenProperties
<1>3. ASSUME NEW off \in 0..N, ~Stops(off) PROVE OptionEnd(raw, off) \in off+1..N
  <2>1. off \in Nat /\ off < Len(raw) /\ ~Malformed(raw, off)
    BY <1>2, <1>3
  <2> QED BY <2>1, ReaderGetsOn
<1> HIDE DEF Stops
<1>4. P(from)
  <2>1. \A off \in 0..N : off \notin stops => next[off] \in off+1..N
    BY <1>3
  <2> HIDE DEF stops, next, N
  <2>2. PICK g : IsWalk(g, N, stops, next)
    BY <1>2, <2>1, WalkDefined
  <2> USE DEF stops, next, N
  <2>3. P(g)
    <3> DEFINE G(off) == IF off \in stops THEN <<off>> ELSE <<off>> \o g[next[off]]
    <3>1. \A off \in 0..N : G(off) = IF Stops(off) THEN <<off>>
                                     ELSE <<off>> \o g[OptionEnd(raw, off)]
      OBVIOUS
    <3>2. g = [off \in 0..N |-> G(off)]
      BY <2>2 DEF IsWalk
    <3> HIDE DEF G
    <3> QED BY <3>1, <3>2
  <2> HIDE DEF P
  <2> QED BY <2>3
<1> HIDE DEF from
<1>5. ASSUME NEW off \in 0..N
      PROVE  from[off] = IF Stops(off) THEN <<off>>
                         ELSE <<off>> \o from[OptionEnd(raw, off)]
  BY <1>4
<1> HIDE DEF P, stops, next
<1> DEFINE Good(i, s) == /\ s \in Seq(Nat) /\ Len(s) = i+1
                         /\ \A j \in 1..i+1 : s[j] = pos[n-i+j-1]
           S == {i \in 0..n : Good(i, from[pos[n-i]])}
<1>6. 0 \in S
  <2>1. pos[n] \in 0..N /\ Stops(pos[n])
    BY <1>2 DEF Stops
  <2>2. from[pos[n]] = <<pos[n]>>
    BY <1>5, <2>1
  <2>3. pos[n] \in Nat
    OBVIOUS
  <2>4. n-0 = n /\ 0+1 = 1 /\ \A j \in 1..1 : j = 1 /\ n-0+j-1 = n
    OBVIOUS
  <2> DEFINE x == pos[n]
  <2>5. <<x>> \in Seq(Nat) /\ Len(<<x>>) = 1 /\ <<x>>[1] = x
    BY <2>3
  <2>6. Good(0, <<x>>)
    <3> HIDE DEF x
    <3>1. <<x>> \in Seq(Nat) /\ Len(<<x>>) = 0+1
      BY <2>5, <2>4
    <3>2. ASSUME NEW j \in 1..0+1 PROVE <<x>>[j] = pos[n-0+j-1]
      <4>1. j = 1 /\ n-0+j-1 = n
        BY <2>4
      <4> QED BY <2>5, <4>1 DEF x
    <3> QED BY <3>1, <3>2
  <2>7. from[pos[n-0]] = <<x>>
    BY <2>2, <2>4
  <2>8. 0 \in 0..n
    OBVIOUS
  <2> HIDE DEF Good, x
  <2> QED BY <2>6, <2>7, <2>8
<1>7. ASSUME NEW i \in 1..n, i-1 \in S PROVE i \in S
  <2> DEFINE k == n-i+1
             rest == from[pos[n-(i-1)]]
  <2>1. k \in 1..n /\ n-(i-1) = k /\ k-1 = n-i /\ i \in 0..n
    OBVIOUS
  <2>2. rest \in Seq(Nat) /\ Len(rest) = i /\ \A j \in 1..i : rest[j] = pos[n-(i-1)+j-1]
    BY <1>7
  <2>3. from[pos[n-i]] = <<pos[n-i]>> \o rest
    <3>1. /\ pos[k-1] < Len(raw) /\ raw[pos[k-1] + 1] # PayloadMarker
          /\ ~Malformed(raw, pos[k-1]) /\ OptionEnd(raw, pos[k-1]) = pos[k]
      BY <2>1
    <3>2. pos[k-1] \in Nat
      BY <2>1
    <3>3. pos[k-1] \in 0..N /\ ~Stops(pos[k-1])
      BY <1>2, <3>1, <3>2 DEF Stops
    <3>4. from[pos[k-1]] = <<pos[k-1]>> \o from[pos[k]]
      BY <1>5, <3>1, <3>3
    <3> QED BY <2>1, <3>4
  <2>4. pos[n-i] \in Nat
    BY <2>1
  <2> HIDE DEF rest, S
  <2> DEFINE w == <<pos[n-i]>> \o rest
  <2>6. /\ w \in Seq(Nat) /\ Len(w) = i+1 /\ w[1] = pos[n-i]
        /\ \A j \in 1..i : w[j+1] = rest[j]
    <3> DEFINE e == pos[n-i]
    <3>1. e \in Nat /\ rest \in Seq(Nat)
      BY <2>2, <2>4
    <3> HIDE DEF e
    <3>2. /\ <<e>> \o rest \in Seq(Nat) /\ Len(<<e>> \o rest) = Len(rest) + 1
          /\ (<<e>> \o rest)[1] = e
          /\ \A j \in 1..Len(rest) : (<<e>> \o rest)[j+1] = rest[j]
      BY <3>1, PrependProperties
    <3> QED BY <2>2, <3>2 DEF e
  <2> HIDE DEF w
  <2>7. ASSUME NEW j \in 1..i+1 PROVE w[j] = pos[n-i+j-1]
    <3>1. CASE j = 1
      <4>1. n-i+j-1 = n-i
        BY <3>1
      <4> QED BY <2>6, <3>1, <4>1
    <3>2. CASE j # 1
      <4>1. j-1 \in 1..i /\ n-(i-1)+(j-1)-1 = n-i+j-1 /\ (j-1)+1 = j
        BY <3>2
      <4>2. rest[j-1] = pos[n-(i-1)+(j-1)-1] /\ w[(j-1)+1] = rest[j-1]
        BY <2>2, <2>6, <4>1
      <4> QED BY <4>1, <4>2
    <3> QED BY <3>1, <3>2
  <2>8. Good(i, w)
    BY <2>6, <2>7
  <2> HIDE DEF Good
  <2>9. from[pos[n-i]] = w
    BY <2>3 DEF w
  <2> QED BY <2>1, <2>8, <2>9 DEF S
<1>8. n \in S
  <2> HIDE DEF S
  <2>1. 0..n \subseteq S
    BY <1>6, <1>7, StepByStep
  <2> QED BY <2>1
<1>9. Good(n, from[0])
  <2>1. n - n = 0
    OBVIOUS
  <2> HIDE DEF Good
  <2> QED BY <1>8, <2>1
<1>10. ASSUME NEW i \in 1..n+1 PROVE from[0][i] = pos[i-1]
  <2>1. n-n+i-1 = i-1
    OBVIOUS
  <2> QED BY <1>9, <2>1
<1> QED BY <1>1, <1>9, <1>10

\* The bytes that are read as its value.
OptionValue(raw, off) == SubSeq(raw, ValueAt(raw, off) + 1, OptionEnd(raw, off))

\* What the reader has after some options.
Reading == {acc \in [last : OptNum, opts : Seq(Option)] : Sorted(acc.opts)}

\* In terms of its two fields.
LEMMA ReadingIs ==
  ASSUME NEW last, NEW opts
  PROVE  [last |-> last, opts |-> opts] \in Reading <=>
           last \in OptNum /\ opts \in Seq(Option) /\ Sorted(opts)
<1> DEFINE V == Seq(Option)
<1>1. Reading = {acc \in [last : OptNum, opts : V] : Sorted(acc.opts)}
  BY DEF Reading
<1> HIDE DEF V
<1>2. [last |-> last, opts |-> opts] \in Reading <=>
        last \in OptNum /\ opts \in V /\ Sorted(opts)
  BY <1>1
<1> QED BY <1>2 DEF V

\* And the other way round.
LEMMA InReading ==
  ASSUME NEW acc \in Reading
  PROVE  acc.last \in OptNum /\ acc.opts \in Seq(Option) /\ Sorted(acc.opts)
<1> DEFINE V == Seq(Option)
<1>1. Reading = {a \in [last : OptNum, opts : V] : Sorted(a.opts)}
  BY DEF Reading
<1> HIDE DEF V
<1>2. acc.last \in OptNum /\ acc.opts \in V /\ Sorted(acc.opts)
  BY <1>1
<1> QED BY <1>2 DEF V

\* It begins with nothing.
LEMMA NothingReadYet == [last |-> 0, opts |-> <<>>] \in Reading
<1>1. 0 \in OptNum
  BY DEF OptNum
<1>2. <<>> \in Seq(Option)
  OBVIOUS
<1>3. Sorted(<<>>)
  BY DEF Sorted
<1> QED BY <1>1, <1>2, <1>3, ReadingIs

\* One more option keeps it sorted.
LEMMA WithOptionIsReading ==
  ASSUME NEW acc \in Reading, NEW raw, NEW off,
         OptionDelta(raw, off) \in OptNum, OptionValue(raw, off) \in Seq(Byte)
  PROVE  WithOption(acc, raw, off) \in Reading
<1> DEFINE number == (acc.last + OptionDelta(raw, off)) % 65536
           val == OptionValue(raw, off)
           new == CoAP_AppendOptionToList(acc.opts, number, val)
<1>1. acc.last \in OptNum /\ acc.opts \in Seq(Option) /\ Sorted(acc.opts)
  BY InReading
<1>2. number \in OptNum
  BY <1>1 DEF OptNum
<1>3. val \in Seq(Byte)
  OBVIOUS
<1>4. WithOption(acc, raw, off) = [last |-> number, opts |-> new]
  BY DEF WithOption, OptionValue
<1> HIDE DEF number, val
<1>5. new \in Seq(Option) /\ Sorted(new)
  BY <1>1, <1>2, <1>3, AppendKeepsSorted
<1> HIDE DEF new
<1> QED BY <1>2, <1>4, <1>5, ReadingIs

\* What the reader has after each of the options that start at q.
ReadsOneByOne(c, raw, q) ==
  /\ c \in [0..Len(q) -> Reading]
  /\ c[0] = [last |-> 0, opts |-> <<>>] /\ c[Len(q)] = OptionsAt(raw, q)
  /\ \A k \in 1..Len(q) : c[k] = WithOption(c[k-1], raw, q[k])

\* Reading the options one by one makes a chain of lists.
LEMMA ReadChain ==
  ASSUME NEW raw, NEW B, NEW q \in Seq(B),
         \A off \in B : OptionDelta(raw, off) \in OptNum /\ OptionValue(raw, off) \in Seq(Byte)
  PROVE  \E c : ReadsOneByOne(c, raw, q)
<1> DEFINE A == Reading
           base == [last |-> 0, opts |-> <<>>]
           Op(a, b) == WithOption(a, raw, b)
           F == [p \in A \X B |-> Op(p[1], p[2])]
           P(h) == h = [s \in SUBSET DOMAIN q |->
                          IF s = {} THEN base ELSE Op(h[s \ {Max(s)}], q[Max(s)])]
           H == CHOOSE h : P(h)
<1> HIDE DEF base
<1>1. /\ base \in A /\ q \in Seq(B)
      /\ \A a \in A, b \in B : Op(a, b) \in A
  BY WithOptionIsReading, NothingReadYet DEF base
<1>2. OptionsAt(raw, q) = H[DOMAIN q]
  BY DEF OptionsAt, FoldLeft, MapThenFoldSet, base
<1> HIDE DEF A, Op
<1>3. F \in [A \X B -> A] /\ \A a \in A, b \in B : F[<<a, b>>] = Op(a, b)
  BY <1>1
<1> HIDE DEF F, H
<1>4. P(H)
  <2>1. PICK g : IsFold(g, A, F, base, q)
    BY <1>1, <1>3, FoldDefined
  <2>2. ASSUME NEW s \in SUBSET DOMAIN q
        PROVE  g[s] = IF s = {} THEN base ELSE Op(g[s \ {Max(s)}], q[Max(s)])
    <3>1. CASE s = {}
      BY <2>1, <3>1 DEF IsFold
    <3>2. CASE s # {}
      <4>1. s \ {Max(s)} \in SUBSET DOMAIN q /\ q[Max(s)] \in B
        BY <1>1, <3>2, LastOfPositions
      <4>2. g[s \ {Max(s)}] \in A
        BY <2>1, <4>1 DEF IsFold
      <4> QED BY <1>3, <2>1, <3>2, <4>1, <4>2 DEF IsFold
    <3> QED BY <3>1, <3>2
  <2>3. g = [s \in SUBSET DOMAIN q |-> g[s]]
    BY <2>1 DEF IsFold
  <2>4. P(g)
    BY <2>2, <2>3
  <2> HIDE DEF P
  <2> QED BY <2>4 DEF H
<1>5. H[{}] = base
  BY <1>4
<1>6. ASSUME NEW s \in SUBSET DOMAIN q, s # {}, H[s \ {Max(s)}] \in A
      PROVE  H[s] = F[<<H[s \ {Max(s)}], q[Max(s)]>>]
  <2>1. q[Max(s)] \in B
    BY <1>1, <1>6, LastOfPositions
  <2> QED BY <1>3, <1>4, <1>6, <2>1
<1> HIDE DEF P
<1>7. PICK c : IsChain(c, A, F, base, q, H[DOMAIN q])
  BY <1>1, <1>3, <1>5, <1>6, FoldChain
<1>8. /\ c \in [0..Len(q) -> A] /\ c[0] = base /\ c[Len(q)] = H[DOMAIN q]
      /\ \A k \in 1..Len(q) : q[k] \in B /\ c[k-1] \in A /\ c[k] = Op(c[k-1], q[k])
  <2>1. /\ c \in [0..Len(q) -> A] /\ c[0] = base /\ c[Len(q)] = H[DOMAIN q]
        /\ \A k \in 1..Len(q) : c[k] = F[<<c[k-1], q[k]>>]
    BY <1>7 DEF IsChain
  <2>2. Len(q) \in Nat /\ \A k \in 1..Len(q) : q[k] \in B
    BY <1>1, LenProperties, ElementOfSeq
  <2>3. \A k \in 1..Len(q) : k-1 \in 0..Len(q)
    BY <2>2
  <2> QED BY <1>3, <2>1, <2>2, <2>3
<1>9. ReadsOneByOne(c, raw, q)
  BY <1>2, <1>8 DEF A, Op, base, ReadsOneByOne
<1> QED BY <1>9

\* Where the options of a list are in the bytes that begin with them.
Layout(raw, opts, pos) ==
  /\ pos \in [0..Len(opts) -> Nat] /\ pos[0] = 0
  /\ pos[Len(opts)] = Len(pack_OptionsFromList(opts)) /\ pos[Len(opts)] <= Len(raw)
  /\ \A k \in 1..Len(opts) :
       /\ pos[k-1] < pos[k] /\ pos[k-1] < Len(raw)
       /\ raw[pos[k-1] + 1] # PayloadMarker
       /\ ~Malformed(raw, pos[k-1]) /\ OptionEnd(raw, pos[k-1]) = pos[k]
       /\ OptionDelta(raw, pos[k-1]) = Delta(opts, k)
       /\ OptionValue(raw, pos[k-1]) = opts[k].val

LEMMA PackedLayout ==
  ASSUME NEW opts, Packable(opts), NEW raw \in Seq(Byte),
         Len(pack_OptionsFromList(opts)) <= Len(raw),
         \A j \in 1..Len(pack_OptionsFromList(opts)) :
           raw[j] = pack_OptionsFromList(opts)[j]
  PROVE  \E pos : Layout(raw, opts, pos)
<1> DEFINE n == Len(opts)
           Pack(k) == PackOption(Delta(opts, k), opts[k].val)
           p == [k \in 1..n |-> Pack(k)]
           all == pack_OptionsFromList(opts)
<1>1. PICK c \in [0..n -> Seq(Byte)] :
        /\ c[0] = <<>> /\ c[n] = all
        /\ \A k \in 1..n : c[k] = c[k-1] \o Pack(k)
  BY PackedChain
<1>2. n \in Nat /\ Len(raw) \in Nat
  BY LenProperties DEF Packable
<1>3. \A k \in 1..n : Pack(k) \in Seq(Byte)
  BY PackedSize1
<1>4. ASSUME NEW k \in 1..n
      PROVE  /\ Delta(opts, k) \in OptNum /\ opts[k].val \in Seq(Byte)
             /\ Len(opts[k].val) \in OptNum /\ Len(opts[k].val) <= MAX_OPTION_VALUE_SIZE
             /\ Len(Pack(k)) \in Nat /\ Len(Pack(k)) > 0
  <2>1. /\ Delta(opts, k) \in OptNum /\ opts[k].val \in Seq(Byte)
        /\ Len(opts[k].val) \in OptNum /\ Len(opts[k].val) <= MAX_OPTION_VALUE_SIZE
    BY PackableOption
  <2>2. Len(Pack(k)) \in 1..MAX_OPTION_VALUE_SIZE+5
    BY PackedSize1
  <2> QED BY <2>1, <2>2, WireAssumption
<1>5. /\ Len(all) <= Len(raw)
      /\ \A j \in 1..Len(all) : raw[j] = all[j]
  OBVIOUS
<1>6. p \in [1..n -> Seq(Byte)] /\ \A k \in 1..n : p[k] = Pack(k)
  BY <1>3
<1> HIDE DEF n, all, p, Pack
<1>7. ASSUME NEW k \in 1..n
      PROVE  /\ Len(c[k-1]) \in Nat /\ Len(c[k]) = Len(c[k-1]) + Len(Pack(k))
             /\ Len(c[k]) <= Len(all)
             /\ \A j \in 1..Len(Pack(k)) : all[Len(c[k-1]) + j] = Pack(k)[j]
  <2>1. \A i \in 1..n : c[i] = c[i-1] \o p[i]
    BY <1>1, <1>6
  <2>2. c \in [0..n -> Seq(Byte)]
    BY <1>1
  <2>0. n \in Nat /\ p \in [1..n -> Seq(Byte)]
    BY <1>2, <1>6
  <2>3. /\ Len(c[k-1]) \in Nat /\ Len(c[k]) = Len(c[k-1]) + Len(p[k])
        /\ Len(c[k]) <= Len(c[n])
        /\ \A j \in 1..Len(p[k]) : c[n][Len(c[k-1]) + j] = p[k][j]
    <3>1. IsConcatenation(c, p, n)
      BY <2>1 DEF IsConcatenation
    <3>2. StaysThere(c, p, n, k)
      BY <2>0, <2>2, <3>1, ChainGrows
    <3> QED BY <3>2 DEF StaysThere
  <2> QED BY <1>1, <1>6, <2>3
<1> DEFINE pos == [k \in 0..n |-> Len(c[k])]
<1>8. pos \in [0..n -> Nat] /\ pos[0] = 0 /\ pos[n] = Len(all) /\ pos[n] <= Len(raw)
  <2>1. \A k \in 0..n : Len(c[k]) \in Nat
    BY <1>1, LenProperties
  <2>2. 0 \in 0..n /\ n \in 0..n /\ Len(<<>>) = 0
    BY <1>2
  <2> QED BY <1>1, <1>5, <2>1, <2>2
<1>9. ASSUME NEW k \in 1..n
      PROVE  /\ pos[k-1] < pos[k] /\ pos[k-1] < Len(raw)
             /\ raw[pos[k-1] + 1] # PayloadMarker
             /\ ~Malformed(raw, pos[k-1]) /\ OptionEnd(raw, pos[k-1]) = pos[k]
             /\ OptionDelta(raw, pos[k-1]) = Delta(opts, k)
             /\ OptionValue(raw, pos[k-1]) = opts[k].val
  <2> DEFINE off == Len(c[k-1])
             delta == Delta(opts, k)
             val == opts[k].val
  <2>1. k-1 \in 0..n /\ k \in 0..n
    BY <1>2
  <2>2. pos[k-1] = off /\ pos[k] = Len(c[k])
    BY <2>1
  <2>3. off \in Nat /\ Len(c[k]) = off + Len(Pack(k)) /\ Len(c[k]) <= Len(all)
    BY <1>7
  <2>4. off + Len(Pack(k)) <= Len(raw)
    <3>1. Len(all) \in Nat
      BY <1>8, <1>2
    <3> QED BY <1>2, <1>4, <1>5, <2>3, <3>1
  <2>5. ASSUME NEW j \in 1..Len(Pack(k)) PROVE raw[off + j] = Pack(k)[j]
    <3>1. off + j \in 1..Len(all)
      <4>1. Len(all) \in Nat
        BY <1>8, <1>2
      <4> QED BY <1>4, <2>3, <4>1
    <3>2. all[off + j] = Pack(k)[j]
      BY <1>7
    <3> QED BY <1>5, <3>1, <3>2
  <2>6. /\ delta \in OptNum /\ val \in Seq(Byte) /\ Len(val) \in OptNum
        /\ Len(val) <= MAX_OPTION_VALUE_SIZE
    BY <1>4
  <2>7. /\ off + Len(PackOption(delta, val)) <= Len(raw)
        /\ \A j \in 1..Len(PackOption(delta, val)) : raw[off + j] = PackOption(delta, val)[j]
    BY <2>4, <2>5 DEF Pack
  <2>8. Len(c[k]) = off + Len(PackOption(delta, val)) /\ off < Len(c[k])
    <3> HIDE DEF pos
    <3>1. Len(Pack(k)) \in Nat /\ Len(Pack(k)) > 0
      BY <1>4
    <3>2. off < off + Len(Pack(k))
      BY <2>3, <3>1
    <3> QED BY <2>3, <3>2 DEF Pack
  <2> HIDE DEF off, delta, val, pos
  <2>9. /\ off < Len(raw) /\ raw[off + 1] # PayloadMarker /\ ~Malformed(raw, off)
        /\ OptionDelta(raw, off) = delta
        /\ OptionEnd(raw, off) = off + Len(PackOption(delta, val))
        /\ SubSeq(raw, ValueAt(raw, off) + 1, OptionEnd(raw, off)) = val
    BY <2>3, <2>6, <2>7, OptionReadsBack
  <2> QED BY <2>2, <2>8, <2>9 DEF OptionValue, delta, val
<1>10. Layout(raw, opts, pos)
  <2> HIDE DEF pos
  <2> QED BY <1>8, <1>9 DEF Layout, n, all
<1> QED BY <1>10

\* An option that belongs behind all others is put there.
LEMMA AppendAtEnd ==
  ASSUME NEW opts \in Seq(Option), Sorted(opts), NEW k \in 1..Len(opts)
  PROVE  CoAP_AppendOptionToList(SubSeq(opts, 1, k-1), opts[k].num, opts[k].val)
           = SubSeq(opts, 1, k)
<1> DEFINE q == SubSeq(opts, 1, k-1)
           w == SubSeq(opts, 1, k)
           e == CoAP_option_t(opts[k].num, opts[k].val)
<1>1. /\ Len(opts) \in Nat
      /\ \A j \in 1..Len(opts) : opts[j].num \in Nat /\ opts[j].num < 65536
  BY NumbersOfOptions
<1>2. q \in Seq(Option) /\ Len(q) = k-1 /\ \A j \in 1..k-1 : q[j] = opts[j]
  <2>1. 1 \in 1..Len(opts)+1 /\ k-1 \in 1-1..Len(opts)
    BY <1>1
  <2>2. /\ q \in Seq(Option) /\ Len(q) = (k-1)-1+1
        /\ \A j \in 1..(k-1)-1+1 : q[j] = opts[1+j-1]
    BY <2>1, PartOfSeq
  <2> HIDE DEF q
  <2>3. (k-1)-1+1 = k-1 /\ \A j \in 1..k-1 : 1+j-1 = j
    BY <1>1
  <2> QED BY <2>2, <2>3
<1>3. w \in Seq(Option) /\ Len(w) = k /\ \A j \in 1..k : w[j] = opts[j]
  <2>1. 1 \in 1..Len(opts)+1 /\ k \in 1-1..Len(opts)
    BY <1>1
  <2>2. /\ w \in Seq(Option) /\ Len(w) = k-1+1
        /\ \A j \in 1..k-1+1 : w[j] = opts[1+j-1]
    BY <2>1, PartOfSeq
  <2> HIDE DEF w
  <2>3. k-1+1 = k /\ \A j \in 1..k : 1+j-1 = j
    BY <1>1
  <2> QED BY <2>2, <2>3
<1>4. e = opts[k] /\ e \in Option
  <2> DEFINE V == Seq(Byte)
             o == opts[k]
  <2>1. Option = [num : OptNum, val : V]
    BY DEF Option
  <2>2. o \in Option
    BY ElementOfSeq
  <2> HIDE DEF V, o
  <2>3. o = [num |-> o.num, val |-> o.val]
    BY <2>1, <2>2
  <2> QED BY <2>2, <2>3 DEF CoAP_option_t, o
<1> HIDE DEF q, w, e
<1>5. InsertPos(q, opts[k].num) = k
  <2>1. ASSUME NEW j \in 1..Len(q) PROVE ~(q[j].num > opts[k].num)
    <3>1. j \in 1..k-1 /\ j \in 1..Len(opts) /\ j < k /\ q[j] = opts[j]
      BY <1>1, <1>2
    <3>2. opts[j].num <= opts[k].num
      BY <3>1 DEF Sorted
    <3> QED BY <1>1, <3>1, <3>2
  <2>2. Behind(q, opts[k].num) = {}
    BY <2>1 DEF Behind
  <2>3. k-1+1 = k
    BY <1>1
  <2> QED BY <1>2, <2>2, <2>3 DEF InsertPos
<1>6. CoAP_AppendOptionToList(q, opts[k].num, opts[k].val) = InsertAt(q, k, e)
  BY <1>5 DEF CoAP_AppendOptionToList, e
<1> DEFINE new == InsertAt(q, k, e)
<1>7. /\ new \in Seq(Option) /\ Len(new) = k
      /\ \A j \in 1..k : new[j] = IF j < k THEN q[j] ELSE IF j = k THEN e ELSE q[j-1]
  <2>1. k \in 1..Len(q)+1 /\ Len(q)+1 = k
    BY <1>1, <1>2
  <2>2. /\ new \in Seq(Option) /\ Len(new) = Len(q)+1
        /\ \A j \in 1..Len(q)+1 :
             new[j] = IF j < k THEN q[j] ELSE IF j = k THEN e ELSE q[j-1]
    BY <1>2, <1>4, <2>1, InsertAtProperties
  <2> HIDE DEF new
  <2> QED BY <2>1, <2>2
<1> HIDE DEF new
<1>8. ASSUME NEW j \in 1..k PROVE new[j] = w[j]
  <2>1. CASE j < k
    <3>1. j \in 1..k-1
      BY <1>1, <2>1
    <3> QED BY <1>2, <1>3, <1>7, <2>1, <3>1
  <2>2. CASE j = k
    <3>1. ~(k < k)
      BY <1>1
    <3> QED BY <1>3, <1>4, <1>7, <2>2, <3>1
  <2>3. j < k \/ j = k
    BY <1>1
  <2> QED BY <2>1, <2>2, <2>3
<1>9. new = w
  BY <1>3, <1>7, <1>8, SeqEqual
<1> QED BY <1>6, <1>9 DEF new, q, w

\* Packed options are read as the list they were packed from.
LEMMA OptionsReadBack ==
  ASSUME NEW opts, Packable(opts), NEW raw \in Seq(Byte), NEW pos,
         Layout(raw, opts, pos),
         NEW q \in Seq(Nat), Len(q) = Len(opts),
         \A k \in 1..Len(opts) : q[k] = pos[k-1]
  PROVE  OptionsAt(raw, q).opts = opts
<1> DEFINE n == Len(opts)
           B == {pos[k-1] : k \in 1..n}
           Read(k) == [last |-> IF k = 0 THEN 0 ELSE opts[k].num,
                       opts |-> SubSeq(opts, 1, k)]
<1>1. n \in Nat /\ opts \in Seq(Option) /\ Sorted(opts) /\ Len(q) = n
  BY LenProperties DEF Packable
<1>2. ASSUME NEW k \in 1..n
      PROVE  /\ OptionDelta(raw, pos[k-1]) = Delta(opts, k)
             /\ OptionValue(raw, pos[k-1]) = opts[k].val
             /\ Delta(opts, k) \in OptNum /\ opts[k].val \in Seq(Byte)
             /\ opts[k].num \in OptNum
             /\ (IF k = 1 THEN 0 ELSE opts[k-1].num) + Delta(opts, k) = opts[k].num
  <2>1. /\ OptionDelta(raw, pos[k-1]) = Delta(opts, k)
        /\ OptionValue(raw, pos[k-1]) = opts[k].val
    BY DEF Layout
  <2>2. Delta(opts, k) \in OptNum /\ opts[k].val \in Seq(Byte) /\ opts[k].num \in OptNum
    BY PackableOption
  <2>3. (IF k = 1 THEN 0 ELSE opts[k-1].num) + Delta(opts, k) = opts[k].num
    BY <1>1, DeltaNeverWraps
  <2> QED BY <2>1, <2>2, <2>3
<1>3. q \in Seq(B)
  <2>1. \A k \in 1..Len(q) : q[k] \in B
    BY <1>1
  <2>2. q = [k \in 1..Len(q) |-> q[k]]
    OBVIOUS
  <2> HIDE DEF B
  <2> QED BY <1>1, <2>1, <2>2
<1>4. \A off \in B : OptionDelta(raw, off) \in OptNum /\ OptionValue(raw, off) \in Seq(Byte)
  BY <1>2
<1>5. \A k \in 1..n : q[k] = pos[k-1]
  OBVIOUS
<1> HIDE DEF B
<1>r. PICK c : ReadsOneByOne(c, raw, q)
  BY <1>3, <1>4, ReadChain
<1>6. /\ c[0] = [last |-> 0, opts |-> <<>>] /\ c[Len(q)] = OptionsAt(raw, q)
      /\ \A k \in 1..Len(q) : c[k] = WithOption(c[k-1], raw, q[k])
  BY <1>r DEF ReadsOneByOne
<1> DEFINE S == {k \in 0..n : c[k] = Read(k)}
<1> HIDE DEF n
<1>7. 0 \in S
  <2>1. SubSeq(opts, 1, 0) = <<>>
    <3>1. 1 \in 1..Len(opts)+1 /\ 0 \in 1-1..Len(opts)
      BY <1>1 DEF n
    <3>2. SubSeq(opts, 1, 0) \in Seq(Option) /\ Len(SubSeq(opts, 1, 0)) = 0-1+1
      BY <1>1, <3>1, PartOfSeq
    <3>3. 0-1+1 = 0
      OBVIOUS
    <3> QED BY <3>2, <3>3, EmptySeq
  <2>2. Read(0) = [last |-> 0, opts |-> <<>>]
    BY <2>1
  <2> QED BY <1>1, <1>6, <2>2
<1>8. ASSUME NEW k \in 1..n, k-1 \in S PROVE k \in S
  <2> DEFINE off == pos[k-1]
             last == IF k-1 = 0 THEN 0 ELSE opts[k-1].num
             front == SubSeq(opts, 1, k-1)
             number == (last + OptionDelta(raw, off)) % 65536
             val == OptionValue(raw, off)
  <2>1. k \in 0..n /\ k-1 \in 0..n /\ (k-1 = 0 <=> k = 1)
    BY <1>1
  <2>2. c[k-1] = [last |-> last, opts |-> front]
    BY <1>8
  <2>3. c[k] = WithOption(c[k-1], raw, off)
    BY <1>1, <1>5, <1>6
  <2>4. /\ OptionDelta(raw, off) = Delta(opts, k) /\ val = opts[k].val
        /\ last + Delta(opts, k) = opts[k].num /\ opts[k].num \in OptNum
    BY <1>2, <2>1
  <2>5. number = opts[k].num
    <3> DEFINE num == opts[k].num
    <3>0. num \in Nat /\ num < 65536
      BY <2>4 DEF OptNum
    <3> HIDE DEF num
    <3>2. num % 65536 = num
      BY <3>0, SixteenBits
    <3>1. opts[k].num % 65536 = opts[k].num
      BY <3>2 DEF num
    <3> QED BY <2>4, <3>1
  <2>6. WithOption(c[k-1], raw, off)
          = [last |-> number, opts |-> CoAP_AppendOptionToList(front, number, val)]
    <3> HIDE DEF front, last
    <3> QED BY <2>2 DEF WithOption, OptionValue
  <2> HIDE DEF number, front, val
  <2>7. CoAP_AppendOptionToList(front, number, val) = SubSeq(opts, 1, k)
    <3>1. k \in 1..Len(opts)
      BY DEF n
    <3>2. CoAP_AppendOptionToList(SubSeq(opts, 1, k-1), opts[k].num, opts[k].val)
            = SubSeq(opts, 1, k)
      BY <1>1, <3>1, AppendAtEnd
    <3> QED BY <2>4, <2>5, <3>2 DEF front
  <2>8. k # 0
    BY <1>1
  <2>9. c[k] = Read(k)
    BY <2>3, <2>5, <2>6, <2>7, <2>8
  <2> QED BY <2>1, <2>9
<1>9. n \in S
  <2> HIDE DEF S
  <2>0. n \in Nat
    BY <1>1
  <2>1. 0..n \subseteq S
    BY <2>0, <1>7, <1>8, StepByStep
  <2> QED BY <2>0, <2>1
<1>10. OptionsAt(raw, q).opts = SubSeq(opts, 1, n)
  BY <1>1, <1>6, <1>9
<1>11. SubSeq(opts, 1, n) = opts
  BY <1>1, SubSeqFull DEF n
<1> QED BY <1>10, <1>11

\* What goes behind the options.
Marked(payload) == IF payload = <<>> THEN <<>> ELSE <<PayloadMarker>> \o payload

\* So is what a message has behind its token.
LEMMA RestReadsBack ==
  ASSUME NEW opts, Packable(opts), NEW payload \in Seq(Byte),
         opts # <<>> \/ payload = <<>>
  PROVE  parse_OptionsFromRaw(pack_OptionsFromList(opts) \o Marked(payload))
           = [res |-> "OK", opts |-> opts, payload |-> payload]
<1> DEFINE n == Len(opts)
           all == pack_OptionsFromList(opts)
           tail == Marked(payload)
           raw == all \o tail
           starts == OptionStarts(raw)
<1>1. n \in Nat /\ all \in Seq(Byte) /\ Len(all) \in Nat
  BY PackedSize, LenProperties DEF Packable
<1>2. /\ tail \in Seq(Byte) /\ Len(tail) \in Nat
      /\ payload = <<>> => tail = <<>> /\ Len(tail) = 0
      /\ payload # <<>> =>
           /\ Len(tail) = Len(payload) + 1 /\ Len(payload) \in Nat /\ Len(payload) > 0
           /\ tail[1] = PayloadMarker
           /\ \A j \in 1..Len(payload) : tail[j+1] = payload[j]
  <2>1. CASE payload = <<>>
    <3>1. tail = <<>>
      BY <2>1 DEF Marked
    <3> QED BY <2>1, <3>1
  <2>2. CASE payload # <<>>
    <3>1. tail = <<PayloadMarker>> \o payload
      BY <2>2 DEF Marked
    <3> HIDE DEF tail
    <3>2. PayloadMarker \in Byte
      BY DEF PayloadMarker, Byte
    <3> DEFINE w == <<PayloadMarker>> \o payload
    <3>3. /\ w \in Seq(Byte) /\ Len(payload) \in Nat /\ Len(w) = Len(payload) + 1
          /\ w[1] = PayloadMarker
          /\ \A j \in 1..Len(payload) : w[j+1] = payload[j]
      BY <3>2, PrependProperties
    <3>4. Len(payload) > 0
      BY <2>2, EmptySeq
    <3> HIDE DEF w
    <3> QED BY <2>2, <3>1, <3>3, <3>4 DEF w
  <2> QED BY <2>1, <2>2
<1> HIDE DEF all, tail
<1>3. /\ raw \in Seq(Byte) /\ Len(raw) = Len(all) + Len(tail)
      /\ \A j \in 1..Len(all) + Len(tail) :
           raw[j] = IF j <= Len(all) THEN all[j] ELSE tail[j - Len(all)]
  BY <1>1, <1>2, ConcatProperties
<1> HIDE DEF raw
<1>4. Len(all) <= Len(raw) /\ \A j \in 1..Len(all) : raw[j] = all[j]
  BY <1>1, <1>2, <1>3
<1>5. PICK pos : Layout(raw, opts, pos)
  <2>1. /\ Len(pack_OptionsFromList(opts)) <= Len(raw)
        /\ \A j \in 1..Len(pack_OptionsFromList(opts)) :
             raw[j] = pack_OptionsFromList(opts)[j]
    BY <1>4 DEF all
  <2> QED BY <1>3, <2>1, PackedLayout
<1>6. /\ pos \in [0..n -> Nat] /\ pos[0] = 0 /\ pos[n] = Len(all) /\ pos[n] <= Len(raw)
      /\ \A k \in 1..n :
           /\ pos[k-1] < Len(raw) /\ raw[pos[k-1] + 1] # PayloadMarker
           /\ ~Malformed(raw, pos[k-1]) /\ OptionEnd(raw, pos[k-1]) = pos[k]
  BY <1>5 DEF Layout, all
<1>7. payload # <<>> => raw[Len(all) + 1] = PayloadMarker /\ Len(raw) = Len(all) + 1 + Len(payload)
  <2>1. ASSUME payload # <<>> PROVE raw[Len(all) + 1] = PayloadMarker
    <3>1. /\ Len(all) + 1 \in 1..Len(all) + Len(tail) /\ ~(Len(all) + 1 <= Len(all))
          /\ (Len(all) + 1) - Len(all) = 1
      BY <1>1, <1>2, <2>1
    <3>2. raw[Len(all) + 1] = tail[1]
      BY <1>3, <3>1
    <3> QED BY <1>2, <2>1, <3>2
  <2>2. ASSUME payload # <<>> PROVE Len(raw) = Len(all) + 1 + Len(payload)
    <3>1. Len(tail) = Len(payload) + 1 /\ Len(payload) \in Nat
      BY <1>2, <2>2
    <3>2. Len(raw) = Len(all) + Len(tail) /\ Len(all) \in Nat
      BY <1>1, <1>3
    <3> QED BY <3>1, <3>2
  <2> QED BY <2>1, <2>2
<1>8. payload = <<>> => Len(raw) = Len(all)
  BY <1>1, <1>2, <1>3
<1> HIDE DEF n
<1>9. /\ starts \in Seq(Nat) /\ Len(starts) = n + 1
      /\ \A i \in 1..n+1 : starts[i] = pos[i-1]
  <2>1. pos[n] = Len(raw) \/ raw[pos[n] + 1] = PayloadMarker
    BY <1>6, <1>7, <1>8
  <2> QED BY <1>1, <1>3, <1>6, <2>1, StartsAreFound
<1> HIDE DEF starts
<1>10. Last(starts) = Len(all)
  <2>1. n+1 \in 1..n+1 /\ (n+1)-1 = n
    BY <1>1
  <2> QED BY <1>6, <1>9, <2>1 DEF Last
<1> DEFINE q == Front(starts)
<1>11. /\ q \in Seq(Nat) /\ Len(q) = n /\ \A k \in 1..n : q[k] = pos[k-1]
  <2>1. 1 \in 1..Len(starts)+1 /\ Len(starts)-1 \in 1-1..Len(starts)
    BY <1>1, <1>9
  <2> DEFINE b == Len(starts)-1
             s == SubSeq(starts, 1, b)
  <2>2. /\ s \in Seq(Nat) /\ Len(s) = b-1+1
        /\ \A j \in 1..b-1+1 : s[j] = starts[1+j-1]
    BY <1>9, <2>1, PartOfSeq
  <2> HIDE DEF s
  <2>3. b-1+1 = n /\ \A k \in 1..n : 1+k-1 = k /\ k \in 1..n+1
    BY <1>1, <1>9
  <2>4. q = s
    BY DEF Front, s
  <2> HIDE DEF q, b
  <2> QED BY <1>9, <2>2, <2>3, <2>4
<1> HIDE DEF q
<1>12. OptionsAt(raw, q).opts = opts
  <2>1. Len(q) = Len(opts) /\ \A k \in 1..Len(opts) : q[k] = pos[k-1]
    BY <1>11 DEF n
  <2> QED BY <1>3, <1>5, <1>11, <2>1, OptionsReadBack
<1>13. CASE payload = <<>>
  <2>1. Last(OptionStarts(raw)) = Len(raw)
    BY <1>8, <1>10, <1>13 DEF starts
  <2>2. parse_OptionsFromRaw(raw) = [res |-> "OK", opts |-> opts, payload |-> <<>>]
    BY <1>12, <2>1 DEF parse_OptionsFromRaw, q, starts
  <2> QED BY <1>13, <2>2 DEF raw, all, tail
<1>14. CASE payload # <<>>
  <2>1. /\ Last(OptionStarts(raw)) = Len(all)
        /\ Len(all) # Len(raw) /\ Len(raw) - Len(all) > 1
        /\ raw[Len(all) + 1] = PayloadMarker
    BY <1>1, <1>2, <1>7, <1>10, <1>14 DEF starts
  <2>2. Len(all) > 0
    <3>1. n \in Nat \ {0}
      BY <1>1, <1>14, EmptySeq DEF n, Packable
    <3>2. 1 \in 1..n /\ n \in 1..n
      BY <3>1
    <3>3. pos[n-1] < pos[n] /\ pos[n-1] \in Nat
      <4>1. n-1 \in 0..n
        BY <3>1
      <4> QED BY <1>5, <1>6, <3>2, <4>1 DEF Layout, n
    <3> QED BY <1>1, <1>6, <3>3
  <2> DEFINE s == SubSeq(raw, Len(all) + 2, Len(raw))
  <2>3. s = payload
    <3>1. Len(all) + 2 \in 1..Len(raw)+1 /\ Len(raw) \in (Len(all)+2)-1..Len(raw)
      BY <1>1, <1>2, <1>7, <1>14
    <3>2. /\ s \in Seq(Byte) /\ Len(s) = Len(raw) - (Len(all)+2) + 1
          /\ \A j \in 1..Len(raw) - (Len(all)+2) + 1 : s[j] = raw[(Len(all)+2)+j-1]
      BY <1>3, <3>1, PartOfSeq
    <3> HIDE DEF s
    <3>3. Len(raw) - (Len(all)+2) + 1 = Len(payload)
      BY <1>1, <1>2, <1>7, <1>14
    <3>4. ASSUME NEW j \in 1..Len(payload) PROVE s[j] = payload[j]
      <4>1. /\ (Len(all)+2)+j-1 = Len(all)+1+j
            /\ Len(all)+1+j \in 1..Len(all)+Len(tail) /\ ~(Len(all)+1+j <= Len(all))
            /\ (Len(all)+1+j) - Len(all) = j+1
        BY <1>1, <1>2, <1>14
      <4>2. s[j] = raw[Len(all)+1+j]
        BY <3>2, <3>3, <4>1
      <4>3. raw[Len(all)+1+j] = tail[j+1]
        BY <1>3, <4>1
      <4> QED BY <1>2, <1>14, <4>2, <4>3
    <3>5. Len(s) = Len(payload) /\ \A j \in 1..Len(s) : s[j] = payload[j]
      BY <3>2, <3>3, <3>4
    <3> QED BY <3>2, <3>5, SeqEqual
  <2>4. parse_OptionsFromRaw(raw) = [res |-> "OK", opts |-> opts, payload |-> s]
    BY <1>12, <2>1, <2>2 DEF parse_OptionsFromRaw, q, starts
  <2> QED BY <2>3, <2>4 DEF raw, all, tail
<1> QED BY <1>13, <1>14

\* The two parts of a concatenation.
LEMMA PartsOfConcat ==
  ASSUME NEW S, NEW a \in Seq(S), NEW b \in Seq(S)
  PROVE  /\ a \o b \in Seq(S) /\ Len(a) \in Nat /\ Len(b) \in Nat
         /\ Len(a \o b) = Len(a) + Len(b)
         /\ \A i \in 1..Len(a) : (a \o b)[i] = a[i]
         /\ SubSeq(a \o b, Len(a) + 1, Len(a \o b)) = b
<1> DEFINE w == a \o b
<1>1. Len(a) \in Nat /\ Len(b) \in Nat
  BY LenProperties
<1>2. /\ w \in Seq(S) /\ Len(w) = Len(a) + Len(b)
      /\ \A j \in 1..Len(a) + Len(b) :
           w[j] = IF j <= Len(a) THEN a[j] ELSE b[j - Len(a)]
  BY ConcatProperties
<1> HIDE DEF w
<1>3. \A i \in 1..Len(a) : w[i] = a[i]
  BY <1>1, <1>2
<1> DEFINE s == SubSeq(w, Len(a) + 1, Len(w))
<1>4. s = b
  <2>1. Len(a) + 1 \in 1..Len(w)+1 /\ Len(w) \in (Len(a)+1)-1..Len(w)
    BY <1>1, <1>2
  <2>2. /\ s \in Seq(S) /\ Len(s) = Len(w) - (Len(a)+1) + 1
        /\ \A j \in 1..Len(w) - (Len(a)+1) + 1 : s[j] = w[(Len(a)+1)+j-1]
    BY <1>2, <2>1, PartOfSeq
  <2> HIDE DEF s
  <2>3. Len(w) - (Len(a)+1) + 1 = Len(b)
    BY <1>1, <1>2
  <2>4. ASSUME NEW j \in 1..Len(b) PROVE s[j] = b[j]
    <3>1. /\ (Len(a)+1)+j-1 = Len(a)+j /\ Len(a)+j \in 1..Len(a)+Len(b)
          /\ ~(Len(a)+j <= Len(a)) /\ (Len(a)+j)-Len(a) = j
      BY <1>1
    <3> QED BY <1>2, <2>2, <2>3, <3>1
  <2> QED BY <2>2, <2>3, <2>4, SeqEqual
<1> QED BY <1>1, <1>2, <1>3, <1>4 DEF w, s

(***************************************************************************)
(* A whole message.                                                        *)
(***************************************************************************)
\* What the stack may send: of a class that is not reserved, not empty, with a
\* payload the receiver takes.
Sendable(m) ==
  /\ m \in Message /\ m.code # EMPTY /\ ~IsReservedClass(m.code)
  /\ Packable(m.opts) /\ Len(m.payload) <= MAX_PAYLOAD_SIZE

\* The fields of a message, and that there are no others.
LEMMA FieldsOfMessage ==
  ASSUME NEW m \in Message
  PROVE  /\ m.type \in 0..3 /\ m.code \in Byte /\ m.mid \in OptNum /\ m.tok \in Token64
         /\ m.opts \in Seq(Option) /\ m.payload \in Seq(Byte)
         /\ m = [type |-> m.type, code |-> m.code, mid |-> m.mid, tok |-> m.tok,
                 opts |-> m.opts, payload |-> m.payload]
<1> DEFINE V == Seq(Option)
           P == Seq(Byte)
           T == 0..3
<1>1. Message = [type : T, code : Byte, mid : OptNum, tok : Token64, opts : V, payload : P]
  BY DEF Message
<1> HIDE DEF V, P, T
<1>2. /\ m.type \in T /\ m.code \in Byte /\ m.mid \in OptNum /\ m.tok \in Token64
      /\ m.opts \in V /\ m.payload \in P
      /\ m = [type |-> m.type, code |-> m.code, mid |-> m.mid, tok |-> m.tok,
              opts |-> m.opts, payload |-> m.payload]
  BY <1>1
<1> QED BY <1>2 DEF V, P, T

\* What is not sent of a token is zero, and is put back by the receiver.
LEMMA TokenReadsBack ==
  ASSUME NEW tok \in Token64
  PROVE  LET tkl == getTokenByteCount(tok)
             bytes == [i \in 1..tkl |-> tok[i]]
         IN  /\ tkl \in 0..8 /\ bytes \in Seq(Byte) /\ Len(bytes) = tkl
             /\ StoredToken(bytes) = tok
             /\ tkl = 0 => tok = NoToken
<1> DEFINE tkl == getTokenByteCount(tok)
           used == {i \in 1..8 : tok[i] # 0}
           bytes == [i \in 1..tkl |-> tok[i]]
<1>1. tkl \in 0..8 /\ \A i \in 1..8 : i > tkl => tok[i] = 0
  <2>1. CASE used = {}
    <3>1. tkl = 0
      BY <2>1 DEF getTokenByteCount
    <3> QED BY <2>1, <3>1
  <2>2. CASE used # {}
    <3>1. Max(used) \in used /\ \A y \in used : Max(used) >= y
      <4>1. used \in SUBSET (1..8) /\ 8 \in Nat
        OBVIOUS
      <4> HIDE DEF used
      <4> QED BY <2>2, <4>1, GreatestElement
    <3>2. \A y \in used : y <= Max(used)
      <4>1. \A y \in used : y \in Int
        OBVIOUS
      <4> HIDE DEF used
      <4> QED BY <3>1, <4>1
    <3>3. tkl = CHOOSE i \in used : \A j \in used : j <= i
      BY <2>2 DEF getTokenByteCount
    <3> HIDE DEF used, tkl
    <3>4. tkl \in used /\ \A j \in used : j <= tkl
      BY <3>1, <3>2, <3>3
    <3>5. ASSUME NEW i \in 1..8, i > tkl PROVE tok[i] = 0
      <4>1. tkl \in 1..8
        BY <3>4 DEF used
      <4>2. i \notin used
        BY <3>4, <3>5, <4>1
      <4> QED BY <4>2 DEF used
    <3>6. tkl \in 0..8
      BY <3>4 DEF used
    <3> QED BY <3>5, <3>6
  <2> QED BY <2>1, <2>2
<1> HIDE DEF tkl, used
<1>2. \A i \in 1..8 : tok[i] \in Byte
  BY DEF Token64
<1>3. bytes \in Seq(Byte) /\ Len(bytes) = tkl /\ \A i \in 1..tkl : bytes[i] = tok[i]
  <2>1. tkl \in Nat /\ \A i \in 1..tkl : tok[i] \in Byte
    BY <1>1, <1>2
  <2> QED BY <2>1
<1> HIDE DEF bytes
<1>4. StoredToken(bytes) = tok
  <2>1. \A i \in 1..8 : (IF i <= Len(bytes) THEN bytes[i] ELSE 0) = tok[i]
    BY <1>1, <1>3
  <2>2. tok = [i \in 1..8 |-> tok[i]]
    BY DEF Token64
  <2> QED BY <2>1, <2>2 DEF StoredToken
<1>5. tkl = 0 => tok = NoToken
  <2>1. tkl = 0 => \A i \in 1..8 : tok[i] = 0
    BY <1>1
  <2>2. tok = [i \in 1..8 |-> tok[i]]
    BY DEF Token64
  <2> QED BY <2>1, <2>2 DEF NoToken
<1> QED BY <1>1, <1>3, <1>4, <1>5 DEF tkl, bytes

\* The fixed part of the header is read as it was written.
LEMMA HeaderReadsBack ==
  ASSUME NEW type \in 0..3, NEW tkl \in 0..8
  PROVE  LET first == 64 * COAP_VERSION + 16 * type + tkl
         IN  /\ first \in Byte /\ first % 16 = tkl /\ first \div 64 = COAP_VERSION
             /\ (first \div 16) % 4 = type
<1> DEFINE first == 64 + 16 * type + tkl
<1>1. first \in 0..255 /\ first % 16 = tkl /\ first \div 64 = 1 /\ (first \div 16) % 4 = type
  OBVIOUS
<1> QED BY <1>1 DEF COAP_VERSION, Byte

\* Every message the stack may send is read by the receiver as the one that was
\* built, field by field, and its datagram is just as long as the buffer that
\* was allocated for it (CoAP_BuildDatagram, CoAP_GetRawSizeOfMessage,
\* CoAP_ParseMessageFromDatagram).
THEOREM MessageReadsBack ==
  ASSUME NEW m, Sendable(m)
  PROVE  ReadsBack(CoAP_BuildDatagram(m), m)
<1> DEFINE opts == m.opts
           payload == m.payload
           tkl == getTokenByteCount(m.tok)
           bytes == [i \in 1..tkl |-> m.tok[i]]
           first == 64 * COAP_VERSION + 16 * m.type + tkl
           head == <<first, m.code, m.mid \div 256, m.mid % 256>>
           front == head \o bytes
           all == pack_OptionsFromList(opts)
           rest == all \o Marked(payload)
           raw == front \o rest
<1>1. /\ m.type \in 0..3 /\ m.code \in Byte /\ m.mid \in OptNum /\ m.tok \in Token64
      /\ opts \in Seq(Option) /\ payload \in Seq(Byte)
      /\ m = [type |-> m.type, code |-> m.code, mid |-> m.mid, tok |-> m.tok,
              opts |-> opts, payload |-> payload]
  BY FieldsOfMessage DEF Sendable
<1>2. /\ m.code # EMPTY /\ ~IsReservedClass(m.code) /\ Packable(opts)
      /\ Len(payload) <= MAX_PAYLOAD_SIZE
  BY DEF Sendable
<1>3. /\ tkl \in 0..8 /\ bytes \in Seq(Byte) /\ Len(bytes) = tkl
      /\ StoredToken(bytes) = m.tok /\ (tkl = 0 => m.tok = NoToken)
  BY <1>1, TokenReadsBack
<1>4. /\ all \in Seq(Byte) /\ Len(all) \in Nat
      /\ Len(all) = CoAP_NeededMem4PackOptions(opts)
  BY <1>2, PackedSize, LenProperties
<1>5. /\ Marked(payload) \in Seq(Byte)
      /\ Len(Marked(payload)) = IF payload = <<>> THEN 0 ELSE Len(payload) + 1
      /\ Len(payload) \in Nat
  <2>1. CASE payload = <<>>
    BY <2>1 DEF Marked
  <2>2. CASE payload # <<>>
    <3>1. PayloadMarker \in Byte
      BY DEF PayloadMarker, Byte
    <3>2. Marked(payload) = <<PayloadMarker>> \o payload
      BY <2>2 DEF Marked
    <3>3. payload \in Seq(Byte)
      BY <1>1
    <3> HIDE DEF payload
    <3>4. /\ <<PayloadMarker>> \o payload \in Seq(Byte) /\ Len(payload) \in Nat
          /\ Len(<<PayloadMarker>> \o payload) = Len(payload) + 1
      BY <3>1, <3>3, PrependProperties
    <3> QED BY <2>2, <3>2, <3>4
  <2> QED BY <2>1, <2>2
<1>6. /\ first \in Byte /\ first % 16 = tkl /\ first \div 64 = COAP_VERSION
      /\ (first \div 16) % 4 = m.type
  BY <1>1, <1>3, HeaderReadsBack
<1>7. /\ m.mid \div 256 \in Byte /\ m.mid % 256 \in Byte
      /\ (m.mid \div 256) * 256 + (m.mid % 256) = m.mid
  <2> DEFINE n == m.mid
  <2>1. n \in Nat /\ n < 65536
    BY <1>1 DEF OptNum
  <2> HIDE DEF n
  <2>2. n \div 256 \in Nat /\ n \div 256 < 256 /\ n % 256 \in Nat /\ n % 256 < 256
        /\ (n \div 256) * 256 + (n % 256) = n
    BY <2>1, TwoBytes
  <2>3. \A b \in Nat : b < 256 => b \in Byte
    BY DEF Byte
  <2>4. n \div 256 \in Byte /\ n % 256 \in Byte
    BY <2>2, <2>3
  <2> QED BY <2>2, <2>4 DEF n
<1>8. CoAP_BuildDatagram(m) = ((head \o bytes) \o all) \o Marked(payload)
  <2> DEFINE t == IF m.code = EMPTY THEN 0 ELSE getTokenByteCount(m.tok)
             p == IF m.code = EMPTY THEN <<>> ELSE m.payload
             datagram(a, b) ==
               <<64 * COAP_VERSION + 16 * m.type + a, m.code, m.mid \div 256, m.mid % 256>>
               \o [i \in 1..a |-> m.tok[i]] \o pack_OptionsFromList(m.opts) \o Marked(b)
  <2>1. CoAP_BuildDatagram(m) = datagram(t, p)
    BY ONLY DEF CoAP_BuildDatagram, Marked
  <2>2. t = tkl /\ p = payload
    BY <1>2
  <2>3. datagram(tkl, payload) = ((head \o bytes) \o all) \o Marked(payload)
    OBVIOUS
  <2> HIDE DEF t, p, datagram, tkl, payload
  <2>4. datagram(t, p) = datagram(tkl, payload)
    BY <2>2
  <2> QED BY ONLY <2>1, <2>3, <2>4
<1> DEFINE hi == m.mid \div 256
           lo == m.mid % 256
<1> HIDE DEF first, tkl, bytes, all, opts, payload
<1>9. /\ head \in Seq(Byte) /\ Len(head) = 4
      /\ head[1] = first /\ head[2] = m.code /\ head[3] = hi /\ head[4] = lo
  <2> DEFINE code == m.code
  <2>1. first \in Byte /\ code \in Byte /\ hi \in Byte /\ lo \in Byte
    BY ONLY <1>1, <1>6, <1>7
  <2> HIDE DEF hi, lo, code
  <2>2. <<first, code, hi, lo>> \in Seq(Byte)
    BY <2>1
  <2>3. head = <<first, code, hi, lo>>
    BY DEF hi, lo, code
  <2> QED BY <2>2, <2>3 DEF code
<1> HIDE DEF head, hi, lo
<1>10. /\ front \in Seq(Byte) /\ Len(front) = 4 + tkl
       /\ front[1] = first /\ front[2] = m.code /\ front[3] = hi /\ front[4] = lo
       /\ SubSeq(front, 5, 4 + tkl) = bytes
  <2>1. /\ front \in Seq(Byte) /\ Len(front) = Len(head) + Len(bytes)
        /\ \A i \in 1..Len(head) : front[i] = head[i]
        /\ SubSeq(front, Len(head) + 1, Len(front)) = bytes
    <3>1. head \in Seq(Byte) /\ bytes \in Seq(Byte)
      BY <1>3, <1>9
    <3> QED BY ONLY <3>1, PartsOfConcat
  <2> HIDE DEF front
  <2>2. Len(front) = 4 + tkl /\ Len(head) + 1 = 5
    BY <1>3, <1>9, <2>1
  <2>3. \A i \in 1..4 : front[i] = head[i]
    BY <1>9, <2>1
  <2> QED BY <1>9, <2>1, <2>2, <2>3
<1>11. rest \in Seq(Byte) /\ Len(rest) = Len(all) + Len(Marked(payload))
  <2> DEFINE t == Marked(payload)
  <2>1. all \in Seq(Byte) /\ t \in Seq(Byte)
    BY <1>4, <1>5
  <2> HIDE DEF t
  <2>2. all \o t \in Seq(Byte) /\ Len(all \o t) = Len(all) + Len(t)
    BY <2>1, ConcatProperties
  <2> QED BY <2>2 DEF t
<1>12. CoAP_BuildDatagram(m) = raw
  <2> DEFINE t == Marked(payload)
  <2>1. front \in Seq(Byte) /\ all \in Seq(Byte) /\ t \in Seq(Byte)
    BY <1>4, <1>5, <1>10
  <2>2. CoAP_BuildDatagram(m) = (front \o all) \o t
    BY <1>8
  <2> HIDE DEF t, front
  <2>3. (front \o all) \o t = front \o (all \o t)
    BY <2>1, ConcatAssociative
  <2> QED BY <2>2, <2>3 DEF t
<1>13. opts # <<>> \/ payload = <<>> =>
         parse_OptionsFromRaw(rest) = [res |-> "OK", opts |-> opts, payload |-> payload]
  BY <1>1, <1>2, RestReadsBack DEF all, opts, payload
<1> HIDE DEF front, rest
<1>14. /\ raw \in Seq(Byte) /\ Len(raw) = 4 + tkl + Len(rest) /\ Len(rest) \in Nat
       /\ raw[1] = first /\ raw[2] = m.code /\ raw[3] = hi /\ raw[4] = lo
       /\ SubSeq(raw, 5 + tkl, Len(raw)) = rest
       /\ SubSeq(raw, 5, 4 + tkl) = bytes
  <2>1. /\ raw \in Seq(Byte) /\ Len(front) \in Nat /\ Len(rest) \in Nat
        /\ Len(raw) = Len(front) + Len(rest)
        /\ \A i \in 1..Len(front) : raw[i] = front[i]
        /\ SubSeq(raw, Len(front) + 1, Len(raw)) = rest
    BY <1>10, <1>11, PartsOfConcat
  <2> HIDE DEF raw
  <2>2. Len(front) = 4 + tkl /\ Len(front) + 1 = 5 + tkl /\ tkl \in Nat
    BY <1>3, <1>10
  <2>3. 1 \in 1..Len(front) /\ 2 \in 1..Len(front) /\ 3 \in 1..Len(front) /\ 4 \in 1..Len(front)
    BY <2>2
  <2>4. SubSeq(raw, 5, 4 + tkl) = SubSeq(front, 5, 4 + tkl)
    <3> DEFINE to == 4 + tkl
               x == SubSeq(raw, 5, to)
               y == SubSeq(front, 5, to)
    <3>1. /\ 5 \in 1..Len(raw)+1 /\ to \in 5-1..Len(raw)
          /\ 5 \in 1..Len(front)+1 /\ to \in 5-1..Len(front)
      BY <2>1, <2>2
    <3>4. \A j \in 1..to-5+1 : 5+j-1 \in 1..Len(front)
      BY <2>2
    <3> HIDE DEF to
    <3>2. /\ x \in Seq(Byte) /\ Len(x) = to-5+1
          /\ \A j \in 1..to-5+1 : x[j] = raw[5+j-1]
      BY <2>1, <3>1, PartOfSeq
    <3>3. /\ y \in Seq(Byte) /\ Len(y) = to-5+1
          /\ \A j \in 1..to-5+1 : y[j] = front[5+j-1]
      BY <1>10, <3>1, PartOfSeq
    <3> HIDE DEF x, y
    <3>5. \A j \in 1..Len(x) : x[j] = y[j]
      BY <2>1, <3>2, <3>3, <3>4
    <3>6. x = y
      BY <3>2, <3>3, <3>5, SeqEqual
    <3> QED BY <3>6 DEF x, y, to
  <2> QED BY <1>10, <2>1, <2>2, <2>3, <2>4
<1> HIDE DEF raw
<1>15. Len(raw) = CoAP_GetRawSizeOfMessage(m)
  <2>1. CoAP_GetRawSizeOfMessage(m)
          = 4 + Len(all) + ((IF payload = <<>> THEN 0 ELSE Len(payload) + 1) + tkl)
    BY <1>2, <1>4 DEF CoAP_GetRawSizeOfMessage, opts, payload, tkl
  <2>2. tkl \in Nat /\ Len(Marked(payload)) \in Nat
    BY <1>3, <1>5
  <2>3. Len(raw) = 4 + tkl + (Len(all) + Len(Marked(payload))) /\ Len(all) \in Nat
    BY <1>4, <1>11, <1>14
  <2>4. Len(Marked(payload)) = (IF payload = <<>> THEN 0 ELSE Len(payload) + 1)
    BY <1>5
  <2> DEFINE a == Len(raw)
             b == Len(all)
             t == Len(Marked(payload))
             size == CoAP_GetRawSizeOfMessage(m)
  <2>5. /\ tkl \in Nat /\ t \in Nat /\ b \in Nat /\ a = 4 + tkl + (b + t)
        /\ size = 4 + b + (t + tkl)
    BY <2>1, <2>2, <2>3, <2>4
  <2> HIDE DEF a, b, t, size
  <2>6. a = size
    BY <2>5
  <2> QED BY <2>6 DEF a, size
<1>16. ASSUME opts # <<>> \/ payload = <<>>
       PROVE  CoAP_ParseMessageFromDatagram(raw) = [res |-> "OK", msg |-> m]
  <2> DEFINE r == [res |-> "OK", opts |-> opts, payload |-> payload]
  <2>1. raw[1] % 16 = tkl /\ raw[1] \div 64 = COAP_VERSION /\ (raw[1] \div 16) % 4 = m.type
    BY <1>6, <1>14
  <2>2. raw[3] * 256 + raw[4] = m.mid
    BY <1>7, <1>14 DEF hi, lo
  <2>3. parse_OptionsFromRaw(SubSeq(raw, 5 + (raw[1] % 16), Len(raw))) = r
    BY <1>13, <1>14, <1>16, <2>1
  <2>4. (IF Len(raw) = 4 THEN NoToken ELSE StoredToken(SubSeq(raw, 5, 4 + (raw[1] % 16)))) = m.tok
    <3>0. tkl \in Nat /\ Len(rest) \in Nat /\ Len(raw) = 4 + tkl + Len(rest)
      BY <1>3, <1>14
    <3> DEFINE a == Len(raw)
               b == Len(rest)
    <3>1. Len(raw) = 4 => tkl = 0
      <4>1. tkl \in Nat /\ b \in Nat /\ a = 4 + tkl + b
        BY <3>0
      <4> HIDE DEF a, b
      <4>2. a = 4 => tkl = 0
        BY <4>1
      <4> QED BY <4>2 DEF a
    <3>2. StoredToken(SubSeq(raw, 5, 4 + (raw[1] % 16))) = m.tok
      BY <1>3, <1>14, <2>1
    <3> QED BY <1>3, <3>1, <3>2
  <2>5. ~(tkl > 8) /\ ~(Len(payload) > MAX_PAYLOAD_SIZE) /\ ~(Len(raw) < 4)
    <3>1. Len(payload) \in Nat /\ MAX_PAYLOAD_SIZE \in Nat /\ tkl \in 0..8
      BY <1>3, <1>5, WireAssumption
    <3> QED BY <1>2, <1>14, <3>1 DEF payload
  <2>6. ~(raw[1] \div 64 # COAP_VERSION) /\ ~(raw[1] % 16 > 8) /\ ~IsReservedClass(raw[2])
    BY <1>2, <1>14, <2>1, <2>5
  <2>7. /\ r.res = "OK" /\ r.opts = opts /\ r.payload = payload
    OBVIOUS
  <2> HIDE DEF r
  <2>8. Parsed(raw) = [res |-> "OK",
                       msg |-> [type |-> m.type, code |-> m.code, mid |-> m.mid,
                                tok |-> m.tok, opts |-> opts, payload |-> payload]]
    BY <1>14, <2>1, <2>2, <2>3, <2>4, <2>5, <2>6, <2>7 DEF Parsed
  <2>9. Parsed(raw) = [res |-> "OK", msg |-> m]
    BY <1>1, <2>8 DEF opts, payload
  <2> QED BY <2>5, <2>9 DEF CoAP_ParseMessageFromDatagram
<1>17. ReadsBack(raw, m)
  BY <1>15, <1>16 DEF ReadsBack, opts, payload
<1> QED BY <1>12, <1>17
=============================================================================
