---------------------------- MODULE TransferProofs ----------------------------
(***************************************************************************)
(* Every transfer and every notification: options stay sorted              *)
(* (OptionsSorted), a payload has room where the response points to        *)
(* (PayloadFits), and each datagram is read as the message it was built    *)
(* from (DatagramsReadBack).                                               *)
(*                                                                         *)
(* None of them is inductive.  A datagram is read as it was built only if  *)
(* its message can be packed: its options sorted, none of them too long,   *)
(* and so few that their size fits 16 bits.  TransferInv says so of the    *)
(* message sent last, and says of a notification under way what the next   *)
(* refresh builds on: that it has one Observe option, which carries the    *)
(* counter of the change, and at most Room options, since a refresh whose  *)
(* representation needs several blocks adds a Block2 option to the ones    *)
(* the message has.  A handler gets an empty message in the buffer that    *)
(* comes with it, and gives one back with at most two options.             *)
(*                                                                         *)
(* What a client receives (HandledAsAsked, EveryAnswerContinues,           *)
(* ReceivedIsContent) is about what those messages say.  TalkInv follows   *)
(* the bytes from the representation to the client: the request on its way *)
(* is the one the client would make now, its options are read as the path, *)
(* the query and the block its URI and its client mean, the response cuts  *)
(* out of the representation what follows what the client has, and the     *)
(* client has the beginning of it.  Two parts of it hold for whatever      *)
(* representation the server has meanwhile: a block begins where the       *)
(* client ends (LeadsOn), and its number fits twelve bits, since a         *)
(* representation has less than 65536 bytes and a block at least 16.       *)
(***************************************************************************)
EXTENDS WireProofs

(***************************************************************************)
(* Transfers: what the messages on their way have in common.               *)
(***************************************************************************)
\* A sorted list of at most n options, none of them with too long a value.
Options(opts, n) ==
  /\ opts \in Seq(Option) /\ Sorted(opts) /\ Len(opts) <= n
  /\ \A i \in 1..Len(opts) : Len(opts[i].val) <= MAX_OPTION_VALUE_SIZE

\* There is one Observe option, and it carries c.
OneObserve(opts, c) ==
  \E p \in 1..Len(opts) :
    /\ opts[p].num = OPT_NUM_OBSERVE /\ opts[p].val = ObserveBytes(c)
    /\ \A j \in 1..Len(opts) : opts[j].num = OPT_NUM_OBSERVE => j = p

\* Its length and its version.
Representation == [len : Nat, ver : Nat]
ClientStates == {"IDLE", "WAITING", "DONE", "STUCK", "REFUSED", "OBSERVING"}
Client == [state : ClientStates,
           size : BlockSizeValues \cup {0}, got : Seq(Byte), since : Nat]

\* A request that is being answered: its handler finds an empty message and
\* the buffer that comes with it.
Answering(r) ==
  /\ Sorted(r.req.opts) /\ Sorted(r.msg.opts)
  /\ HasRoom(r.buf, Len(r.msg.payload))
  /\ ~r.sent => /\ r.res \in HandlerIds /\ r.msg.opts = <<>> /\ r.msg.payload = <<>>
                /\ r.msg.code = EMPTY
                /\ r.buf = OwnBuffer(PREFERED_PAYLOAD_SIZE)

\* No representation of an observed resource needs a second block.
AllFit == \A k \in NotifyLengths : k <= MAX_PAYLOAD_SIZE

\* The number of options a notification may have: each refresh for a
\* representation in several blocks adds one.
Room(r) == IF AllFit THEN 1 ELSE rep.ver + (IF r.upd THEN 0 ELSE 1)

\* A notification under way.
Notifying(r) ==
  /\ client.state = "OBSERVING" /\ rep.len \in NotifyLengths
  /\ r.req.opts = <<>> /\ Sendable(r.msg) /\ Options(r.msg.opts, Room(r))
  /\ HasRoom(r.buf, Len(r.msg.payload))
  /\ r.cnt < CntLimit /\ OneObserve(r.msg.opts, r.cnt)

\* Who takes part: the counter does not reach its limit before the last change.
Taking ==
  /\ rep \in Representation /\ asked \in Requests /\ client \in Client
  /\ cnt \in Nat /\ cnt < CntLimit
  /\ client.state = "OBSERVING" =>
       rep.ver <= MaxNotified /\ cnt + (MaxNotified - rep.ver) < CntLimit

\* The request that was sent last, and the datagram it was packed into.
RequestUnderWay ==
  /\ sentReq = EmptyResetMsg \/ Sendable(sentReq)
  /\ toServer # NULL =>
       /\ Sendable(sentReq) /\ sentReq.payload = <<>>
       /\ toServer = CoAP_BuildDatagram(sentReq)

\* Likewise the response or notification.
ResponseUnderWay ==
  /\ sentResp = EmptyResetMsg \/ Sendable(sentResp)
  /\ toClient # NULL => Sendable(sentResp) /\ toClient = CoAP_BuildDatagram(sentResp)

\* What the server is working on.
ServerAtWork ==
  resp # NULL =>
    /\ resp \in Work
    /\ \/ resp.kind = "REQUEST" /\ Answering(resp)
       \/ resp.kind = "NOTIFICATION" /\ Notifying(resp)

TransferInv == Taking /\ RequestUnderWay /\ ResponseUnderWay /\ ServerAtWork

(***************************************************************************)
(* Options, one at a time.                                                 *)
(***************************************************************************)
\* new is opts with e as its p-th option.
Inserted(new, opts, p, e) ==
  /\ p \in 1..Len(opts)+1 /\ Len(new) = Len(opts) + 1
  /\ \A j \in 1..Len(opts)+1 :
       new[j] = IF j < p THEN opts[j] ELSE IF j = p THEN e ELSE opts[j-1]

\* An option is inserted where it belongs.
LEMMA AppendInserts ==
  ASSUME NEW opts \in Seq(Option), Sorted(opts), NEW n \in OptNum, NEW v \in Seq(Byte)
  PROVE  Inserted(CoAP_AppendOptionToList(opts, n, v), opts, InsertPos(opts, n),
                  CoAP_option_t(n, v))
<1> DEFINE e == CoAP_option_t(n, v)
           p == InsertPos(opts, n)
<1>1. p \in 1..Len(opts)+1
  BY InsertPosIsBetween
<1>2. e \in Option
  BY OneOption
<1> HIDE DEF e, p
<1>3. Inserted(InsertAt(opts, p, e), opts, p, e)
  BY <1>1, <1>2, InsertAtProperties DEF Inserted
<1> QED BY <1>3 DEF CoAP_AppendOptionToList, e, p

\* A list with one more option.
LEMMA OneMoreOption ==
  ASSUME NEW n \in Nat, NEW opts, Options(opts, n),
         NEW num \in OptNum, NEW v \in Seq(Byte), Len(v) <= MAX_OPTION_VALUE_SIZE
  PROVE  Options(CoAP_AppendOptionToList(opts, num, v), n + 1)
<1> DEFINE new == CoAP_AppendOptionToList(opts, num, v)
           e == CoAP_option_t(num, v)
<1>1. opts \in Seq(Option) /\ Sorted(opts) /\ Len(opts) <= n
  BY DEF Options
<1>2. new \in Seq(Option) /\ Sorted(new) /\ Len(new) = Len(opts) + 1
  BY <1>1, AppendKeepsSorted
<1>3. PICK p : Inserted(new, opts, p, e)
  BY <1>1, AppendInserts
<1>4. e.val = v
  BY DEF CoAP_option_t
<1>5. Len(opts) \in Nat
  BY <1>1, LenProperties
<1> HIDE DEF new, e
<1>6. ASSUME NEW j \in 1..Len(new) PROVE Len(new[j].val) <= MAX_OPTION_VALUE_SIZE
  <2>1. CASE j = p
    BY <1>2, <1>3, <1>4, <2>1 DEF Inserted
  <2>2. CASE j # p
    <3>1. PICK i \in 1..Len(opts) : new[j] = opts[i]
      <4>1. j < p => j \in 1..Len(opts) /\ new[j] = opts[j]
        BY <1>2, <1>3, <1>5 DEF Inserted
      <4>2. ~(j < p) => j-1 \in 1..Len(opts) /\ new[j] = opts[j-1]
        BY <1>2, <1>3, <1>5, <2>2 DEF Inserted
      <4> QED BY <4>1, <4>2
    <3> QED BY <3>1 DEF Options
  <2> QED BY <2>1, <2>2
<1>7. Len(new) <= n + 1
  BY <1>1, <1>2, <1>5
<1> QED BY <1>2, <1>6, <1>7 DEF Options, new

\* No list has fewer options.
LEMMA NoOptions == Options(<<>>, 0)
<1>1. <<>> \in Seq(Option) /\ Len(<<>>) = 0
  OBVIOUS
<1> QED BY <1>1 DEF Options, Sorted

\* A few options more may be there.
LEMMA MayBeFewer ==
  ASSUME NEW m \in Int, NEW n \in Int, m <= n, NEW opts, Options(opts, m)
  PROVE  Options(opts, n)
<1>1. Len(opts) \in Nat
  BY LenProperties DEF Options
<1> QED BY <1>1 DEF Options

\* Such a list can be packed.
LEMMA OptionsPack ==
  ASSUME NEW n \in Nat, n * (MAX_OPTION_VALUE_SIZE + 5) < 65536,
         NEW opts, Options(opts, n)
  PROVE  Packable(opts)
<1> DEFINE W == MAX_OPTION_VALUE_SIZE + 5
<1>1. Len(opts) \in Nat /\ Len(opts) <= n
  BY LenProperties DEF Options
<1>2. W \in Nat
  BY WireAssumption
<1>3. Len(opts) \in 0..n
  BY <1>1
<1> HIDE DEF W
<1>4. Len(opts) * W <= n * W /\ Len(opts) * W \in Nat /\ n * W \in Nat
  BY <1>2, <1>3, Times
<1>5. n * W < 65536
  BY DEF W
<1>6. Len(opts) * W < 65536
  BY <1>4, <1>5
<1> QED BY <1>6 DEF Packable, Options, W

(***************************************************************************)
(* The Observe option.                                                     *)
(***************************************************************************)
\* A counter of three bytes is read from an Observe option as it was written.
LEMMA ObserveReadsBack ==
  ASSUME NEW c \in Nat, c < CntLimit
  PROVE  /\ ObserveBytes(c) \in Seq(Byte) /\ Len(ObserveBytes(c)) <= 3
         /\ NumberIn(ObserveBytes(c)) = c
<1>1. CASE c = 0
  <2> DEFINE none == <<>>
  <2>1. ObserveBytes(c) = none
    BY <1>1 DEF ObserveBytes
  <2>2. none \in Seq(Byte) /\ Len(none) = 0
    OBVIOUS
  <2> HIDE DEF none
  <2>3. NumberIn(none) = 0
    BY <2>2 DEF NumberIn
  <2>4. NumberIn(ObserveBytes(c)) = c
    BY <1>1, <2>1, <2>3, Zenon
  <2>5. Len(ObserveBytes(c)) = 0 /\ ObserveBytes(c) \in Seq(Byte)
    BY <2>1, <2>2, Zenon
  <2>6. Len(ObserveBytes(c)) <= 3
    BY <2>5
  <2> QED BY <2>4, <2>5, <2>6, Zenon
<1>2. CASE 0 < c /\ c < 256
  <2>1. ObserveBytes(c) = <<c>> /\ c \in Byte
    BY <1>2 DEF ObserveBytes, Byte
  <2> HIDE DEF Byte
  <2>2. <<c>> \in Seq(Byte) /\ Len(<<c>>) = 1 /\ <<c>>[1] = c
    BY <2>1
  <2> QED BY <2>1, <2>2 DEF NumberIn
<1>3. CASE 256 <= c /\ c < 65536
  <2> DEFINE h == c \div 256
             l == c % 256
  <2>1. h \in 0..255 /\ l \in 0..255 /\ h * 256 + l = c
    BY <1>3
  <2>2. ObserveBytes(c) = <<h, l>>
    BY <1>3 DEF ObserveBytes
  <2>3. h \in Byte /\ l \in Byte
    BY <2>1 DEF Byte
  <2> HIDE DEF h, l
  <2>4. <<h, l>> \in Seq(Byte) /\ Len(<<h, l>>) = 2 /\ <<h, l>>[1] = h /\ <<h, l>>[2] = l
    BY <2>3
  <2>5. NumberIn(<<h, l>>) = h * 256 + l
    BY <2>4 DEF NumberIn
  <2> QED BY <2>1, <2>2, <2>4, <2>5
<1>4. CASE 65536 <= c
  <2> DEFINE h == (c \div 65536) % 256
             m == (c \div 256) % 256
             l == c % 256
  <2>1. h \in 0..255 /\ m \in 0..255 /\ l \in 0..255
    OBVIOUS
  <2>2. h * 65536 + m * 256 + l = c
    <3>1. c \div 65536 < 256 /\ c \div 65536 \in Nat
      BY DEF CntLimit
    <3>2. h = c \div 65536
      BY <3>1
    <3>3. c \div 65536 = (c \div 256) \div 256
      OBVIOUS
    <3>4. (c \div 256) * 256 + l = c /\ c \div 256 \in Nat
      OBVIOUS
    <3>5. ((c \div 256) \div 256) * 256 + m = c \div 256
      BY <3>4
    <3> QED BY <3>2, <3>3, <3>4, <3>5
  <2>3. ObserveBytes(c) = <<h, m, l>>
    BY <1>4 DEF ObserveBytes
  <2>4. h \in Byte /\ m \in Byte /\ l \in Byte
    BY <2>1 DEF Byte
  <2> HIDE DEF h, m, l
  <2>5. /\ <<h, m, l>> \in Seq(Byte) /\ Len(<<h, m, l>>) = 3
        /\ <<h, m, l>>[1] = h /\ <<h, m, l>>[2] = m /\ <<h, m, l>>[3] = l
    BY <2>4
  <2>6. NumberIn(<<h, m, l>>) = h * 65536 + m * 256 + l
    BY <2>5 DEF NumberIn
  <2> QED BY <2>2, <2>3, <2>5, <2>6
<1> QED BY <1>1, <1>2, <1>3, <1>4

\* The first option with a number is found.
LEMMA FirstPositionIs ==
  ASSUME NEW opts, Len(opts) \in Nat, NEW n
  PROVE  /\ FirstPosition(opts, n) \in 0..Len(opts)
         /\ FirstPosition(opts, n) = 0 => \A j \in 1..Len(opts) : opts[j].num # n
         /\ FirstPosition(opts, n) # 0 => opts[FirstPosition(opts, n)].num = n
<1>1. CASE Positions(opts, n) = {}
  <2>1. FirstPosition(opts, n) = 0
    BY <1>1 DEF FirstPosition
  <2>2. \A j \in 1..Len(opts) : opts[j].num # n
    BY <1>1 DEF Positions
  <2> QED BY <2>1, <2>2
<1>2. CASE Positions(opts, n) # {}
  <2> DEFINE P == Positions(opts, n)
  <2>1. P \subseteq Nat /\ P # {}
    BY <1>2 DEF Positions
  <2> HIDE DEF P
  <2>2. \E i \in P : \A j \in P : i <= j
    BY <2>1, LeastElement
  <2>3. FirstPosition(opts, n) = CHOOSE i \in P : \A j \in P : i <= j
    BY <1>2 DEF FirstPosition, P
  <2>4. FirstPosition(opts, n) \in P
    BY <2>2, <2>3
  <2>5. FirstPosition(opts, n) \in 1..Len(opts) /\ opts[FirstPosition(opts, n)].num = n
    BY <2>4 DEF P, Positions
  <2> QED BY <2>5
<1> QED BY <1>1, <1>2

\* There is no Observe option.
NoObserve(opts) == \A j \in 1..Len(opts) : opts[j].num # OPT_NUM_OBSERVE

\* The numbers and values the stack adds itself.
LEMMA OwnNumbers ==
  /\ OPT_NUM_OBSERVE \in OptNum /\ OPT_BLOCK2 \in OptNum
  /\ OPT_NUM_CONTENT_FORMAT \in OptNum
  /\ OPT_NUM_URI_PATH \in OptNum /\ OPT_NUM_URI_QUERY \in OptNum
  /\ OPT_BLOCK2 # OPT_NUM_OBSERVE /\ OPT_NUM_CONTENT_FORMAT # OPT_NUM_OBSERVE
BY DEF OPT_NUM_OBSERVE, OPT_BLOCK2, OPT_NUM_CONTENT_FORMAT, OPT_NUM_URI_PATH,
       OPT_NUM_URI_QUERY, OptNum

\* An Observe option is added to a list without one.
LEMMA ObserveAdded ==
  ASSUME NEW n \in Nat, NEW opts, Options(opts, n), NoObserve(opts),
         NEW c \in Nat, c < CntLimit
  PROVE  /\ Options(AddObserveOptionToMsg(opts, c), n + 1)
         /\ OneObserve(AddObserveOptionToMsg(opts, c), c)
<1> DEFINE v == ObserveBytes(c)
           new == CoAP_AppendOptionToList(opts, OPT_NUM_OBSERVE, v)
           e == CoAP_option_t(OPT_NUM_OBSERVE, v)
<1>1. v \in Seq(Byte) /\ Len(v) <= 3 /\ Len(v) \in Nat
  BY ObserveReadsBack, LenProperties
<1> HIDE DEF v
<1>2. Len(v) <= MAX_OPTION_VALUE_SIZE
  BY <1>1, WireAssumption
<1>3. opts \in Seq(Option) /\ Sorted(opts)
  BY DEF Options
<1>4. Len(opts) \in Nat
  BY <1>3, LenProperties
<1>5. Options(new, n + 1)
  BY <1>1, <1>2, OwnNumbers, OneMoreOption
<1>6. PICK p : Inserted(new, opts, p, e)
  BY <1>1, <1>3, OwnNumbers, AppendInserts
<1>7. e.num = OPT_NUM_OBSERVE /\ e.val = v
  BY DEF CoAP_option_t
<1> HIDE DEF new, e
<1>8. p \in 1..Len(new) /\ new[p] = e
  BY <1>4, <1>6 DEF Inserted
<1>9. ASSUME NEW j \in 1..Len(new), j # p PROVE new[j].num # OPT_NUM_OBSERVE
  <2>1. j < p => j \in 1..Len(opts) /\ new[j] = opts[j]
    BY <1>4, <1>6 DEF Inserted
  <2>2. ~(j < p) => j-1 \in 1..Len(opts) /\ new[j] = opts[j-1]
    BY <1>4, <1>6, <1>9 DEF Inserted
  <2> QED BY <2>1, <2>2 DEF NoObserve
<1>10. OneObserve(new, c)
  BY <1>7, <1>8, <1>9 DEF OneObserve, v
<1> QED BY <1>5, <1>10 DEF AddObserveOptionToMsg, new, v

\* It stays the only one when an other option is added.
LEMMA ObserveStays ==
  ASSUME NEW opts \in Seq(Option), Sorted(opts), NEW c, OneObserve(opts, c),
         NEW num \in OptNum, num # OPT_NUM_OBSERVE, NEW v \in Seq(Byte)
  PROVE  OneObserve(CoAP_AppendOptionToList(opts, num, v), c)
<1> DEFINE new == CoAP_AppendOptionToList(opts, num, v)
           e == CoAP_option_t(num, v)
<1>1. Len(opts) \in Nat
  BY LenProperties
<1>2. PICK p : Inserted(new, opts, p, e)
  BY AppendInserts
<1>3. e.num # OPT_NUM_OBSERVE
  BY DEF CoAP_option_t
<1>4. PICK q \in 1..Len(opts) :
        /\ opts[q].num = OPT_NUM_OBSERVE /\ opts[q].val = ObserveBytes(c)
        /\ \A j \in 1..Len(opts) : opts[j].num = OPT_NUM_OBSERVE => j = q
  BY DEF OneObserve
<1> HIDE DEF new, e
<1> DEFINE r == IF q < p THEN q ELSE q + 1
<1>5. r \in 1..Len(new) /\ new[r] = opts[q]
  BY <1>1, <1>2 DEF Inserted
<1>6. ASSUME NEW j \in 1..Len(new), new[j].num = OPT_NUM_OBSERVE PROVE j = r
  <2>1. CASE j < p
    <3>1. j \in 1..Len(opts) /\ new[j] = opts[j]
      BY <1>1, <1>2, <2>1 DEF Inserted
    <3>2. j = q
      BY <1>4, <1>6, <3>1
    <3> QED BY <2>1, <3>2
  <2>2. CASE ~(j < p)
    <3>1. j # p
      BY <1>1, <1>2, <1>3, <1>6 DEF Inserted
    <3>2. j-1 \in 1..Len(opts) /\ new[j] = opts[j-1]
      BY <1>1, <1>2, <2>2, <3>1 DEF Inserted
    <3>3. j-1 = q
      BY <1>4, <1>6, <3>2
    <3>4. p \in Int
      BY <1>2 DEF Inserted
    <3> QED BY <2>2, <3>1, <3>3, <3>4
  <2> QED BY <2>1, <2>2
<1> HIDE DEF r
<1>7. OneObserve(new, c)
  BY <1>4, <1>5, <1>6 DEF OneObserve
<1> QED BY <1>7 DEF new

\* It is the one that is found and removed.
LEMMA ObserveIsFound ==
  ASSUME NEW opts, Len(opts) \in Nat, NEW c, OneObserve(opts, c)
  PROVE  LET p == FirstPosition(opts, OPT_NUM_OBSERVE)
         IN  /\ p \in 1..Len(opts) /\ opts[p].val = ObserveBytes(c)
             /\ \A j \in 1..Len(opts) : opts[j].num = OPT_NUM_OBSERVE => j = p
<1> DEFINE p == FirstPosition(opts, OPT_NUM_OBSERVE)
<1>1. PICK q \in 1..Len(opts) :
        /\ opts[q].num = OPT_NUM_OBSERVE /\ opts[q].val = ObserveBytes(c)
        /\ \A j \in 1..Len(opts) : opts[j].num = OPT_NUM_OBSERVE => j = q
  BY DEF OneObserve
<1>2. /\ p \in 0..Len(opts)
      /\ p = 0 => \A j \in 1..Len(opts) : opts[j].num # OPT_NUM_OBSERVE
      /\ p # 0 => opts[p].num = OPT_NUM_OBSERVE
  BY FirstPositionIs
<1> HIDE DEF p
<1>3. p # 0
  BY <1>1, <1>2
<1>4. p \in 1..Len(opts)
  BY <1>2, <1>3
<1>5. p = q
  BY <1>1, <1>2, <1>3, <1>4
<1> QED BY <1>1, <1>5 DEF p

\* A refresh replaces it: the list is no longer than before, and carries the
\* counter of the refresh (UpdateObserveOptionInMsg).
LEMMA ObserveReplaced ==
  ASSUME NEW n \in Nat, NEW opts, Options(opts, n), NEW old, OneObserve(opts, old),
         NEW c \in Nat, c < CntLimit
  PROVE  /\ Options(UpdateObserveOptionInMsg(opts, c), n)
         /\ OneObserve(UpdateObserveOptionInMsg(opts, c), c)
<1> DEFINE p == FirstPosition(opts, OPT_NUM_OBSERVE)
           less == RemoveAt(opts, p)
<1>1. opts \in Seq(Option) /\ Sorted(opts) /\ Len(opts) \in Nat /\ Len(opts) <= n
  BY LenProperties DEF Options
<1>2. /\ p \in 1..Len(opts)
      /\ \A j \in 1..Len(opts) : opts[j].num = OPT_NUM_OBSERVE => j = p
  BY <1>1, ObserveIsFound
<1>3. RemoveObserveOptionFromMsg(opts) = less
  BY <1>2 DEF RemoveObserveOptionFromMsg, CoAP_RemoveOptionFromList
<1> HIDE DEF p
<1>4. less \in Seq(Option) /\ Sorted(less)
  BY <1>1, <1>2, RemoveKeepsSorted DEF CoAP_RemoveOptionFromList
<1>5. /\ Len(less) = Len(opts) - 1
      /\ \A j \in 1..Len(opts)-1 : less[j] = IF j < p THEN opts[j] ELSE opts[j+1]
  BY <1>1, <1>2, RemoveAtProperties
<1> HIDE DEF less
<1>6. ASSUME NEW j \in 1..Len(less)
      PROVE  less[j].num # OPT_NUM_OBSERVE /\ Len(less[j].val) <= MAX_OPTION_VALUE_SIZE
  <2>1. CASE j < p
    <3>1. j \in 1..Len(opts) /\ less[j] = opts[j] /\ j # p
      BY <1>1, <1>2, <1>5, <2>1
    <3> QED BY <1>2, <3>1 DEF Options
  <2>2. CASE ~(j < p)
    <3>1. j+1 \in 1..Len(opts) /\ less[j] = opts[j+1] /\ j+1 # p
      BY <1>1, <1>2, <1>5, <2>2
    <3> QED BY <1>2, <3>1 DEF Options
  <2> QED BY <2>1, <2>2
<1>7. n - 1 \in Nat /\ Len(less) <= n - 1 /\ (n - 1) + 1 = n
  BY <1>1, <1>2, <1>5
<1>8. Options(less, n - 1) /\ NoObserve(less)
  BY <1>4, <1>6, <1>7 DEF Options, NoObserve
<1>9. /\ Options(AddObserveOptionToMsg(less, c), (n - 1) + 1)
      /\ OneObserve(AddObserveOptionToMsg(less, c), c)
  BY <1>7, <1>8, ObserveAdded
<1> QED BY <1>3, <1>7, <1>9 DEF UpdateObserveOptionInMsg

\* Whoever reads the list finds the counter (GetObserveOptionFromMsg).
LEMMA CounterIsRead ==
  ASSUME NEW opts, Len(opts) \in Nat, NEW c \in Nat, c < CntLimit, OneObserve(opts, c)
  PROVE  GetObserveOptionFromMsg(opts) = c
<1> DEFINE p == FirstPosition(opts, OPT_NUM_OBSERVE)
           v == ObserveBytes(c)
<1>1. p \in 1..Len(opts) /\ opts[p].val = v
  BY ObserveIsFound
<1>2. Len(v) <= 3 /\ Len(v) \in Nat /\ NumberIn(v) = c
  BY ObserveReadsBack, LenProperties
<1>3. GetObserveOptionFromMsg(opts) =
        IF p = 0 \/ Len(opts[p].val) > 3 THEN -1 ELSE NumberIn(opts[p].val)
  BY DEF GetObserveOptionFromMsg
<1> HIDE DEF p, v
<1>4. ~(p = 0 \/ Len(opts[p].val) > 3)
  BY <1>1, <1>2
<1> QED BY <1>1, <1>2, <1>3, <1>4, Zenon

(***************************************************************************)
(* The Block2 option.                                                      *)
(***************************************************************************)
\* The exponent of a block size.
LEMMA SzxIsNat ==
  ASSUME NEW size \in BlockSizeValues
  PROVE  Szx(size) \in 0..6
<1> DEFINE Fits(i) == 2^i <= size \div 16 /\ size \div 16 < 2^(i+1)
<1>1. \E i \in 0..6 : Fits(i)
  <2>1. /\ 2^0 = 1 /\ 2^1 = 2 /\ 2^2 = 4 /\ 2^3 = 8 /\ 2^4 = 16 /\ 2^5 = 32
        /\ 2^6 = 64 /\ 2^7 = 128
    OBVIOUS
  <2>2. CASE size = 16
    <3>1. Fits(0)
      BY <2>1, <2>2
    <3> QED BY <3>1
  <2>3. CASE size = 32
    <3>1. Fits(1)
      BY <2>1, <2>3
    <3> QED BY <3>1
  <2>4. CASE size = 64
    <3>1. Fits(2)
      BY <2>1, <2>4
    <3> QED BY <3>1
  <2>5. CASE size = 128
    <3>1. Fits(3)
      BY <2>1, <2>5
    <3> QED BY <3>1
  <2>6. CASE size = 256
    <3>1. Fits(4)
      BY <2>1, <2>6
    <3> QED BY <3>1
  <2>7. CASE size = 512
    <3>1. Fits(5)
      BY <2>1, <2>7
    <3> QED BY <3>1
  <2>8. CASE size = 1024
    <3>1. Fits(6)
      BY <2>1, <2>8
    <3> QED BY <3>1
  <2> HIDE DEF Fits
  <2> QED BY <2>2, <2>3, <2>4, <2>5, <2>6, <2>7, <2>8 DEF BlockSizeValues
<1>2. Szx(size) = CHOOSE i \in 0..6 : Fits(i)
  BY DEF Szx
<1> HIDE DEF Fits
<1> QED BY <1>1, <1>2

\* The value of a block option has up to three bytes.
LEMMA BlockBytesType ==
  ASSUME NEW b, b.num \in Nat, b.size \in BlockSizeValues
  PROVE  BlockBytes(b) \in Seq(Byte) /\ Len(BlockBytes(b)) <= 3
<1> DEFINE v == BlockValue(b)
           x == (v \div 65536) % 256
           y == (v \div 256) % 256
           z == v % 256
           none == <<>>
<1>1. v \in Nat
  <2>1. Szx(b.size) \in Nat
    BY SzxIsNat
  <2> QED BY <2>1 DEF BlockValue
<1>2. x \in Byte /\ y \in Byte /\ z \in Byte
  BY <1>1 DEF Byte
<1>3. BlockBytes(b) \in {none, <<z>>, <<y, z>>, <<x, y, z>>}
  BY DEF BlockBytes
<1> HIDE DEF v, x, y, z
<1>4. /\ none \in Seq(Byte) /\ Len(none) <= 3
      /\ <<z>> \in Seq(Byte) /\ Len(<<z>>) <= 3
      /\ <<y, z>> \in Seq(Byte) /\ Len(<<y, z>>) <= 3
      /\ <<x, y, z>> \in Seq(Byte) /\ Len(<<x, y, z>>) <= 3
  BY <1>2
<1> QED BY <1>3, <1>4, Zenon

\* The number in a short value.
LEMMA NumberInIsNat ==
  ASSUME NEW val \in Seq(Byte), Len(val) <= 3
  PROVE  NumberIn(val) \in Nat
<1>1. Len(val) \in Nat /\ \A j \in 1..Len(val) : val[j] \in Nat
  BY LenProperties, ElementOfSeq, BytesAreNumbers
<1>2. CASE Len(val) = 0
  BY <1>2 DEF NumberIn
<1>3. CASE Len(val) = 1
  BY <1>1, <1>3 DEF NumberIn
<1>4. CASE Len(val) = 2
  BY <1>1, <1>4 DEF NumberIn
<1>5. CASE Len(val) = 3
  <2>1. val[1] \in Nat /\ val[2] \in Nat /\ val[3] \in Nat
    BY <1>1, <1>5
  <2>2. NumberIn(val) = val[1] * 65536 + val[2] * 256 + val[3]
    BY <1>5 DEF NumberIn
  <2> QED BY <2>1, <2>2
<1>6. Len(val) \in {0, 1, 2, 3}
  <2> DEFINE n == Len(val)
  <2>1. n \in Nat /\ n <= 3
    BY LenProperties
  <2> HIDE DEF n
  <2>2. n \in {0, 1, 2, 3}
    BY <2>1
  <2> QED BY <2>2 DEF n
<1> QED BY <1>2, <1>3, <1>4, <1>5, <1>6

\* What is found is the number and the size of a block.
LEMMA BlockFound ==
  ASSUME NEW opts \in Seq(Option), NEW type,
         GetBlockOptionFromMsg(opts, type).found
  PROVE  LET b == GetBlockOptionFromMsg(opts, type)
         IN  b.num \in Nat /\ b.size \in BlockSizeValues /\ b.more \in BOOLEAN
<1> DEFINE first == FirstPosition(opts, type)
           val == opts[first].val
           v == NumberIn(val)
           b == GetBlockOptionFromMsg(opts, type)
           some == [found |-> TRUE, num |-> v \div 16, more |-> (v \div 8) % 2 = 1,
                    size |-> 2^((v % 8) + 4)]
<1>1. b = IF first = 0 \/ Len(val) > 3 \/ v % 8 = 7 THEN NoBlock ELSE some
  BY DEF GetBlockOptionFromMsg
<1>2. NoBlock.found = FALSE
  BY DEF NoBlock
<1>3. first # 0 /\ ~(Len(val) > 3) /\ v % 8 # 7 /\ b = some
  <2> HIDE DEF first, v, val, some, b
  <2>1. b.found
    BY DEF b
  <2> QED BY <1>1, <1>2, <2>1
<1>4. Len(opts) \in Nat
  BY LenProperties
<1>5. first \in 1..Len(opts)
  BY <1>3, <1>4, FirstPositionIs
<1>6. val \in Seq(Byte) /\ Len(val) \in Nat
  <2>1. opts[first] \in Option
    BY <1>5, ElementOfSeq
  <2> HIDE DEF first
  <2> DEFINE V == Seq(Byte)
  <2>2. Option = [num : OptNum, val : V]
    BY DEF Option
  <2> HIDE DEF V
  <2>3. val \in V
    BY <2>1, <2>2
  <2> HIDE DEF val
  <2> QED BY <2>3, LenProperties DEF V
<1>7. v \in Nat
  <2> HIDE DEF val
  <2>1. Len(val) <= 3
    BY <1>3, <1>6
  <2> QED BY <1>6, <2>1, NumberInIsNat
<1> HIDE DEF first, v, b
<1>8. v \div 16 \in Nat /\ v % 8 \in 0..6
  BY <1>3, <1>7
<1> DEFINE k == v % 8
<1>9. 2^(k + 4) \in BlockSizeValues
  <2>1. /\ 2^4 = 16 /\ 2^5 = 32 /\ 2^6 = 64 /\ 2^7 = 128 /\ 2^8 = 256
        /\ 2^9 = 512 /\ 2^10 = 1024
    OBVIOUS
  <2> DEFINE e == k + 4
  <2>2. e \in {4, 5, 6, 7, 8, 9, 10}
    BY <1>8
  <2> HIDE DEF e
  <2>3. 2^e \in {2^4, 2^5, 2^6, 2^7, 2^8, 2^9, 2^10}
    BY <2>2, Zenon
  <2> QED BY <2>1, <2>3 DEF BlockSizeValues, e
<1>10. /\ b.num = v \div 16 /\ b.size = 2^(k + 4)
       /\ b.more = ((v \div 8) % 2 = 1)
  BY <1>3
<1>11. b.more \in BOOLEAN
  BY <1>10
<1> QED BY <1>8, <1>9, <1>10, <1>11 DEF b

(***************************************************************************)
(* Options that are removed.                                               *)
(***************************************************************************)
\* What is left of the first k options.
KeepsOneByOne(c, opts, num) ==
  /\ c \in [0..Len(opts) -> Seq(Option)]
  /\ c[0] = <<>> /\ c[Len(opts)] = OptionsWithout(opts, num)
  /\ \A k \in 1..Len(opts) :
       c[k] = IF opts[k].num = num THEN c[k-1] ELSE Append(c[k-1], opts[k])

\* Options are taken over one by one, without those of a number.
LEMMA WithoutChain ==
  ASSUME NEW opts \in Seq(Option), NEW num
  PROVE  \E c : KeepsOneByOne(c, opts, num)
<1> DEFINE A == Seq(Option)
           B == Option
           q == opts
           Op(a, b) == IF b.num = num THEN a ELSE Append(a, b)
           F == [p \in A \X B |-> Op(p[1], p[2])]
           P(h) == h = [s \in SUBSET DOMAIN q |->
                          IF s = {} THEN <<>> ELSE Op(h[s \ {Max(s)}], q[Max(s)])]
           H == CHOOSE h : P(h)
<1>1. /\ <<>> \in A /\ q \in Seq(B)
      /\ \A a \in A, b \in B : Op(a, b) \in A
  OBVIOUS
<1>2. OptionsWithout(opts, num) = H[DOMAIN q]
  BY DEF OptionsWithout, FoldLeft, MapThenFoldSet
<1> HIDE DEF A, B, Op
<1>3. F \in [A \X B -> A] /\ \A a \in A, b \in B : F[<<a, b>>] = Op(a, b)
  BY <1>1
<1> HIDE DEF F, H
<1>4. P(H)
  <2>1. PICK g : IsFold(g, A, F, <<>>, q)
    BY <1>1, <1>3, FoldDefined
  <2>2. ASSUME NEW s \in SUBSET DOMAIN q
        PROVE  g[s] = IF s = {} THEN <<>> ELSE Op(g[s \ {Max(s)}], q[Max(s)])
    <3>1. CASE s = {}
      BY <2>1, <3>1 DEF IsFold
    <3>2. CASE s # {}
      <4>1. s \ {Max(s)} \in SUBSET DOMAIN q /\ q[Max(s)] \in B
        BY <1>1, <3>2, LastOfPositions
      <4>2. g[s \ {Max(s)}] \in A
        BY <2>1, <4>1 DEF IsFold
      <4> QED BY <1>3, <2>1, <3>2, <4>1, <4>2 DEF IsFold
    <3> QED BY <3>1, <3>2
  <2>3. g = [s \in SUBSET DOMAIN q |-> g[s]]
    BY <2>1 DEF IsFold
  <2>4. P(g)
    BY <2>2, <2>3
  <2> HIDE DEF P
  <2> QED BY <2>4 DEF H
<1>5. H[{}] = <<>>
  BY <1>4
<1>6. ASSUME NEW s \in SUBSET DOMAIN q, s # {}, H[s \ {Max(s)}] \in A
      PROVE  H[s] = F[<<H[s \ {Max(s)}], q[Max(s)]>>]
  <2>1. q[Max(s)] \in B
    BY <1>1, <1>6, LastOfPositions
  <2> QED BY <1>3, <1>4, <1>6, <2>1
<1> HIDE DEF P
<1>7. PICK c : IsChain(c, A, F, <<>>, q, H[DOMAIN q])
  BY <1>1, <1>3, <1>5, <1>6, FoldChain
<1>8. /\ c \in [0..Len(q) -> A] /\ c[0] = <<>> /\ c[Len(q)] = H[DOMAIN q]
      /\ \A k \in 1..Len(q) : q[k] \in B /\ c[k-1] \in A /\ c[k] = Op(c[k-1], q[k])
  <2>1. /\ c \in [0..Len(q) -> A] /\ c[0] = <<>> /\ c[Len(q)] = H[DOMAIN q]
        /\ \A k \in 1..Len(q) : c[k] = F[<<c[k-1], q[k]>>]
    BY <1>7 DEF IsChain
  <2>2. Len(q) \in Nat /\ \A k \in 1..Len(q) : q[k] \in B
    BY <1>1, LenProperties, ElementOfSeq
  <2>3. \A k \in 1..Len(q) : k-1 \in 0..Len(q)
    BY <2>2
  <2> QED BY <1>3, <2>1, <2>2, <2>3
<1>9. KeepsOneByOne(c, opts, num)
  <2>1. /\ c \in [0..Len(opts) -> A] /\ c[0] = <<>>
        /\ c[Len(opts)] = OptionsWithout(opts, num)
        /\ \A k \in 1..Len(opts) : c[k] = Op(c[k-1], opts[k])
    BY <1>2, <1>8
  <2> HIDE DEF q
  <2> QED BY <2>1 DEF A, Op, KeepsOneByOne
<1> QED BY <1>9

\* What is left is in the same order, and has no option of that number.
LEMMA WithoutKeeps ==
  ASSUME NEW n \in Nat, NEW opts, Options(opts, n), NEW num
  PROVE  Options(OptionsWithout(opts, num), n)
<1>0. /\ opts \in Seq(Option) /\ Sorted(opts) /\ Len(opts) \in Nat /\ Len(opts) <= n
      /\ \A i \in 1..Len(opts) : Len(opts[i].val) <= MAX_OPTION_VALUE_SIZE
  BY LenProperties DEF Options
<1>1. PICK c : KeepsOneByOne(c, opts, num)
  BY <1>0, WithoutChain
<1> DEFINE len == Len(opts)
           Part(k) ==
             /\ Len(c[k]) \in 0..k
             /\ \A i \in 1..Len(c[k]) : \E j \in 1..k : c[k][i] = opts[j]
             /\ Sorted(c[k])
           S == {k \in 0..len : Part(k)}
<1>2. 0 \in S
  <2>1. c[0] = <<>> /\ Len(<<>>) = 0
    BY <1>1 DEF KeepsOneByOne
  <2>2. Part(0)
    BY <2>1 DEF Sorted
  <2> HIDE DEF Part
  <2> QED BY <1>0, <2>2
<1>3. ASSUME NEW k \in 1..len, k-1 \in S PROVE k \in S
  <2> DEFINE old == c[k-1]
             new == c[k]
             o == opts[k]
  <2>1. k-1 \in 0..len /\ Part(k-1)
    BY <1>3
  <2>2. /\ old \in Seq(Option) /\ new \in Seq(Option)
        /\ new = (IF o.num = num THEN old ELSE Append(old, o)) /\ o \in Option
    <3>1. c \in [0..Len(opts) -> Seq(Option)] /\ k-1 \in 0..Len(opts) /\ k \in 0..Len(opts)
      BY <1>0, <1>1 DEF KeepsOneByOne
    <3>2. new = (IF o.num = num THEN old ELSE Append(old, o))
      BY <1>1 DEF KeepsOneByOne
    <3>3. o \in Option
      BY <1>0, ElementOfSeq
    <3> QED BY <3>1, <3>2, <3>3
  <2>3. /\ Len(old) \in 0..k-1 /\ Sorted(old)
        /\ \A i \in 1..Len(old) : \E j \in 1..k-1 : old[i] = opts[j]
    BY <2>1
  <2>4. \A i \in 1..Len(old) : old[i].num <= o.num
    <3> SUFFICES ASSUME NEW i \in 1..Len(old) PROVE old[i].num <= o.num
      OBVIOUS
    <3>1. PICK j \in 1..k-1 : old[i] = opts[j]
      BY <2>3
    <3>2. j \in 1..Len(opts) /\ k \in 1..Len(opts) /\ j < k
      BY <1>0
    <3> QED BY <1>0, <3>1, <3>2 DEF Sorted
  <2> HIDE DEF Part, old, new, o
  <2>5. /\ Len(new) \in 0..k /\ Sorted(new)
        /\ \A i \in 1..Len(new) : \E j \in 1..k : new[i] = opts[j]
    <3>1. CASE o.num = num
      <4>1. new = old
        BY <2>2, <3>1
      <4>2. \A i \in 1..Len(new) : \E j \in 1..k : new[i] = opts[j]
        BY <2>3, <4>1
      <4>3. Len(new) \in 0..k
        BY <2>3, <4>1
      <4> QED BY <2>3, <4>1, <4>2, <4>3
    <3>2. CASE o.num # num
      <4>1. /\ Len(new) = Len(old) + 1
            /\ \A i \in 1..Len(old) : new[i] = old[i]
            /\ new[Len(old) + 1] = o
        BY <2>2, <3>2, AppendProperties
      <4>2. ASSUME NEW i \in 1..Len(new) PROVE \E j \in 1..k : new[i] = opts[j]
        <5>1. CASE i = Len(old) + 1
          BY <4>1, <5>1 DEF o
        <5>2. CASE i # Len(old) + 1
          <6>1. i \in 1..Len(old) /\ new[i] = old[i]
            BY <2>3, <4>1, <5>2
          <6>2. PICK j \in 1..k-1 : old[i] = opts[j]
            BY <2>3, <6>1
          <6> QED BY <6>1, <6>2
        <5> QED BY <5>1, <5>2
      <4>3. ASSUME NEW i \in 1..Len(new), NEW j \in 1..Len(new), i < j
            PROVE  new[i].num <= new[j].num
        <5>1. i \in 1..Len(old) /\ new[i] = old[i]
          BY <2>3, <4>1, <4>3
        <5>2. CASE j = Len(old) + 1
          BY <2>4, <4>1, <5>1, <5>2
        <5>3. CASE j # Len(old) + 1
          <6>1. j \in 1..Len(old) /\ new[j] = old[j]
            BY <2>3, <4>1, <5>3
          <6> QED BY <2>3, <4>3, <5>1, <6>1 DEF Sorted
        <5> QED BY <5>2, <5>3
      <4>4. Len(new) \in 0..k
        BY <2>3, <4>1
      <4> QED BY <4>2, <4>3, <4>4 DEF Sorted
    <3> QED BY <3>1, <3>2
  <2>6. Part(k)
    BY <2>5 DEF Part, new
  <2>7. k \in 0..len
    BY <1>0
  <2> QED BY <2>6, <2>7
<1>4. len \in S
  <2> HIDE DEF S, len
  <2>1. len \in Nat
    BY <1>0 DEF len
  <2>2. 0..len \subseteq S
    BY <1>2, <1>3, <2>1, StepByStep
  <2> QED BY <2>1, <2>2
<1>5. c[len] = OptionsWithout(opts, num) /\ c[len] \in Seq(Option)
  <2>1. len \in 0..len
    BY <1>0
  <2> QED BY <1>1, <2>1 DEF KeepsOneByOne
<1>6. /\ Len(c[len]) \in 0..len /\ Sorted(c[len])
      /\ \A i \in 1..Len(c[len]) : \E j \in 1..len : c[len][i] = opts[j]
  BY <1>4
<1>7. \A i \in 1..Len(c[len]) : Len(c[len][i].val) <= MAX_OPTION_VALUE_SIZE
  BY <1>0, <1>6
<1>8. Len(c[len]) <= n
  BY <1>0, <1>6
<1> HIDE DEF len
<1> QED BY <1>5, <1>6, <1>7, <1>8 DEF Options

(***************************************************************************)
(* A message that is filled.                                               *)
(***************************************************************************)
\* A message with such fields.
LEMMA MessageOf ==
  ASSUME NEW type \in 0..3, NEW code \in Byte, NEW mid \in OptNum, NEW tok \in Token64,
         NEW opts \in Seq(Option), NEW payload \in Seq(Byte)
  PROVE  [type |-> type, code |-> code, mid |-> mid, tok |-> tok,
          opts |-> opts, payload |-> payload] \in Message
<1> DEFINE O == Seq(Option)
           P == Seq(Byte)
           T == 0..3
<1>1. Message = [type : T, code : Byte, mid : OptNum, tok : Token64, opts : O, payload : P]
  BY DEF Message
<1>2. type \in T /\ opts \in O /\ payload \in P
  OBVIOUS
<1> HIDE DEF O, P, T
<1> QED BY <1>1, <1>2

\* A message whose code, options and payload are replaced.
LEMMA MessageChanged ==
  ASSUME NEW m \in Message, NEW code \in Byte, NEW mid \in OptNum,
         NEW opts \in Seq(Option), NEW payload \in Seq(Byte),
         NEW w, w = [type |-> m.type, code |-> code, mid |-> mid, tok |-> m.tok,
                     opts |-> opts, payload |-> payload]
  PROVE  /\ w \in Message /\ w.type = m.type /\ w.code = code /\ w.mid = mid
         /\ w.tok = m.tok /\ w.opts = opts /\ w.payload = payload
<1> DEFINE r == [type |-> m.type, code |-> code, mid |-> mid, tok |-> m.tok,
                 opts |-> opts, payload |-> payload]
<1>1. m.type \in 0..3 /\ m.tok \in Token64
  BY FieldsOfMessage
<1>2. r \in Message
  BY <1>1, MessageOf
<1>3. w = r
  OBVIOUS
<1> QED BY <1>2, <1>3

\* The cut for a block that is asked for and not behind the end.
LEMMA CutOfBlock ==
  ASSUME NEW block, block.num \in Nat, block.size \in BlockSizeValues,
         NEW len \in Nat, BlockToSend(block, len).left > 0
  PROVE  LET cut == BlockToSend(block, len)
         IN  /\ cut.num \in Nat /\ cut.size \in BlockSizeValues /\ cut.size <= MAX_PAYLOAD_SIZE
             /\ cut.from \in Nat /\ cut.left \in Nat \ {0} /\ cut.from + cut.left = len
<1> DEFINE size == IF block.size > MAX_PAYLOAD_SIZE THEN MAX_PAYLOAD_SIZE
                   ELSE block.size
           from == size * block.num
           left == len - from
           more == left > size \/ block.more
<1>1. BlockToSend(block, len) =
        [num |-> block.num, size |-> size, left |-> left, from |-> from,
         more |-> more]
  BY DEF BlockToSend
<1>2. MAX_PAYLOAD_SIZE \in BlockSizeValues /\ MAX_PAYLOAD_SIZE \in Nat
  BY BlockwiseAssumption, WireAssumption
<1>3. block.size \in Nat
  BY DEF BlockSizeValues
<1>4. size \in BlockSizeValues /\ size <= MAX_PAYLOAD_SIZE /\ size \in Nat
  BY <1>2, <1>3
<1>5. from \in Nat
  <2> HIDE DEF size
  <2> QED BY <1>4
<1> HIDE DEF from, more
<1>6. left \in Int /\ left > 0 /\ from + left = len
  BY <1>1, <1>5
<1> HIDE DEF left, size
<1> QED BY <1>1, <1>4, <1>5, <1>6

\* The first block, or the whole of a short representation.
LEMMA CutOfFirst ==
  ASSUME NEW len \in Nat \ {0}
  PROVE  LET cut == WholeOrFirst(len)
         IN  /\ cut.num \in Nat /\ cut.size \in BlockSizeValues /\ cut.size <= MAX_PAYLOAD_SIZE
             /\ cut.from \in Nat /\ cut.left \in Nat \ {0} /\ cut.from + cut.left = len
             /\ cut.more = (len > MAX_PAYLOAD_SIZE)
<1>1. MAX_PAYLOAD_SIZE \in BlockSizeValues /\ MAX_PAYLOAD_SIZE \in Nat
  BY BlockwiseAssumption, WireAssumption
<1> QED BY <1>1 DEF WholeOrFirst

\* A block that is cut out of len bytes.
ProperCut(cut, len) ==
  /\ cut.num \in Nat /\ cut.size \in BlockSizeValues /\ cut.size <= MAX_PAYLOAD_SIZE
  /\ cut.from \in Nat /\ cut.left \in Nat \ {0} /\ cut.from + cut.left = len

\* What CoAP_SetPayload leaves of a message m and its buffer.
Filling(f, m, code, opts) ==
  /\ f \in [msg : Message, buf : Buffer]
  /\ f.msg.type = m.type /\ f.msg.code = code
  /\ f.msg.mid = m.mid /\ f.msg.tok = m.tok /\ f.msg.opts = opts
  /\ Len(f.msg.payload) <= MAX_PAYLOAD_SIZE
  /\ HasRoom(f.buf, Len(f.msg.payload))

\* A filled message and its buffer.
LEMMA PairIs ==
  ASSUME NEW w \in Message, NEW b \in Buffer, NEW f, f = [msg |-> w, buf |-> b]
  PROVE  f \in [msg : Message, buf : Buffer] /\ f.msg = w /\ f.buf = b
  OBVIOUS

\* A message is filled with the block that was cut out.
LEMMA FilledIs ==
  ASSUME NEW m \in Message, NEW b \in Buffer, HasRoom(b, 0), NEW data \in Seq(Byte),
         NEW cut, ProperCut(cut, Len(data)), NEW opts \in Seq(Option),
         NEW use \in {"IN_PLACE", "VOLATILE", "STATIC"},
         use = "IN_PLACE" => Len(data) <= b.room,
         use = "STATIC" => b.at # "HEAP"
  PROVE  Filling(Filled(m, b, data, cut, use, opts), m, m.code, opts)
<1> DEFINE f == Filled(m, b, data, cut, use, opts)
           n == BytesToSend(cut)
           p == SubSeq(data, cut.from + 1, cut.from + n)
<1>1. /\ cut.from \in Nat /\ cut.left \in Nat \ {0}
      /\ cut.from + cut.left = Len(data) /\ cut.size <= MAX_PAYLOAD_SIZE
  BY DEF ProperCut
<1>2. cut.size \in Nat \ {0}
  BY DEF ProperCut, BlockSizeValues
<1>3. /\ n \in 1..cut.size /\ cut.from + n <= Len(data) /\ Len(p) = n
      /\ f.buf \in Buffer /\ HasRoom(f.buf, n)
  BY <1>1, <1>2, FilledHasRoom
<1>4. f = [msg |-> [m EXCEPT !.opts = opts, !.payload = p], buf |-> f.buf]
  BY DEF Filled
<1>5. p \in Seq(Byte)
  <2>1. Len(data) \in Nat
    BY LenProperties
  <2> DEFINE from == cut.from
             size == cut.size
             len == Len(data)
  <2>3. n \in 1..size /\ from + n <= len /\ from \in Nat /\ len \in Nat /\ size \in Nat
    BY <1>1, <1>2, <1>3, <2>1
  <2> HIDE DEF n, from, size, len
  <2>4. from + 1 \in 1..len+1 /\ from + n \in (from + 1) - 1..len
    BY <2>3
  <2>2. cut.from + 1 \in 1..Len(data)+1 /\ cut.from + n \in (cut.from + 1) - 1..Len(data)
    BY <2>4 DEF from, len
  <2> QED BY <2>2, PartOfSeq
<1> HIDE DEF p, n
<1>6. n <= MAX_PAYLOAD_SIZE
  BY <1>1, <1>2, <1>3, WireAssumption
<1> DEFINE w == f.msg
<1>7. w = [m EXCEPT !.opts = opts, !.payload = p]
  BY <1>4
<1> HIDE DEF f, w
<1>8. m.code \in Byte /\ m.mid \in OptNum
  BY FieldsOfMessage
<1>9. w = [type |-> m.type, code |-> m.code, mid |-> m.mid, tok |-> m.tok,
           opts |-> opts, payload |-> p]
  <2>1. m = [type |-> m.type, code |-> m.code, mid |-> m.mid, tok |-> m.tok,
             opts |-> m.opts, payload |-> m.payload]
    BY FieldsOfMessage
  <2> QED BY <1>7, <2>1, Zenon
<1>10. /\ w \in Message /\ w.type = m.type /\ w.code = m.code /\ w.mid = m.mid
       /\ w.tok = m.tok /\ w.opts = opts /\ w.payload = p
  BY <1>5, <1>8, <1>9, MessageChanged
<1>11. Len(w.payload) = n
  BY <1>3, <1>10
<1>12. f = [msg |-> w, buf |-> f.buf]
  BY <1>4, <1>7
<1>13. f \in [msg : Message, buf : Buffer]
  BY <1>3, <1>10, <1>12, PairIs
<1>14. Filling(f, m, m.code, opts)
  BY <1>3, <1>6, <1>10, <1>11, <1>13 DEF Filling, w
<1> QED BY <1>14 DEF f

\* Or with the text that the block does not exist.
LEMMA RefusedIs ==
  ASSUME NEW m \in Message, NEW b \in Buffer, HasRoom(b, 0)
  PROVE  Filling(Refused(m, b), m, RESP_BAD_OPTION, m.opts)
<1> DEFINE f == Refused(m, b)
           w == f.msg
           text == BlockNotExisting
<1>1. text \in Seq(Byte) /\ Len(text) = 18
  <2>1. 98 \in Byte
    BY DEF Byte
  <2> HIDE DEF text
  <2>2. text \in [1..18 -> Byte] /\ text = [i \in 1..18 |-> 98]
    BY <2>1 DEF text, BlockNotExisting
  <2> QED BY <2>2
<1> HIDE DEF text
<1>2. w = [m EXCEPT !.payload = text, !.code = RESP_BAD_OPTION]
  BY DEF Refused, text
<1>a. f = [msg |-> w, buf |-> f.buf]
  BY DEF Refused
<1>3. f.buf = IF b.size >= Len(text) THEN b ELSE NewBlock(HeldAfterFree(b), Len(text))
  BY DEF Refused, text
<1> HIDE DEF f
<1>4. /\ m.mid \in OptNum /\ m.opts \in Seq(Option)
      /\ m = [type |-> m.type, code |-> m.code, mid |-> m.mid, tok |-> m.tok,
              opts |-> m.opts, payload |-> m.payload]
  BY FieldsOfMessage
<1>5. RESP_BAD_OPTION \in Byte
  BY DEF RESP_BAD_OPTION, Byte
<1> HIDE DEF w
<1>6. w = [type |-> m.type, code |-> RESP_BAD_OPTION, mid |-> m.mid, tok |-> m.tok,
           opts |-> m.opts, payload |-> text]
  BY <1>2, <1>4, Zenon
<1>7. /\ w \in Message /\ w.type = m.type /\ w.code = RESP_BAD_OPTION /\ w.mid = m.mid
      /\ w.tok = m.tok /\ w.opts = m.opts /\ w.payload = text
  BY <1>1, <1>4, <1>5, <1>6, MessageChanged
<1>8. f.buf \in Buffer /\ HasRoom(f.buf, 18)
  <2>1. CASE b.size >= 18
    <3>1. f.buf = b
      BY <1>1, <1>3, <2>1
    <3>2. 18 <= b.room
      BY <2>1 DEF HasRoom, Buffer
    <3> QED BY <3>1, <3>2 DEF HasRoom
  <2>2. CASE ~(b.size >= 18)
    <3>1. f.buf = [at |-> "HEAP", size |-> 18, room |-> 18, held |-> 1]
      BY <1>1, <1>3, <2>2 DEF NewBlock, HeldAfterFree, HasRoom, Buffer, PayloadBlocks
    <3> QED BY <3>1 DEF Buffer, HasRoom, PayloadBlocks
  <2> QED BY <2>1, <2>2
<1>9. 18 <= MAX_PAYLOAD_SIZE
  BY BlockwiseAssumption DEF BlockSizeValues
<1>10. Len(w.payload) = 18
  BY <1>1, <1>7
<1>11. f \in [msg : Message, buf : Buffer]
  BY <1>a, <1>7, <1>8, PairIs
<1>12. Filling(f, m, RESP_BAD_OPTION, m.opts)
  BY <1>7, <1>8, <1>9, <1>10, <1>11 DEF Filling, w
<1> QED BY <1>12 DEF f

\* Options that keep an Observe option apart.
SameObserve(new, old) ==
  /\ NoObserve(old) => NoObserve(new)
  /\ \A c \in Nat : OneObserve(old, c) => OneObserve(new, c)

\* A Block2 option is added.
LEMMA BlockAdded ==
  ASSUME NEW n \in Nat, NEW opts, Options(opts, n),
         NEW b, b.num \in Nat, b.size \in BlockSizeValues
  PROVE  /\ Options(AddBlkOptionToMsg(opts, OPT_BLOCK2, b), n + 1)
         /\ SameObserve(AddBlkOptionToMsg(opts, OPT_BLOCK2, b), opts)
<1> DEFINE v == BlockBytes(b)
           new == CoAP_AppendOptionToList(opts, OPT_BLOCK2, v)
           e == CoAP_option_t(OPT_BLOCK2, v)
<1>1. v \in Seq(Byte) /\ Len(v) <= 3
  BY BlockBytesType
<1>2. Len(v) \in Nat
  BY <1>1, LenProperties
<1> HIDE DEF v
<1>3. Len(v) <= MAX_OPTION_VALUE_SIZE
  BY <1>1, <1>2, WireAssumption
<1>4. Options(new, n + 1)
  BY <1>1, <1>3, OwnNumbers, OneMoreOption
<1>5. opts \in Seq(Option) /\ Sorted(opts) /\ Len(opts) \in Nat
  BY LenProperties DEF Options
<1>6. \A c \in Nat : OneObserve(opts, c) => OneObserve(new, c)
  BY <1>1, <1>5, OwnNumbers, ObserveStays
<1>7. ASSUME NoObserve(opts), NEW j \in 1..Len(new) PROVE new[j].num # OPT_NUM_OBSERVE
  <2>1. PICK p : Inserted(new, opts, p, e)
    BY <1>1, <1>5, OwnNumbers, AppendInserts
  <2>2. e.num # OPT_NUM_OBSERVE
    BY OwnNumbers DEF CoAP_option_t
  <2> HIDE DEF new, e
  <2>3. CASE j = p
    <3>1. new[j] = e
      BY <1>5, <2>1, <2>3 DEF Inserted
    <3> QED BY <2>2, <3>1
  <2>4. CASE j # p
    <3>1. j < p => j \in 1..Len(opts) /\ new[j] = opts[j]
      BY <1>5, <2>1 DEF Inserted
    <3>2. ~(j < p) => j-1 \in 1..Len(opts) /\ new[j] = opts[j-1]
      BY <1>5, <2>1, <2>4 DEF Inserted
    <3> QED BY <1>7, <3>1, <3>2 DEF NoObserve
  <2> QED BY <2>3, <2>4
<1>8. SameObserve(new, opts)
  BY <1>6, <1>7 DEF SameObserve, NoObserve
<1> QED BY <1>4, <1>8 DEF AddBlkOptionToMsg, new, v

\* The result of CoAP_SetPayload for a message with up to n options.
Filled2(f, m, n) ==
  \E code \in {m.code, RESP_BAD_OPTION} : \E opts :
    Options(opts, n + 1) /\ Filling(f, m, code, opts)

\* A witness for Filled2.
LEMMA FilledWith ==
  ASSUME NEW f, NEW m, NEW n, NEW code \in {m.code, RESP_BAD_OPTION}, NEW opts,
         Options(opts, n + 1), Filling(f, m, code, opts)
  PROVE  Filled2(f, m, n)
  BY DEF Filled2

\* Nothing to send: the message keeps its options.
LEMMA NothingFills ==
  ASSUME NEW reqOpts, NEW m \in Message, NEW b \in Buffer, HasRoom(b, 0), NEW use,
         NEW none \in Seq(Byte), Len(none) = 0
  PROVE  Filling(CoAP_SetPayload(reqOpts, m, b, none, use), m, m.code, m.opts)
<1> DEFINE w == [m EXCEPT !.payload = none]
           f == CoAP_SetPayload(reqOpts, m, b, none, use)
<1>1. f = [msg |-> w, buf |-> b]
  <2>1. none = <<>>
    BY EmptySeq
  <2> QED BY <2>1 DEF CoAP_SetPayload
<1>2. none \in Seq(Byte) /\ Len(none) = 0
  OBVIOUS
<1> HIDE DEF f
<1>3. /\ m.code \in Byte /\ m.mid \in OptNum /\ m.opts \in Seq(Option)
      /\ m = [type |-> m.type, code |-> m.code, mid |-> m.mid, tok |-> m.tok,
              opts |-> m.opts, payload |-> m.payload]
  BY FieldsOfMessage
<1>4. ASSUME NEW q, NEW v, v = [m EXCEPT !.payload = q]
      PROVE  v = [type |-> m.type, code |-> m.code, mid |-> m.mid, tok |-> m.tok,
                  opts |-> m.opts, payload |-> q]
  BY <1>3, <1>4, Zenon
<1>5. w = [type |-> m.type, code |-> m.code, mid |-> m.mid, tok |-> m.tok,
           opts |-> m.opts, payload |-> none]
  BY <1>4
<1> HIDE DEF w
<1>6. f.msg = w /\ f.buf = b
  BY <1>1
<1>7. m.code \in Byte /\ m.mid \in OptNum /\ none \in Seq(Byte) /\ m.opts \in Seq(Option)
  BY <1>2, <1>3
<1>8. w \in Message
  <2>1. m.type \in 0..3 /\ m.tok \in Token64
    BY FieldsOfMessage
  <2>2. [type |-> m.type, code |-> m.code, mid |-> m.mid, tok |-> m.tok,
         opts |-> m.opts, payload |-> none] \in Message
    BY <1>7, <2>1, MessageOf
  <2> QED BY <1>5, <2>2
<1>9. w.type = m.type /\ w.code = m.code /\ w.mid = m.mid
  BY <1>5
<1>10. w.tok = m.tok /\ w.opts = m.opts /\ w.payload = none
  BY <1>5
<1>11. f \in [msg : Message, buf : Buffer]
  BY <1>1, <1>8, PairIs
<1>12. Len(w.payload) = 0 /\ 0 <= MAX_PAYLOAD_SIZE
  BY <1>2, <1>10, WireAssumption
<1>13. Filling(f, m, m.code, m.opts)
  BY <1>6, <1>9, <1>10, <1>11, <1>12 DEF Filling
<1> QED BY <1>13 DEF f

\* Nobody asked for a block: the whole, or the first block and a Block2 option.
LEMMA FirstFills ==
  ASSUME NEW reqOpts, ~GetBlockOptionFromMsg(reqOpts, OPT_BLOCK2).found,
         NEW n \in Nat, NEW m \in Message, Options(m.opts, n),
         NEW b \in Buffer, HasRoom(b, 0), NEW data \in Seq(Byte), Len(data) > 0,
         NEW use \in {"IN_PLACE", "VOLATILE", "STATIC"},
         use = "IN_PLACE" => Len(data) <= b.room,
         use = "STATIC" => b.at # "HEAP"
  PROVE  \E opts : /\ Filling(CoAP_SetPayload(reqOpts, m, b, data, use), m, m.code, opts)
                   /\ Options(opts, n + 1) /\ SameObserve(opts, m.opts)
                   /\ Len(data) <= MAX_PAYLOAD_SIZE => opts = m.opts
<1> DEFINE len == Len(data)
           block == GetBlockOptionFromMsg(reqOpts, OPT_BLOCK2)
           cut == WholeOrFirst(len)
           f == CoAP_SetPayload(reqOpts, m, b, data, use)
           add == AddBlkOptionToMsg(m.opts, OPT_BLOCK2, cut)
           opts == IF cut.more THEN add ELSE m.opts
<1>0. Len(data) \in Nat \ {0}
  BY LenProperties
<1>1. f = Filled(m, b, data, cut, use, opts)
  <2>1. data # <<>>
    BY <1>0
  <2>2. ~block.found
    OBVIOUS
  <2> HIDE DEF block, cut, add
  <2> QED BY <2>1, <2>2 DEF CoAP_SetPayload, block, cut, add
<1>2. ProperCut(cut, len) /\ cut.more = (len > MAX_PAYLOAD_SIZE)
  BY <1>0, CutOfFirst DEF ProperCut
<1>3. Options(add, n + 1) /\ SameObserve(add, m.opts)
  <2>1. cut.num \in Nat /\ cut.size \in BlockSizeValues
    BY <1>2 DEF ProperCut
  <2> HIDE DEF cut
  <2> QED BY <2>1, BlockAdded
<1>4. Options(m.opts, n + 1) /\ SameObserve(m.opts, m.opts)
  BY MayBeFewer DEF SameObserve
<1> HIDE DEF add, cut
<1>5. Len(data) <= MAX_PAYLOAD_SIZE => ~cut.more
  <2>1. Len(data) <= MAX_PAYLOAD_SIZE => ~(len > MAX_PAYLOAD_SIZE)
    BY <1>0, WireAssumption
  <2> QED BY <1>2, <2>1, Zenon
<1>6. /\ Options(opts, n + 1) /\ SameObserve(opts, m.opts)
      /\ Len(data) <= MAX_PAYLOAD_SIZE => opts = m.opts
  BY <1>3, <1>4, <1>5
<1>7. opts \in Seq(Option)
  BY <1>6 DEF Options
<1> HIDE DEF opts, f
<1>8. Filling(f, m, m.code, opts)
  BY <1>1, <1>2, <1>7, FilledIs
<1>9. Filling(CoAP_SetPayload(reqOpts, m, b, data, use), m, m.code, opts)
  BY <1>8 DEF f
<1> WITNESS opts
<1> QED BY <1>6, <1>9

\* A block was asked for and is behind the end.
LEMMA BehindTheEnd ==
  ASSUME NEW block, block.num \in Nat, block.size \in BlockSizeValues,
         NEW len \in Nat, ~(BlockToSend(block, len).left > 0)
  PROVE  BlockToSend(block, len).left <= 0
<1> DEFINE size == IF block.size > MAX_PAYLOAD_SIZE THEN MAX_PAYLOAD_SIZE
                   ELSE block.size
           left == len - (size * block.num)
<1>1. MAX_PAYLOAD_SIZE \in Nat
  BY WireAssumption
<1>2. block.size \in Nat
  BY DEF BlockSizeValues
<1>3. size \in Nat
  BY <1>1, <1>2
<1>4. BlockToSend(block, len).left = left
  BY DEF BlockToSend
<1> HIDE DEF size
<1>5. size * block.num \in Nat
  BY <1>3
<1>6. left \in Int
  BY <1>5
<1> HIDE DEF left
<1> QED BY <1>4, <1>6

\* A block was asked for.
LEMMA AskedFills ==
  ASSUME NEW reqOpts \in Seq(Option), GetBlockOptionFromMsg(reqOpts, OPT_BLOCK2).found,
         NEW n \in Nat, NEW m \in Message, Options(m.opts, n),
         NEW b \in Buffer, HasRoom(b, 0), NEW data \in Seq(Byte), Len(data) > 0,
         NEW use \in {"IN_PLACE", "VOLATILE", "STATIC"},
         use = "IN_PLACE" => Len(data) <= b.room,
         use = "STATIC" => b.at # "HEAP"
  PROVE  Filled2(CoAP_SetPayload(reqOpts, m, b, data, use), m, n)
<1> DEFINE len == Len(data)
           block == GetBlockOptionFromMsg(reqOpts, OPT_BLOCK2)
           cut == BlockToSend(block, len)
           f == CoAP_SetPayload(reqOpts, m, b, data, use)
           less == RemoveAllBlockOptionsFromMsg(m.opts, OPT_BLOCK2)
           with == AddBlkOptionToMsg(less, OPT_BLOCK2, cut)
<1>0. Len(data) \in Nat \ {0}
  BY LenProperties
<1>1. data # <<>>
  BY <1>0
<1>2. block.num \in Nat /\ block.size \in BlockSizeValues
  BY BlockFound
<1>3. CASE cut.left > 0
  <2>1. ProperCut(cut, len)
    <3> HIDE DEF block
    <3> QED BY <1>0, <1>2, <1>3, CutOfBlock DEF ProperCut
  <2>2. f = Filled(m, b, data, cut, use, with)
    <3>1. cut.left \in Nat
      BY <2>1 DEF ProperCut
    <3>2. ~(cut.left <= 0)
      BY <1>3, <3>1
    <3> HIDE DEF block, cut, with
    <3> QED BY <1>1, <1>3, <3>2 DEF CoAP_SetPayload, block, cut, with, less
  <2>3. Options(less, n)
    BY WithoutKeeps DEF RemoveAllBlockOptionsFromMsg
  <2>4. cut.num \in Nat /\ cut.size \in BlockSizeValues
    BY <2>1 DEF ProperCut
  <2>5. Options(with, n + 1)
    <3> HIDE DEF cut, less
    <3> QED BY <2>3, <2>4, BlockAdded
  <2>6. with \in Seq(Option)
    BY <2>5 DEF Options
  <2> HIDE DEF with, cut, f
  <2>7. Filling(f, m, m.code, with)
    BY <2>1, <2>2, <2>6, FilledIs
  <2>8. Filled2(f, m, n)
    BY <2>5, <2>7, FilledWith
  <2> QED BY <2>8 DEF f
<1>4. CASE ~(cut.left > 0)
  <2>1. cut.left <= 0
    <3> HIDE DEF block
    <3> QED BY <1>0, <1>2, <1>4, BehindTheEnd
  <2>2. f = Refused(m, b)
    <3> HIDE DEF block, cut
    <3>1. block.found
      BY DEF block
    <3> QED BY <1>1, <1>4, <2>1, <3>1 DEF CoAP_SetPayload, block, cut
  <2>3. Filling(f, m, RESP_BAD_OPTION, m.opts)
    BY <2>2, RefusedIs
  <2>4. Options(m.opts, n + 1)
    BY MayBeFewer
  <2> HIDE DEF f, cut
  <2>5. Filled2(f, m, n)
    BY <2>3, <2>4, FilledWith
  <2> QED BY <2>5 DEF f
<1> QED BY <1>3, <1>4

\* Whatever block is asked for, the message stays one that can be sent, its
\* payload is not longer than a receiver takes, and it has room.
LEMMA SetPayloadFills ==
  ASSUME NEW reqOpts \in Seq(Option), NEW n \in Nat,
         NEW m \in Message, Options(m.opts, n),
         NEW b \in Buffer, HasRoom(b, 0), NEW data \in Seq(Byte),
         NEW use \in {"IN_PLACE", "VOLATILE", "STATIC"},
         use = "IN_PLACE" => Len(data) <= b.room,
         use = "STATIC" => b.at # "HEAP"
  PROVE  Filled2(CoAP_SetPayload(reqOpts, m, b, data, use), m, n)
<1> DEFINE f == CoAP_SetPayload(reqOpts, m, b, data, use)
           block == GetBlockOptionFromMsg(reqOpts, OPT_BLOCK2)
<1>1. CASE data = <<>>
  <2>1. Filling(f, m, m.code, m.opts)
    <3>1. Len(data) = 0
      BY <1>1, EmptySeq
    <3> QED BY <3>1, NothingFills
  <2>2. Options(m.opts, n + 1)
    BY MayBeFewer
  <2> HIDE DEF f
  <2>3. Filled2(f, m, n)
    BY <2>1, <2>2, FilledWith
  <2> QED BY <2>3 DEF f
<1>2. CASE data # <<>>
  <2>0. Len(data) > 0
    BY <1>2, LenProperties, EmptySeq
  <2>1. CASE block.found
    BY <2>0, <2>1, AskedFills
  <2>2. CASE ~block.found
    <3> HIDE DEF f
    <3>1. PICK opts : Filling(f, m, m.code, opts) /\ Options(opts, n + 1)
      BY <2>0, <2>2, FirstFills DEF f
    <3>2. Filled2(f, m, n)
      BY <3>1, FilledWith
    <3> QED BY <3>2 DEF f
  <2> QED BY <2>1, <2>2
<1> QED BY <1>1, <1>2

(***************************************************************************)
(* Handlers.                                                               *)
(***************************************************************************)
\* What is cut into blocks.
LEMMA DataIsBytes ==
  ASSUME NEW r, r \in Representation
  PROVE  Data(r) \in Seq(Byte) /\ Len(Data(r)) = r.len
<1>1. r.len \in Nat /\ r.ver \in Nat
  BY DEF Representation
<1> DEFINE n == r.len
           d == [i \in 1..n |-> (i + 100 * r.ver) % 251]
<1>2. \A i \in 1..n : (i + 100 * r.ver) % 251 \in Byte
  BY <1>1 DEF Byte
<1>3. d \in [1..n -> Byte]
  BY <1>2
<1>4. d \in Seq(Byte) /\ Len(d) = n
  <2> HIDE DEF d, n
  <2>1. n \in Nat /\ DOMAIN d = 1..n
    BY <1>1, <1>3 DEF n
  <2> QED BY <1>3, <2>1
<1> QED BY <1>4 DEF Data

\* The text for a caller without a key.
LEMMA UsageIsBytes == Usage \in Seq(Byte) /\ Len(Usage) = 20
<1> DEFINE n == 20
           d == [i \in 1..n |-> 117]
<1>1. 117 \in Byte
  BY DEF Byte
<1>2. d \in [1..n -> Byte]
  BY <1>1
<1>3. d \in Seq(Byte) /\ Len(d) = n
  <2> HIDE DEF d, n
  <2>1. n \in Nat /\ DOMAIN d = 1..n
    BY <1>2 DEF n
  <2> QED BY <1>2, <2>1
<1> QED BY <1>3 DEF Usage

\* The codes the stack answers with.
LEMMA OwnCodes ==
  ASSUME NEW code \in {REQ_GET, RESP_CONTENT, RESP_BAD_OPTION, RESP_ERROR_UNAUTHORIZED,
                       RESP_NOT_FOUND}
  PROVE  code \in Byte /\ code # EMPTY /\ ~IsReservedClass(code)
BY DEF REQ_GET, RESP_CONTENT, RESP_BAD_OPTION, RESP_ERROR_UNAUTHORIZED,
       RESP_NOT_FOUND, Byte, EMPTY, IsReservedClass

\* A content format is added.
LEMMA FormatAdded ==
  ASSUME NEW n \in Nat, NEW opts, Options(opts, n)
  PROVE  Options(AddCfOptionToMsg(opts, COAP_CF_LINK_FORMAT), n + 1)
<1> DEFINE v == CfBytes(COAP_CF_LINK_FORMAT)
           b == COAP_CF_LINK_FORMAT
<1>1. v = <<b>> /\ b \in Byte
  BY DEF CfBytes, COAP_CF_LINK_FORMAT, Byte
<1>2. v \in Seq(Byte) /\ Len(v) = 1
  <2> HIDE DEF b
  <2> QED BY <1>1
<1> HIDE DEF v
<1>3. Len(v) <= MAX_OPTION_VALUE_SIZE
  BY <1>2, WireAssumption
<1> QED BY <1>2, <1>3, OneMoreOption, OwnNumbers DEF AddCfOptionToMsg, v

\* A filled message whose options or code are changed.
LEMMA FilledOptions ==
  ASSUME NEW f, NEW m, NEW code, NEW opts, Filling(f, m, code, opts),
         NEW new \in Seq(Option)
  PROVE  Filling([f EXCEPT !.msg.opts = new], m, code, new)
<1> DEFINE w == [f.msg EXCEPT !.opts = new]
           g == [f EXCEPT !.msg.opts = new]
<1>1. f \in [msg : Message, buf : Buffer]
  BY DEF Filling
<1>2. g = [msg |-> w, buf |-> f.buf] /\ f.msg \in Message /\ f.buf \in Buffer
  BY <1>1
<1>3. /\ f.msg.code \in Byte /\ f.msg.mid \in OptNum /\ f.msg.payload \in Seq(Byte)
      /\ f.msg = [type |-> f.msg.type, code |-> f.msg.code, mid |-> f.msg.mid,
                  tok |-> f.msg.tok, opts |-> f.msg.opts, payload |-> f.msg.payload]
  BY <1>2, FieldsOfMessage
<1>4. ASSUME NEW v, v = [f.msg EXCEPT !.opts = new]
      PROVE  v = [type |-> f.msg.type, code |-> f.msg.code, mid |-> f.msg.mid,
                  tok |-> f.msg.tok, opts |-> new, payload |-> f.msg.payload]
  BY <1>3, <1>4, Zenon
<1>5. w = [type |-> f.msg.type, code |-> f.msg.code, mid |-> f.msg.mid,
           tok |-> f.msg.tok, opts |-> new, payload |-> f.msg.payload]
  BY <1>4
<1> HIDE DEF g, w
<1>6. f.msg.code \in Byte /\ f.msg.mid \in OptNum /\ f.msg.payload \in Seq(Byte)
  BY <1>3
<1>7. /\ w \in Message /\ w.type = f.msg.type /\ w.code = f.msg.code
      /\ w.mid = f.msg.mid /\ w.tok = f.msg.tok /\ w.opts = new
      /\ w.payload = f.msg.payload
  BY <1>2, <1>5, <1>6, MessageChanged
<1>8. g \in [msg : Message, buf : Buffer] /\ g.msg = w /\ g.buf = f.buf
  BY <1>2, <1>7, PairIs
<1>9. Filling(g, m, code, new)
  BY <1>7, <1>8 DEF Filling
<1> QED BY <1>9 DEF g

\* The code stays that of the message, or becomes that of a refusal.
LEMMA FilledCode ==
  ASSUME NEW f, NEW m, NEW code, NEW opts, Filling(f, m, code, opts), NEW new \in Byte
  PROVE  Filling([f EXCEPT !.msg.code = new], m, new, opts)
<1> DEFINE w == [f.msg EXCEPT !.code = new]
           g == [f EXCEPT !.msg.code = new]
<1>1. f \in [msg : Message, buf : Buffer]
  BY DEF Filling
<1>2. g = [msg |-> w, buf |-> f.buf] /\ f.msg \in Message /\ f.buf \in Buffer
  BY <1>1
<1>3. /\ f.msg.opts \in Seq(Option) /\ f.msg.mid \in OptNum /\ f.msg.payload \in Seq(Byte)
      /\ f.msg = [type |-> f.msg.type, code |-> f.msg.code, mid |-> f.msg.mid,
                  tok |-> f.msg.tok, opts |-> f.msg.opts, payload |-> f.msg.payload]
  BY <1>2, FieldsOfMessage
<1>4. ASSUME NEW v, v = [f.msg EXCEPT !.code = new]
      PROVE  v = [type |-> f.msg.type, code |-> new, mid |-> f.msg.mid,
                  tok |-> f.msg.tok, opts |-> f.msg.opts, payload |-> f.msg.payload]
  BY <1>3, <1>4, Zenon
<1>5. w = [type |-> f.msg.type, code |-> new, mid |-> f.msg.mid,
           tok |-> f.msg.tok, opts |-> f.msg.opts, payload |-> f.msg.payload]
  BY <1>4
<1> HIDE DEF g, w
<1>6. f.msg.opts \in Seq(Option) /\ f.msg.mid \in OptNum /\ f.msg.payload \in Seq(Byte)
  BY <1>3
<1>7. /\ w \in Message /\ w.type = f.msg.type /\ w.code = new
      /\ w.mid = f.msg.mid /\ w.tok = f.msg.tok /\ w.opts = f.msg.opts
      /\ w.payload = f.msg.payload
  BY <1>2, <1>5, <1>6, MessageChanged
<1>8. g \in [msg : Message, buf : Buffer] /\ g.msg = w /\ g.buf = f.buf
  BY <1>2, <1>7, PairIs
<1>9. Filling(g, m, new, opts)
  BY <1>7, <1>8 DEF Filling
<1> QED BY <1>9 DEF g

\* A larger buffer in the place of the message's own.
LEMMA PreparedHasRoom ==
  ASSUME NEW n \in Nat
  PROVE  LET b == OwnBuffer(PREFERED_PAYLOAD_SIZE)
             p == Prepared(b, n)
         IN  /\ b \in Buffer /\ HasRoom(b, 0) /\ b.at = "MSG"
             /\ p \in Buffer /\ HasRoom(p, 0) /\ n <= p.room
<1> DEFINE s == PREFERED_PAYLOAD_SIZE
           b == [at |-> "MSG", size |-> s, room |-> s, held |-> 0]
           p == Prepared(b, n)
<1>1. s \in Nat
  <2>1. MAX_PAYLOAD_SIZE \in Nat
    BY WireAssumption
  <2> QED BY <2>1, BlockwiseAssumption
<1>2. OwnBuffer(PREFERED_PAYLOAD_SIZE) = b
  BY DEF OwnBuffer
<1> HIDE DEF s
<1>3. b \in Buffer /\ HasRoom(b, 0) /\ b.at = "MSG" /\ b.size = s
  BY <1>1 DEF Buffer, HasRoom, PayloadBlocks
<1>4. CASE s < n
  <2>1. b.held = 0
    OBVIOUS
  <2> HIDE DEF b
  <2>2. Prepared(b, n) = [b EXCEPT !.at = "HEAP", !.room = n, !.held = @ + 1]
    BY <1>3, <1>4 DEF Prepared
  <2> HIDE DEF p
  <2>3. ASSUME NEW v, v = [b EXCEPT !.at = "HEAP", !.room = n, !.held = @ + 1]
        PROVE  v \in Buffer /\ v.at = "HEAP" /\ v.room = n /\ v.held = 1 /\ v.size = s
    <3>1. b = [at |-> b.at, size |-> b.size, room |-> b.room, held |-> b.held]
      BY <1>3 DEF Buffer
    <3>2. v = [at |-> "HEAP", size |-> b.size, room |-> n, held |-> b.held + 1]
      BY <2>3, <3>1, Zenon
    <3>3. b.size = s /\ b.held + 1 = 1
      BY <1>3, <2>1
    <3>4. v = [at |-> "HEAP", size |-> s, room |-> n, held |-> 1]
      BY <3>2, <3>3
    <3> QED BY <1>1, <3>4 DEF Buffer
  <2>4. p \in Buffer /\ p.at = "HEAP" /\ p.room = n /\ p.held = 1 /\ p.size = s
    BY <1>2, <2>2, <2>3 DEF p
  <2>5. HasRoom(p, 0) /\ n <= p.room
    BY <1>1, <1>4, <2>4 DEF HasRoom, PayloadBlocks
  <2> QED BY <1>2, <1>3, <2>4, <2>5 DEF p
<1>5. CASE ~(s < n)
  <2>1. p = b
    BY <1>5 DEF Prepared
  <2>2. b.room = s /\ n <= s
    BY <1>1, <1>5
  <2> HIDE DEF p, b
  <2> QED BY <1>2, <1>3, <2>1, <2>2 DEF p
<1> QED BY <1>4, <1>5

\* What a handler makes of an empty response.
Handled(f, m) ==
  \E code \in {m.code, RESP_BAD_OPTION, RESP_ERROR_UNAUTHORIZED} : \E opts :
    Options(opts, 2) /\ Filling(f, m, code, opts)

\* A witness for Handled.
LEMMA HandledWith ==
  ASSUME NEW f, NEW m, NEW code \in {m.code, RESP_BAD_OPTION, RESP_ERROR_UNAUTHORIZED},
         NEW opts, Options(opts, 2), Filling(f, m, code, opts)
  PROVE  Handled(f, m)
  BY DEF Handled

\* Fewer options than a handler may add.
LEMMA OneIsAtMostTwo ==
  ASSUME NEW opts, Options(opts, 0 + 1)
  PROVE  Options(opts, 2)
<1>1. 0 + 1 <= 2 /\ 0 + 1 \in Int
  OBVIOUS
<1> QED BY <1>1, MayBeFewer

\* CoAP_SetPayload alone makes a response.
LEMMA FilledIsHandled ==
  ASSUME NEW f, NEW m, Filled2(f, m, 0)
  PROVE  Handled(f, m)
<1>1. PICK code \in {m.code, RESP_BAD_OPTION} : \E opts :
        Options(opts, 0 + 1) /\ Filling(f, m, code, opts)
  BY DEF Filled2
<1>2. PICK opts : Options(opts, 0 + 1) /\ Filling(f, m, code, opts)
  BY <1>1
<1>3. Options(opts, 2)
  BY <1>2, OneIsAtMostTwo
<1> QED BY <1>2, <1>3, HandledWith

\* Every handler leaves a message that can be sent.
LEMMA HandlerAnswers ==
  ASSUME rep \in Representation, NEW id \in HandlerIds,
         NEW req, req.opts \in Seq(Option),
         NEW m \in Message, m.opts = <<>>,
         NEW b, b = OwnBuffer(PREFERED_PAYLOAD_SIZE)
  PROVE  Handled(Handler(id, req, m, b), m)
<1> DEFINE data == Data(rep)
           none == m.opts
<1>1. data \in Seq(Byte) /\ Len(data) = rep.len /\ rep.len \in Nat
  BY DataIsBytes DEF Representation
<1>2. /\ b \in Buffer /\ HasRoom(b, 0) /\ b.at = "MSG"
      /\ Prepared(b, rep.len) \in Buffer /\ HasRoom(Prepared(b, rep.len), 0)
      /\ rep.len <= Prepared(b, rep.len).room
  BY <1>1, PreparedHasRoom
<1>3. Options(m.opts, 0)
  BY NoOptions
<1> HIDE DEF data
<1>4. CASE id = "core"
  <2> DEFINE f == CoAP_SetPayload(req.opts, m, b, data, "VOLATILE")
  <2>1. Filled2(f, m, 0)
    BY <1>1, <1>2, <1>3, SetPayloadFills
  <2>2. Handler(id, req, m, b)
          = [f EXCEPT !.msg.opts = AddCfOptionToMsg(f.msg.opts, COAP_CF_LINK_FORMAT)]
    BY <1>4 DEF Handler, WellKnown_GetHandler, data
  <2> HIDE DEF f
  <2>3. PICK code \in {m.code, RESP_BAD_OPTION} : \E opts :
          Options(opts, 0 + 1) /\ Filling(f, m, code, opts)
    BY <2>1 DEF Filled2
  <2>4. PICK opts : Options(opts, 0 + 1) /\ Filling(f, m, code, opts)
    BY <2>3
  <2> DEFINE new == AddCfOptionToMsg(opts, COAP_CF_LINK_FORMAT)
  <2>5. Options(new, 2)
    <3>1. Options(new, (0 + 1) + 1)
      BY <2>4, FormatAdded
    <3> HIDE DEF new
    <3> QED BY <3>1
  <2>6. new \in Seq(Option) /\ f.msg.opts = opts
    BY <2>4, <2>5 DEF Options, Filling
  <2>7. Handler(id, req, m, b) = [f EXCEPT !.msg.opts = new]
    BY <2>2, <2>6
  <2> HIDE DEF new
  <2>8. Filling([f EXCEPT !.msg.opts = new], m, code, new)
    BY <2>4, <2>6, FilledOptions
  <2>9. Handled([f EXCEPT !.msg.opts = new], m)
    BY <2>5, <2>8, HandledWith
  <2> QED BY <2>7, <2>9
<1>5. CASE id = "ipconfig"
  <2> DEFINE f == CoAP_SetPayload(req.opts, m, b, data, "VOLATILE")
  <2>1. Filled2(f, m, 0)
    BY <1>1, <1>2, <1>3, SetPayloadFills
  <2>2. Handler(id, req, m, b) = f
    BY <1>5 DEF Handler, Ip_RequestHandler, data
  <2> HIDE DEF f
  <2> QED BY <2>1, <2>2, FilledIsHandled
<1>6. CASE id = "about"
  <2> DEFINE f == CoAP_SetPayload(req.opts, m, b, data, "STATIC")
  <2>1. Filled2(f, m, 0)
    BY <1>1, <1>2, <1>3, SetPayloadFills
  <2>2. Handler(id, req, m, b) = f
    BY <1>6 DEF Handler, About_RequestHandler, data
  <2> HIDE DEF f
  <2> QED BY <2>1, <2>2, FilledIsHandled
<1>7. CASE id = "config"
  <2>1. CASE KeyOk(req.opts)
    <3> DEFINE f == CoAP_SetPayload(req.opts, m, Prepared(b, rep.len), data, "IN_PLACE")
    <3>1. Filled2(f, m, 0)
      BY <1>1, <1>2, <1>3, SetPayloadFills
    <3>2. Handler(id, req, m, b) = f
      BY <1>7, <2>1 DEF Handler, ResWifi_ReqHandler, data
    <3> HIDE DEF f
    <3> QED BY <3>1, <3>2, FilledIsHandled
  <2>2. CASE ~KeyOk(req.opts)
    <3> DEFINE f == CoAP_SetPayload(req.opts, m, b, Usage, "VOLATILE")
               g == [f EXCEPT !.msg.code = RESP_ERROR_UNAUTHORIZED]
    <3>1. Filled2(f, m, 0)
      BY <1>2, <1>3, UsageIsBytes, SetPayloadFills
    <3>2. Handler(id, req, m, b) = g
      <4>1. Handler(id, req, m, b) = ResWifi_ReqHandler(req, m, b)
        BY <1>7 DEF Handler
      <4>2. ResWifi_ReqHandler(req, m, b) = g
        BY <2>2 DEF ResWifi_ReqHandler
      <4> HIDE DEF g
      <4> QED BY <4>1, <4>2
    <3> HIDE DEF f
    <3>3. PICK code \in {m.code, RESP_BAD_OPTION} : \E opts :
            Options(opts, 0 + 1) /\ Filling(f, m, code, opts)
      BY <3>1 DEF Filled2
    <3>4. PICK opts : Options(opts, 0 + 1) /\ Filling(f, m, code, opts)
      BY <3>3
    <3>5. Options(opts, 2)
      BY <3>4, OneIsAtMostTwo
    <3>6. Filling(g, m, RESP_ERROR_UNAUTHORIZED, opts)
      <4>1. RESP_ERROR_UNAUTHORIZED \in Byte
        BY OwnCodes
      <4> QED BY <3>4, <4>1, FilledCode
    <3> HIDE DEF g
    <3>7. Handled(g, m)
      BY <3>5, <3>6, HandledWith
    <3> QED BY <3>2, <3>7
  <2> QED BY <2>1, <2>2
<1> QED BY <1>4, <1>5, <1>6, <1>7 DEF HandlerIds

\* A request of a client, and the lengths in it.
LEMMA AskedIsProper ==
  ASSUME NEW r \in Requests
  PROVE  ClientRequest(r) /\ Len(r.uri) \in Nat /\ Len(r.extra) \in Nat
<1>1. ClientRequest(r)
  BY TransferAssumption
<1> QED BY <1>1, LenProperties DEF ClientRequest

\* A few options always fit.
LEMMA FewOptionsPack ==
  ASSUME asked \in Requests, NEW k \in 0..3, NEW opts, Options(opts, k)
  PROVE  Packable(opts)
<1> DEFINE e == Len(asked.extra)
           u == Len(asked.uri)
           n == e + u + 3
<1>1. Countable(n)
  <2>1. ClientRequest(asked)
    BY AskedIsProper
  <2> QED BY <2>1 DEF ClientRequest
<1>2. n \in Nat /\ k <= n /\ k \in Int
  <2>1. e \in Nat /\ u \in Nat
    BY AskedIsProper
  <2> HIDE DEF e, u
  <2> QED BY <2>1
<1> HIDE DEF n
<1>3. n * (MAX_OPTION_VALUE_SIZE + 5) < 65536
  BY <1>1 DEF Countable
<1>4. Options(opts, n)
  BY <1>2, MayBeFewer
<1> QED BY <1>2, <1>3, <1>4, OptionsPack

\* The response that leaves, with the code that is set last.
LEMMA AnswerIsSendable ==
  ASSUME asked \in Requests, NEW m, m.code = EMPTY, NEW f, Handled(f, m),
         NEW w, w = IF f.msg.code # EMPTY THEN f.msg ELSE [f.msg EXCEPT !.code = RESP_CONTENT]
  PROVE  Sendable(w) /\ f.buf \in Buffer /\ HasRoom(f.buf, Len(w.payload))
<1>1. PICK code \in {m.code, RESP_BAD_OPTION, RESP_ERROR_UNAUTHORIZED} : \E opts :
        Options(opts, 2) /\ Filling(f, m, code, opts)
  BY DEF Handled
<1>2. PICK opts : Options(opts, 2) /\ Filling(f, m, code, opts)
  BY <1>1
<1>3. /\ f.msg \in Message /\ f.buf \in Buffer /\ f.msg.code = code /\ f.msg.opts = opts
      /\ HasRoom(f.buf, Len(f.msg.payload)) /\ Len(f.msg.payload) <= MAX_PAYLOAD_SIZE
  BY <1>2 DEF Filling
<1>4. Packable(opts)
  <2>1. 2 \in 0..3
    OBVIOUS
  <2> QED BY <1>2, <2>1, FewOptionsPack
<1>5. CASE f.msg.code # EMPTY
  <2>1. code \in {RESP_BAD_OPTION, RESP_ERROR_UNAUTHORIZED} /\ w = f.msg
    BY <1>3, <1>5
  <2>2. ~IsReservedClass(code)
    BY <2>1, OwnCodes
  <2> QED BY <1>3, <1>4, <1>5, <2>1, <2>2 DEF Sendable
<1>6. CASE f.msg.code = EMPTY
  <2>1. /\ f.msg.opts \in Seq(Option) /\ f.msg.mid \in OptNum
        /\ f.msg.payload \in Seq(Byte)
        /\ f.msg = [type |-> f.msg.type, code |-> f.msg.code, mid |-> f.msg.mid,
                    tok |-> f.msg.tok, opts |-> f.msg.opts, payload |-> f.msg.payload]
    BY <1>3, FieldsOfMessage
  <2>2. w = [f.msg EXCEPT !.code = RESP_CONTENT]
    BY <1>6
  <2>3. w = [type |-> f.msg.type, code |-> RESP_CONTENT, mid |-> f.msg.mid,
             tok |-> f.msg.tok, opts |-> f.msg.opts, payload |-> f.msg.payload]
    BY <2>1, <2>2, Zenon
  <2>4. RESP_CONTENT \in Byte /\ RESP_CONTENT # EMPTY /\ ~IsReservedClass(RESP_CONTENT)
    BY OwnCodes
  <2>5. f.msg.opts \in Seq(Option) /\ f.msg.mid \in OptNum /\ f.msg.payload \in Seq(Byte)
    BY <2>1
  <2>6. /\ w \in Message /\ w.code = RESP_CONTENT /\ w.opts = opts
        /\ w.payload = f.msg.payload
    BY <1>3, <2>3, <2>4, <2>5, MessageChanged
  <2> QED BY <1>3, <1>4, <2>4, <2>6 DEF Sendable
<1> QED BY <1>5, <1>6

\* A short answer.
LEMMA ShortIsSendable ==
  ASSUME asked \in Requests, NEW code \in {RESP_NOT_FOUND, RESP_BAD_OPTION},
         NEW mid \in OptNum, NEW tok \in Token64,
         NEW w, w = [EmptyResetMsg EXCEPT !.type = ACK, !.mid = mid, !.code = code,
                                          !.tok = tok]
  PROVE  Sendable(w)
<1> DEFINE none == <<>>
<1>1. none \in Seq(Option) /\ none \in Seq(Byte) /\ Len(none) = 0 /\ Options(none, 0)
  BY NoOptions
<1>2. EmptyResetMsg = [type |-> RST, code |-> EMPTY, mid |-> 0, tok |-> NoToken,
                       opts |-> none, payload |-> none]
  BY DEF EmptyResetMsg
<1> HIDE DEF none
<1>3. w = [type |-> ACK, code |-> code, mid |-> mid, tok |-> tok,
           opts |-> none, payload |-> none]
  BY <1>2, Zenon
<1>4. code \in Byte /\ code # EMPTY /\ ~IsReservedClass(code)
  BY OwnCodes
<1>5. ACK \in 0..3
  BY DEF ACK
<1> DEFINE v == [type |-> ACK, code |-> code, mid |-> mid, tok |-> tok,
                 opts |-> none, payload |-> none]
<1>6. v \in Message
  BY <1>1, <1>4, <1>5, MessageOf
<1>7. v.code = code /\ v.opts = none /\ v.payload = none
  OBVIOUS
<1> HIDE DEF v
<1>8. Packable(none)
  <2>1. 0 \in 0..3
    OBVIOUS
  <2> QED BY <1>1, <2>1, FewOptionsPack
<1>9. Len(v.payload) <= MAX_PAYLOAD_SIZE
  <2>1. Len(none) <= MAX_PAYLOAD_SIZE
    BY <1>1, WireAssumption
  <2> QED BY <1>7, <2>1
<1>10. Sendable(v)
  BY <1>4, <1>6, <1>7, <1>8, <1>9 DEF Sendable
<1>11. w = v
  BY <1>3 DEF v
<1> QED BY <1>10, <1>11

(***************************************************************************)
(* Notifications.                                                          *)
(***************************************************************************)
\* What a Notifier makes of a message with up to n options.
Notified(f, m, r, n) ==
  \E opts : /\ Filling(f, m, m.code, opts)
            /\ Options(opts, n + 1) /\ SameObserve(opts, m.opts)
            /\ r.len <= MAX_PAYLOAD_SIZE => opts = m.opts

\* A Notifier fills the message, or leaves its options as they are.
LEMMA NotifierFills ==
  ASSUME NEW r, r \in Representation, NEW n \in Nat,
         NEW m \in Message, Options(m.opts, n),
         NEW b \in Buffer, HasRoom(b, 0)
  PROVE  Notified(Notifier(m, b, r), m, r, n)
<1> DEFINE f == Notifier(m, b, r)
           data == Data(r)
           none == <<>>
<1>1. data \in Seq(Byte) /\ Len(data) = r.len /\ Len(data) \in Nat
  BY DataIsBytes, LenProperties
<1>2. f = CoAP_SetPayload(none, m, b, data, "VOLATILE")
  BY DEF Notifier
<1>3. ~GetBlockOptionFromMsg(none, OPT_BLOCK2).found
  <2>1. FirstPosition(none, OPT_BLOCK2) = 0
    BY DEF FirstPosition, Positions
  <2> HIDE DEF none
  <2> QED BY <2>1 DEF GetBlockOptionFromMsg, NoBlock
<1> HIDE DEF f, data, none
<1>4. CASE Len(data) = 0
  <2>1. Filling(f, m, m.code, m.opts)
    BY <1>1, <1>2, <1>4, NothingFills
  <2>2. Options(m.opts, n + 1)
    BY MayBeFewer
  <2>3. SameObserve(m.opts, m.opts)
    BY DEF SameObserve
  <2>4. Notified(f, m, r, n)
    BY <2>1, <2>2, <2>3 DEF Notified
  <2> QED BY <2>4 DEF f
<1>5. CASE Len(data) # 0
  <2>1. Len(data) > 0
    BY <1>1, <1>5
  <2>2. PICK opts : /\ Filling(f, m, m.code, opts)
                    /\ Options(opts, n + 1) /\ SameObserve(opts, m.opts)
                    /\ Len(data) <= MAX_PAYLOAD_SIZE => opts = m.opts
    BY <1>1, <1>2, <1>3, <2>1, FirstFills
  <2>3. Notified(f, m, r, n)
    BY <1>1, <2>2 DEF Notified
  <2> QED BY <2>3 DEF f
<1> QED BY <1>4, <1>5

\* A notification with its Observe option, n being the number of options it
\* may have.
Notification(w, m, b, n, c) ==
  /\ w \in Message /\ w.code = m.code /\ Options(w.opts, n) /\ OneObserve(w.opts, c)
  /\ Len(w.payload) <= MAX_PAYLOAD_SIZE
  /\ b \in Buffer /\ HasRoom(b, Len(w.payload))

\* Options that come to a filled message.
LEMMA MessageOptions ==
  ASSUME NEW f, NEW m, NEW opts, Filling(f, m, m.code, opts),
         NEW n \in Nat, NEW new, Options(new, n), NEW c, OneObserve(new, c),
         NEW w, w = [f.msg EXCEPT !.opts = new]
  PROVE  Notification(w, m, f.buf, n, c)
<1>1. /\ f.msg \in Message /\ f.buf \in Buffer /\ f.msg.code = m.code
      /\ Len(f.msg.payload) <= MAX_PAYLOAD_SIZE /\ HasRoom(f.buf, Len(f.msg.payload))
  BY DEF Filling
<1>2. /\ f.msg.code \in Byte /\ f.msg.mid \in OptNum /\ f.msg.payload \in Seq(Byte)
      /\ f.msg = [type |-> f.msg.type, code |-> f.msg.code, mid |-> f.msg.mid,
                  tok |-> f.msg.tok, opts |-> f.msg.opts, payload |-> f.msg.payload]
  BY <1>1, FieldsOfMessage
<1>3. w = [type |-> f.msg.type, code |-> f.msg.code, mid |-> f.msg.mid,
           tok |-> f.msg.tok, opts |-> new, payload |-> f.msg.payload]
  BY <1>2, Zenon
<1>4. f.msg.code \in Byte /\ f.msg.mid \in OptNum /\ f.msg.payload \in Seq(Byte)
  BY <1>2
<1>5. new \in Seq(Option)
  BY DEF Options
<1>6. /\ w \in Message /\ w.code = f.msg.code /\ w.opts = new
      /\ w.payload = f.msg.payload
  BY <1>1, <1>3, <1>4, <1>5, MessageChanged
<1> QED BY <1>1, <1>6 DEF Notification

\* The first notification of a change.
LEMMA NotificationStarts ==
  ASSUME NEW r, r \in Representation, r.len \in NotifyLengths,
         NEW c \in Nat, c < CntLimit,
         NEW m \in Message, m.opts = <<>>,
         NEW b \in Buffer, HasRoom(b, 0),
         NEW f, f = Notifier(m, b, r),
         NEW w, w = [f.msg EXCEPT !.opts = AddObserveOptionToMsg(f.msg.opts, c)]
  PROVE  Notification(w, m, f.buf, IF AllFit THEN 1 ELSE 2, c)
<1>1. Options(m.opts, 0) /\ NoObserve(m.opts)
  <2>1. Len(m.opts) = 0
    OBVIOUS
  <2> QED BY <2>1, NoOptions DEF NoObserve
<1>2. PICK opts : /\ Filling(f, m, m.code, opts)
                  /\ Options(opts, 0 + 1) /\ SameObserve(opts, m.opts)
                  /\ r.len <= MAX_PAYLOAD_SIZE => opts = m.opts
  <2>1. Notified(f, m, r, 0)
    BY <1>1, NotifierFills
  <2> QED BY <2>1 DEF Notified
<1>3. NoObserve(opts) /\ f.msg.opts = opts
  BY <1>1, <1>2 DEF SameObserve, Filling
<1> DEFINE new == AddObserveOptionToMsg(opts, c)
<1>4. CASE AllFit
  <2>1. Options(opts, 0)
    BY <1>1, <1>2, <1>4 DEF AllFit
  <2>2. Options(new, 0 + 1) /\ OneObserve(new, c)
    BY <1>3, <2>1, ObserveAdded
  <2> HIDE DEF new
  <2>3. Options(new, 1)
    BY <2>2
  <2>4. w = [f.msg EXCEPT !.opts = new]
    BY <1>3 DEF new
  <2>5. Notification(w, m, f.buf, 1, c)
    BY <1>2, <2>2, <2>3, <2>4, MessageOptions
  <2> QED BY <1>4, <2>5
<1>5. CASE ~AllFit
  <2>1. Options(opts, 1)
    BY <1>2
  <2>2. Options(new, 1 + 1) /\ OneObserve(new, c)
    BY <1>3, <2>1, ObserveAdded
  <2> HIDE DEF new
  <2>3. Options(new, 2)
    BY <2>2
  <2>4. w = [f.msg EXCEPT !.opts = new]
    BY <1>3 DEF new
  <2>5. Notification(w, m, f.buf, 2, c)
    BY <1>2, <2>2, <2>3, <2>4, MessageOptions
  <2> QED BY <1>5, <2>5
<1> QED BY <1>4, <1>5

\* The message of a notification under way is used for a newer representation.
LEMMA NotificationRefreshed ==
  ASSUME NEW r, r \in Representation, r.len \in NotifyLengths,
         NEW c \in Nat, c < CntLimit, NEW n \in Nat, NEW old \in Nat,
         NEW m \in Message, Options(m.opts, n), OneObserve(m.opts, old),
         NEW b \in Buffer, HasRoom(b, 0),
         NEW f, f = Notifier(m, b, r),
         NEW w, w = [f.msg EXCEPT !.opts = UpdateObserveOptionInMsg(f.msg.opts, c)]
  PROVE  Notification(w, m, f.buf, IF AllFit THEN n ELSE n + 1, c)
<1>2. PICK opts : /\ Filling(f, m, m.code, opts)
                  /\ Options(opts, n + 1) /\ SameObserve(opts, m.opts)
                  /\ r.len <= MAX_PAYLOAD_SIZE => opts = m.opts
  <2>1. Notified(f, m, r, n)
    BY NotifierFills
  <2> QED BY <2>1 DEF Notified
<1>3. OneObserve(opts, old) /\ f.msg.opts = opts
  BY <1>2 DEF SameObserve, Filling
<1> DEFINE new == UpdateObserveOptionInMsg(opts, c)
           k == IF AllFit THEN n ELSE n + 1
<1>4. Options(opts, k) /\ k \in Nat
  BY <1>2 DEF AllFit
<1> HIDE DEF k
<1>5. Options(new, k) /\ OneObserve(new, c)
  BY <1>3, <1>4, ObserveReplaced
<1> HIDE DEF new
<1>6. w = [f.msg EXCEPT !.opts = new]
  BY <1>3 DEF new
<1>7. Notification(w, m, f.buf, k, c)
  BY <1>2, <1>4, <1>5, <1>6, MessageOptions
<1> QED BY <1>7 DEF k

(***************************************************************************)
(* A URI as its parts.                                                     *)
(***************************************************************************)
\* The parts of a string that is being split: there is always a last one.
Pieces == {ps \in Seq(Seq(Byte)) : Len(ps) # 0}

\* One more byte: it ends the last part or belongs to it.
WithByte(parts, delims, ch) ==
  IF ch \in delims THEN Append(parts, <<>>)
  ELSE [parts EXCEPT ![Len(parts)] = Append(@, ch)]

\* A byte ends the last part or makes it longer.
LEMMA OneByteOn ==
  ASSUME NEW parts \in Pieces, NEW delims, NEW ch \in Byte
  PROVE  LET new == WithByte(parts, delims, ch)
         IN  /\ new \in Pieces /\ Len(new) \in {Len(parts), Len(parts) + 1}
             /\ \A i \in 1..Len(new) :
                  \/ i \in 1..Len(parts) /\ Len(new[i]) <= Len(parts[i]) + 1
                  \/ Len(new[i]) = 0
<1> DEFINE new == WithByte(parts, delims, ch)
           n == Len(parts)
           none == <<>>
           S == Seq(Byte)
<1>1. parts \in Seq(S) /\ n \in Nat \ {0} /\ \A i \in 1..n : parts[i] \in S
  BY LenProperties, ElementOfSeq DEF Pieces
<1>2. none \in S /\ Len(none) = 0
  OBVIOUS
<1>3. \A i \in 1..n : Len(parts[i]) \in Nat
  BY <1>1, LenProperties
<1> HIDE DEF none
<1>4. CASE ch \in delims
  <2>1. new = Append(parts, none)
    BY <1>4 DEF WithByte, none
  <2> HIDE DEF new, S
  <2>2. /\ new \in Seq(S) /\ Len(new) = n + 1
        /\ \A i \in 1..n : new[i] = parts[i]
        /\ new[n + 1] = none
    BY <1>1, <1>2, <2>1, AppendProperties
  <2>3. ASSUME NEW i \in 1..Len(new)
        PROVE  \/ i \in 1..n /\ Len(new[i]) <= Len(parts[i]) + 1
               \/ Len(new[i]) = 0
    <3>1. CASE i = n + 1
      BY <1>2, <2>2, <3>1
    <3>2. CASE i # n + 1
      <4>1. i \in 1..n /\ new[i] = parts[i] /\ Len(parts[i]) \in Nat
        BY <1>1, <1>3, <2>2, <3>2
      <4> QED BY <4>1
    <3> QED BY <3>1, <3>2
  <2>4. new \in Pieces
    BY <1>1, <2>2 DEF Pieces, S
  <2> QED BY <2>2, <2>3, <2>4 DEF new
<1>5. CASE ch \notin delims
  <2> DEFINE longer == Append(parts[n], ch)
  <2>1. new = [parts EXCEPT ![n] = longer]
    BY <1>5 DEF WithByte
  <2>2. longer \in S /\ Len(longer) = Len(parts[n]) + 1
    BY <1>1, AppendProperties
  <2> HIDE DEF new, S, longer
  <2>3. /\ new \in Seq(S) /\ Len(new) = n /\ new[n] = longer
        /\ \A i \in 1..n : i # n => new[i] = parts[i]
    BY <1>1, <2>1, <2>2, ExceptSeq
  <2>4. ASSUME NEW i \in 1..Len(new)
        PROVE  i \in 1..n /\ Len(new[i]) <= Len(parts[i]) + 1
    <3>1. i \in 1..n /\ Len(parts[i]) \in Nat
      BY <1>3, <2>3
    <3>2. CASE i = n
      BY <2>2, <2>3, <3>1, <3>2
    <3>3. CASE i # n
      BY <2>3, <3>1, <3>3
    <3> QED BY <3>1, <3>2, <3>3
  <2>5. new \in Pieces
    BY <1>1, <2>3 DEF Pieces, S
  <2> QED BY <2>3, <2>4, <2>5 DEF new
<1> QED BY <1>4, <1>5

\* The parts of the first k bytes.
PartsByByte(c, str, delims) ==
  /\ c \in [0..Len(str) -> Pieces]
  /\ c[0] = <<<<>>>> /\ c[Len(str)] = Parts(str, delims)
  /\ \A k \in 1..Len(str) : c[k] = WithByte(c[k-1], delims, str[k])

\* A string is divided byte by byte.
LEMMA PartsChain ==
  ASSUME NEW str \in Seq(Byte), NEW delims
  PROVE  \E c : PartsByByte(c, str, delims)
<1> DEFINE A == Pieces
           B == Byte
           q == str
           base == <<<<>>>>
           Op(a, b) == WithByte(a, delims, b)
           F == [p \in A \X B |-> Op(p[1], p[2])]
           P(h) == h = [s \in SUBSET DOMAIN q |->
                          IF s = {} THEN base ELSE Op(h[s \ {Max(s)}], q[Max(s)])]
           H == CHOOSE h : P(h)
<1>1. /\ base \in A /\ q \in Seq(B)
      /\ \A a \in A, b \in B : Op(a, b) \in A
  <2>1. base \in A
    <3>1. <<>> \in Seq(Byte)
      OBVIOUS
    <3>2. \A S, s : s \in S => <<s>> \in Seq(S) /\ Len(<<s>>) = 1
      OBVIOUS
    <3> QED BY <3>1, <3>2 DEF Pieces
  <2> QED BY <2>1, OneByteOn
<1>2. Parts(str, delims) = H[DOMAIN q]
  BY DEF Parts, FoldLeft, MapThenFoldSet, WithByte
<1> HIDE DEF A, B, Op, base
<1>3. F \in [A \X B -> A] /\ \A a \in A, b \in B : F[<<a, b>>] = Op(a, b)
  BY <1>1
<1> HIDE DEF F, H
<1>4. P(H)
  <2>1. PICK g : IsFold(g, A, F, base, q)
    BY <1>1, <1>3, FoldDefined
  <2>2. ASSUME NEW s \in SUBSET DOMAIN q
        PROVE  g[s] = IF s = {} THEN base ELSE Op(g[s \ {Max(s)}], q[Max(s)])
    <3>1. CASE s = {}
      BY <2>1, <3>1 DEF IsFold
    <3>2. CASE s # {}
      <4>1. s \ {Max(s)} \in SUBSET DOMAIN q /\ q[Max(s)] \in B
        BY <1>1, <3>2, LastOfPositions
      <4>2. g[s \ {Max(s)}] \in A
        BY <2>1, <4>1 DEF IsFold
      <4> QED BY <1>3, <2>1, <3>2, <4>1, <4>2 DEF IsFold
    <3> QED BY <3>1, <3>2
  <2>3. g = [s \in SUBSET DOMAIN q |-> g[s]]
    BY <2>1 DEF IsFold
  <2>4. P(g)
    BY <2>2, <2>3
  <2> HIDE DEF P
  <2> QED BY <2>4 DEF H
<1>5. H[{}] = base
  BY <1>4
<1>6. ASSUME NEW s \in SUBSET DOMAIN q, s # {}, H[s \ {Max(s)}] \in A
      PROVE  H[s] = F[<<H[s \ {Max(s)}], q[Max(s)]>>]
  <2>1. q[Max(s)] \in B
    BY <1>1, <1>6, LastOfPositions
  <2> QED BY <1>3, <1>4, <1>6, <2>1
<1> HIDE DEF P
<1>7. PICK c : IsChain(c, A, F, base, q, H[DOMAIN q])
  BY <1>1, <1>3, <1>5, <1>6, FoldChain
<1>8. /\ c \in [0..Len(q) -> A] /\ c[0] = base /\ c[Len(q)] = H[DOMAIN q]
      /\ \A k \in 1..Len(q) : q[k] \in B /\ c[k-1] \in A /\ c[k] = Op(c[k-1], q[k])
  <2>1. /\ c \in [0..Len(q) -> A] /\ c[0] = base /\ c[Len(q)] = H[DOMAIN q]
        /\ \A k \in 1..Len(q) : c[k] = F[<<c[k-1], q[k]>>]
    BY <1>7 DEF IsChain
  <2>2. Len(q) \in Nat /\ \A k \in 1..Len(q) : q[k] \in B
    BY <1>1, LenProperties, ElementOfSeq
  <2>3. \A k \in 1..Len(q) : k-1 \in 0..Len(q)
    BY <2>2
  <2> QED BY <1>3, <2>1, <2>2, <2>3
<1>9. PartsByByte(c, str, delims)
  <2>1. /\ c \in [0..Len(str) -> A] /\ c[0] = base
        /\ c[Len(str)] = Parts(str, delims)
        /\ \A k \in 1..Len(str) : c[k] = Op(c[k-1], str[k])
    BY <1>2, <1>8
  <2> HIDE DEF q
  <2> QED BY <2>1 DEF A, Op, base, PartsByByte
<1> QED BY <1>9

\* There is at most one part more than there are bytes, and none is longer than
\* the string.
LEMMA PartsOfString ==
  ASSUME NEW str \in Seq(Byte), NEW delims
  PROVE  LET parts == Parts(str, delims)
         IN  /\ parts \in Seq(Seq(Byte)) /\ Len(parts) <= Len(str) + 1
             /\ \A i \in 1..Len(parts) : Len(parts[i]) <= Len(str)
<1>0. Len(str) \in Nat /\ \A k \in 1..Len(str) : str[k] \in Byte
  BY LenProperties, ElementOfSeq
<1>1. PICK c : PartsByByte(c, str, delims)
  BY PartsChain
<1> DEFINE len == Len(str)
           Part(k) == /\ Len(c[k]) <= k + 1
                      /\ \A i \in 1..Len(c[k]) : Len(c[k][i]) <= k
           S == {k \in 0..len : Part(k)}
<1>2. 0 \in S
  <2> DEFINE e == <<>>
  <2>1. c[0] = <<e>> /\ Len(e) = 0
    BY <1>1 DEF PartsByByte
  <2> HIDE DEF e
  <2>2. Len(c[0]) = 1 /\ c[0][1] = e
    BY <2>1
  <2>3. Part(0)
    BY <2>1, <2>2
  <2> HIDE DEF Part
  <2> QED BY <1>0, <2>3
<1>3. ASSUME NEW k \in 1..len, k-1 \in S PROVE k \in S
  <2> DEFINE old == c[k-1]
             new == c[k]
  <2>1. k-1 \in 0..len /\ k \in 0..len /\ Part(k-1) /\ k \in Nat
    BY <1>0, <1>3
  <2>2. old \in Pieces /\ new = WithByte(old, delims, str[k])
    BY <1>1, <2>1 DEF PartsByByte
  <2>3. /\ new \in Pieces /\ Len(new) \in {Len(old), Len(old) + 1}
        /\ \A i \in 1..Len(new) :
             \/ i \in 1..Len(old) /\ Len(new[i]) <= Len(old[i]) + 1
             \/ Len(new[i]) = 0
    BY <1>0, <2>2, OneByteOn
  <2>4. Len(old) <= k /\ \A i \in 1..Len(old) : Len(old[i]) <= k-1
    BY <2>1
  <2>5. /\ Len(old) \in Nat /\ Len(new) \in Nat
        /\ \A i \in 1..Len(old) : Len(old[i]) \in Nat
        /\ \A i \in 1..Len(new) : Len(new[i]) \in Nat
    <3>1. \A q \in Pieces : Len(q) \in Nat /\ \A i \in 1..Len(q) : Len(q[i]) \in Nat
      BY LenProperties, ElementOfSeq DEF Pieces
    <3> QED BY <2>2, <2>3, <3>1
  <2> HIDE DEF Part, old, new
  <2>6. Len(new) <= k + 1
    BY <2>1, <2>3, <2>4, <2>5
  <2>7. \A i \in 1..Len(new) : Len(new[i]) <= k
    BY <2>1, <2>3, <2>4, <2>5
  <2>8. Part(k)
    BY <2>6, <2>7 DEF Part, new
  <2> QED BY <2>1, <2>8
<1>4. len \in S
  <2> HIDE DEF S, len
  <2>1. len \in Nat
    BY <1>0 DEF len
  <2>2. 0..len \subseteq S
    BY <1>2, <1>3, <2>1, StepByStep
  <2> QED BY <2>1, <2>2
<1>5. c[len] = Parts(str, delims) /\ c[len] \in Seq(Seq(Byte))
  <2>1. len \in 0..len
    BY <1>0
  <2> QED BY <1>1, <2>1 DEF PartsByByte, Pieces
<1> QED BY <1>4, <1>5

(***************************************************************************)
(* The options of a request.                                               *)
(***************************************************************************)
\* Sorted lists of options none of which is too long.
Lists == {q \in Seq(Option) : Options(q, Len(q))}
Values == {v \in Seq(Byte) : Len(v) <= MAX_OPTION_VALUE_SIZE}

\* An option more.
LEMMA ListGrows ==
  ASSUME NEW q \in Lists, NEW num \in OptNum, NEW v \in Values
  PROVE  LET new == CoAP_AppendOptionToList(q, num, v)
         IN  new \in Lists /\ Len(new) = Len(q) + 1
<1> DEFINE new == CoAP_AppendOptionToList(q, num, v)
           n == Len(q)
           e == CoAP_option_t(num, v)
<1>1. q \in Seq(Option) /\ Options(q, n) /\ n \in Nat /\ Sorted(q)
  BY LenProperties DEF Lists, Options
<1>2. v \in Seq(Byte) /\ Len(v) <= MAX_OPTION_VALUE_SIZE
  BY DEF Values
<1>3. Inserted(new, q, InsertPos(q, num), e)
  BY <1>1, <1>2, AppendInserts
<1>4. Len(new) = n + 1
  BY <1>3 DEF Inserted
<1>5. Options(new, n + 1)
  BY <1>1, <1>2, OneMoreOption
<1> HIDE DEF new, n
<1>6. new \in Seq(Option)
  BY <1>5 DEF Options
<1>7. new \in Lists
  BY <1>4, <1>5, <1>6 DEF Lists
<1> QED BY <1>4, <1>7 DEF new, n

\* Options as a list of their own length.
LEMMA ListOf ==
  ASSUME NEW n, NEW opts, Options(opts, n)
  PROVE  opts \in Lists
<1>1. Len(opts) \in Nat /\ Len(opts) <= Len(opts)
  BY LenProperties DEF Options
<1> QED BY <1>1 DEF Options, Lists

\* The empty list is one.
LEMMA EmptyList == <<>> \in Lists
BY NoOptions, ListOf

\* A list to which options are added one by one.
LEMMA ListsGrow ==
  ASSUME NEW n \in Nat, NEW m \in Nat, NEW c \in [0..n -> Lists], Options(c[0], m),
         \A k \in 1..n : Len(c[k]) = Len(c[k-1]) \/ Len(c[k]) = Len(c[k-1]) + 1
  PROVE  Options(c[n], m + n)
<1> DEFINE S == {k \in 0..n : Len(c[k]) <= m + k}
<1>1. \A k \in 0..n : c[k] \in Lists /\ Len(c[k]) \in Nat
  BY LenProperties DEF Lists
<1>2. 0 \in S
  BY DEF Options
<1>3. ASSUME NEW k \in 1..n, k-1 \in S PROVE k \in S
  <2>1. k-1 \in 0..n /\ k \in 0..n /\ Len(c[k-1]) <= m + (k-1)
    BY <1>3
  <2>2. Len(c[k]) \in Nat /\ Len(c[k-1]) \in Nat
    BY <1>1, <2>1
  <2>3. Len(c[k]) <= m + k
    BY <2>1, <2>2
  <2> QED BY <2>1, <2>3
<1>4. n \in S
  <2> HIDE DEF S
  <2>1. 0..n \subseteq S
    BY <1>2, <1>3, StepByStep
  <2> QED BY <2>1
<1>5. Len(c[n]) <= m + n /\ c[n] \in Lists
  BY <1>4, <1>1
<1> QED BY <1>5 DEF Lists, Options

\* One option more for a part of a URI.
WithPart(q, n, part) ==
  IF part = <<>> THEN q ELSE CoAP_AppendOptionToList(q, n, part)

\* A part of a URI becomes an option.
LEMMA PartAdded ==
  ASSUME NEW q \in Lists, NEW n \in OptNum, NEW part \in Values
  PROVE  LET new == WithPart(q, n, part)
         IN  new \in Lists /\ (Len(new) = Len(q) \/ Len(new) = Len(q) + 1)
BY ListGrows DEF WithPart

\* The list after the first k parts.
PartByPart(c, opts, n, parts) ==
  /\ c \in [0..Len(parts) -> Lists]
  /\ c[0] = opts /\ c[Len(parts)] = AppendParts(opts, n, parts)
  /\ \A k \in 1..Len(parts) :
       parts[k] \in Values /\ c[k-1] \in Lists /\ c[k] = WithPart(c[k-1], n, parts[k])

\* The parts of a URI are added one by one.
LEMMA AppendPartsChain ==
  ASSUME NEW opts \in Lists, NEW n \in OptNum, NEW parts \in Seq(Values)
  PROVE  \E c : PartByPart(c, opts, n, parts)
<1> DEFINE A == Lists
           B == Values
           q == parts
           Op(a, b) == WithPart(a, n, b)
           F == [p \in A \X B |-> Op(p[1], p[2])]
           P(h) == h = [s \in SUBSET DOMAIN q |->
                          IF s = {} THEN opts ELSE Op(h[s \ {Max(s)}], q[Max(s)])]
           H == CHOOSE h : P(h)
<1>1. /\ opts \in A /\ q \in Seq(B)
      /\ \A a \in A, b \in B : Op(a, b) \in A
  BY PartAdded
<1>2. AppendParts(opts, n, parts) = H[DOMAIN q]
  BY DEF AppendParts, FoldLeft, MapThenFoldSet, WithPart
<1> HIDE DEF A, B, Op
<1>3. F \in [A \X B -> A] /\ \A a \in A, b \in B : F[<<a, b>>] = Op(a, b)
  BY <1>1
<1> HIDE DEF F, H
<1>4. P(H)
  <2>1. PICK g : IsFold(g, A, F, opts, q)
    BY <1>1, <1>3, FoldDefined
  <2>2. ASSUME NEW s \in SUBSET DOMAIN q
        PROVE  g[s] = IF s = {} THEN opts ELSE Op(g[s \ {Max(s)}], q[Max(s)])
    <3>1. CASE s = {}
      BY <2>1, <3>1 DEF IsFold
    <3>2. CASE s # {}
      <4>1. s \ {Max(s)} \in SUBSET DOMAIN q /\ q[Max(s)] \in B
        BY <1>1, <3>2, LastOfPositions
      <4>2. g[s \ {Max(s)}] \in A
        BY <2>1, <4>1 DEF IsFold
      <4> QED BY <1>3, <2>1, <3>2, <4>1, <4>2 DEF IsFold
    <3> QED BY <3>1, <3>2
  <2>3. g = [s \in SUBSET DOMAIN q |-> g[s]]
    BY <2>1 DEF IsFold
  <2>4. P(g)
    BY <2>2, <2>3
  <2> HIDE DEF P
  <2> QED BY <2>4 DEF H
<1>5. H[{}] = opts
  BY <1>4
<1>6. ASSUME NEW s \in SUBSET DOMAIN q, s # {}, H[s \ {Max(s)}] \in A
      PROVE  H[s] = F[<<H[s \ {Max(s)}], q[Max(s)]>>]
  <2>1. q[Max(s)] \in B
    BY <1>1, <1>6, LastOfPositions
  <2> QED BY <1>3, <1>4, <1>6, <2>1
<1> HIDE DEF P
<1>7. PICK c : IsChain(c, A, F, opts, q, H[DOMAIN q])
  BY <1>1, <1>3, <1>5, <1>6, FoldChain
<1>8. /\ c \in [0..Len(q) -> A] /\ c[0] = opts /\ c[Len(q)] = H[DOMAIN q]
      /\ \A k \in 1..Len(q) : q[k] \in B /\ c[k-1] \in A /\ c[k] = Op(c[k-1], q[k])
  <2>1. /\ c \in [0..Len(q) -> A] /\ c[0] = opts /\ c[Len(q)] = H[DOMAIN q]
        /\ \A k \in 1..Len(q) : c[k] = F[<<c[k-1], q[k]>>]
    BY <1>7 DEF IsChain
  <2>2. Len(q) \in Nat /\ \A k \in 1..Len(q) : q[k] \in B
    BY <1>1, LenProperties, ElementOfSeq
  <2>3. \A k \in 1..Len(q) : k-1 \in 0..Len(q)
    BY <2>2
  <2> QED BY <1>3, <2>1, <2>2, <2>3
<1>9. PartByPart(c, opts, n, parts)
  <2>1. /\ c \in [0..Len(parts) -> A] /\ c[0] = opts
        /\ c[Len(parts)] = AppendParts(opts, n, parts)
        /\ \A k \in 1..Len(parts) : parts[k] \in B /\ c[k-1] \in A
                                    /\ c[k] = Op(c[k-1], parts[k])
    BY <1>2, <1>8
  <2> HIDE DEF q
  <2> QED BY <2>1 DEF A, B, Op, PartByPart
<1> QED BY <1>9

\* As many options as parts.
LEMMA PartsAdded ==
  ASSUME NEW m \in Nat, NEW opts, Options(opts, m), NEW n \in OptNum,
         NEW parts \in Seq(Values)
  PROVE  Options(AppendParts(opts, n, parts), m + Len(parts))
<1>0. Len(parts) \in Nat /\ opts \in Lists
  BY ListOf, LenProperties
<1>1. PICK c : PartByPart(c, opts, n, parts)
  BY <1>0, AppendPartsChain
<1>2. /\ c \in [0..Len(parts) -> Lists] /\ Options(c[0], m)
      /\ \A k \in 1..Len(parts) : Len(c[k]) = Len(c[k-1]) \/ Len(c[k]) = Len(c[k-1]) + 1
  <2>1. c \in [0..Len(parts) -> Lists] /\ Options(c[0], m)
    BY <1>1 DEF PartByPart
  <2>2. ASSUME NEW k \in 1..Len(parts)
        PROVE  Len(c[k]) = Len(c[k-1]) \/ Len(c[k]) = Len(c[k-1]) + 1
    <3>1. parts[k] \in Values /\ c[k-1] \in Lists /\ c[k] = WithPart(c[k-1], n, parts[k])
      BY <1>1 DEF PartByPart
    <3> QED BY <3>1, PartAdded
  <2> QED BY <2>1, <2>2
<1>3. Options(c[Len(parts)], m + Len(parts))
  BY <1>0, <1>2, ListsGrow
<1> QED BY <1>1, <1>3 DEF PartByPart

\* An option a client asks with.
AskedOption == {o \in Option : Len(o.val) <= MAX_OPTION_VALUE_SIZE}
WithAsked(q, o) == CoAP_AppendOptionToList(q, o.num, o.val)

\* One of the options a client asks with.
LEMMA AskedAdded ==
  ASSUME NEW q \in Lists, NEW o \in AskedOption
  PROVE  WithAsked(q, o) \in Lists /\ Len(WithAsked(q, o)) = Len(q) + 1
<1>1. o.num \in OptNum /\ o.val \in Values
  BY DEF AskedOption, Option, Values
<1> QED BY <1>1, ListGrows DEF WithAsked

\* The list after the first k options of the client.
OptionByOption(c, extra) ==
  /\ c \in [0..Len(extra) -> Lists]
  /\ c[0] = <<>> /\ c[Len(extra)] = ExtraOptions(extra)
  /\ \A k \in 1..Len(extra) :
       extra[k] \in AskedOption /\ c[k-1] \in Lists /\ c[k] = WithAsked(c[k-1], extra[k])

\* The options of the client are added one by one.
LEMMA ExtraChain ==
  ASSUME NEW extra \in Seq(AskedOption)
  PROVE  \E c : OptionByOption(c, extra)
<1> DEFINE A == Lists
           B == AskedOption
           q == extra
           base == <<>>
           Op(a, b) == WithAsked(a, b)
           F == [p \in A \X B |-> Op(p[1], p[2])]
           P(h) == h = [s \in SUBSET DOMAIN q |->
                          IF s = {} THEN base ELSE Op(h[s \ {Max(s)}], q[Max(s)])]
           H == CHOOSE h : P(h)
<1>1. /\ base \in A /\ q \in Seq(B)
      /\ \A a \in A, b \in B : Op(a, b) \in A
  BY AskedAdded, EmptyList
<1>2. ExtraOptions(extra) = H[DOMAIN q]
  BY DEF ExtraOptions, FoldLeft, MapThenFoldSet, WithAsked
<1> HIDE DEF A, B, Op, base
<1>3. F \in [A \X B -> A] /\ \A a \in A, b \in B : F[<<a, b>>] = Op(a, b)
  BY <1>1
<1> HIDE DEF F, H
<1>4. P(H)
  <2>1. PICK g : IsFold(g, A, F, base, q)
    BY <1>1, <1>3, FoldDefined
  <2>2. ASSUME NEW s \in SUBSET DOMAIN q
        PROVE  g[s] = IF s = {} THEN base ELSE Op(g[s \ {Max(s)}], q[Max(s)])
    <3>1. CASE s = {}
      BY <2>1, <3>1 DEF IsFold
    <3>2. CASE s # {}
      <4>1. s \ {Max(s)} \in SUBSET DOMAIN q /\ q[Max(s)] \in B
        BY <1>1, <3>2, LastOfPositions
      <4>2. g[s \ {Max(s)}] \in A
        BY <2>1, <4>1 DEF IsFold
      <4> QED BY <1>3, <2>1, <3>2, <4>1, <4>2 DEF IsFold
    <3> QED BY <3>1, <3>2
  <2>3. g = [s \in SUBSET DOMAIN q |-> g[s]]
    BY <2>1 DEF IsFold
  <2>4. P(g)
    BY <2>2, <2>3
  <2> HIDE DEF P
  <2> QED BY <2>4 DEF H
<1>5. H[{}] = base
  BY <1>4
<1>6. ASSUME NEW s \in SUBSET DOMAIN q, s # {}, H[s \ {Max(s)}] \in A
      PROVE  H[s] = F[<<H[s \ {Max(s)}], q[Max(s)]>>]
  <2>1. q[Max(s)] \in B
    BY <1>1, <1>6, LastOfPositions
  <2> QED BY <1>3, <1>4, <1>6, <2>1
<1> HIDE DEF P
<1>7. PICK c : IsChain(c, A, F, base, q, H[DOMAIN q])
  BY <1>1, <1>3, <1>5, <1>6, FoldChain
<1>8. /\ c \in [0..Len(q) -> A] /\ c[0] = base /\ c[Len(q)] = H[DOMAIN q]
      /\ \A k \in 1..Len(q) : q[k] \in B /\ c[k-1] \in A /\ c[k] = Op(c[k-1], q[k])
  <2>1. /\ c \in [0..Len(q) -> A] /\ c[0] = base /\ c[Len(q)] = H[DOMAIN q]
        /\ \A k \in 1..Len(q) : c[k] = F[<<c[k-1], q[k]>>]
    BY <1>7 DEF IsChain
  <2>2. Len(q) \in Nat /\ \A k \in 1..Len(q) : q[k] \in B
    BY <1>1, LenProperties, ElementOfSeq
  <2>3. \A k \in 1..Len(q) : k-1 \in 0..Len(q)
    BY <2>2
  <2> QED BY <1>3, <2>1, <2>2, <2>3
<1>9. OptionByOption(c, extra)
  <2>1. /\ c \in [0..Len(extra) -> A] /\ c[0] = base
        /\ c[Len(extra)] = ExtraOptions(extra)
        /\ \A k \in 1..Len(extra) : extra[k] \in B /\ c[k-1] \in A
                                    /\ c[k] = Op(c[k-1], extra[k])
    BY <1>2, <1>8
  <2> HIDE DEF q
  <2> QED BY <2>1 DEF A, B, Op, base, OptionByOption
<1> QED BY <1>9

\* As many options as the client asks with.
LEMMA ExtraAdded ==
  ASSUME NEW extra \in Seq(AskedOption)
  PROVE  Options(ExtraOptions(extra), Len(extra))
<1>0. Len(extra) \in Nat
  BY LenProperties
<1>1. PICK c : OptionByOption(c, extra)
  BY ExtraChain
<1>2. /\ c \in [0..Len(extra) -> Lists] /\ Options(c[0], 0)
      /\ \A k \in 1..Len(extra) : Len(c[k]) = Len(c[k-1]) \/ Len(c[k]) = Len(c[k-1]) + 1
  <2>1. Options(c[0], 0)
    BY <1>1, NoOptions DEF OptionByOption
  <2> QED BY <1>1, <2>1, AskedAdded DEF OptionByOption
<1>3. Options(c[Len(extra)], 0 + Len(extra))
  BY <1>0, <1>2, ListsGrow
<1>4. Options(c[Len(extra)], Len(extra))
  BY <1>0, <1>3
<1> QED BY <1>1, <1>4 DEF OptionByOption

\* The parts of a URI are no longer than the URI, and no more than its bytes and one.
LEMMA PartsAreValues ==
  ASSUME NEW str \in Seq(Byte), Len(str) <= MAX_OPTION_VALUE_SIZE, NEW delims
  PROVE  Parts(str, delims) \in Seq(Values) /\ Len(Parts(str, delims)) <= Len(str) + 1
<1> DEFINE parts == Parts(str, delims)
           B == Seq(Byte)
<1>1. /\ parts \in Seq(B) /\ Len(parts) <= Len(str) + 1
      /\ \A i \in 1..Len(parts) : Len(parts[i]) <= Len(str)
  BY PartsOfString
<1>2. Len(str) \in Nat /\ MAX_OPTION_VALUE_SIZE \in Nat
  BY LenProperties, WireAssumption
<1> HIDE DEF parts, B
<1>3. Len(parts) \in Nat /\ DOMAIN parts = 1..Len(parts) /\ \A i \in 1..Len(parts) : parts[i] \in B
  BY <1>1, LenProperties, ElementOfSeq
<1>4. ASSUME NEW i \in 1..Len(parts) PROVE parts[i] \in Values
  <2>1. parts[i] \in B /\ Len(parts[i]) <= Len(str)
    BY <1>1, <1>3
  <2>2. Len(parts[i]) \in Nat
    BY <2>1, LenProperties DEF B
  <2>3. Len(parts[i]) <= MAX_OPTION_VALUE_SIZE
    BY <1>2, <2>1, <2>2
  <2> QED BY <2>1, <2>3 DEF B, Values
<1>5. parts \in Seq(Values)
  <2> DEFINE n == Len(parts)
  <2>1. parts = [i \in 1..n |-> parts[i]]
    BY <1>1, <1>3
  <2>2. [i \in 1..n |-> parts[i]] \in [1..n -> Values]
    BY <1>4
  <2>3. n \in Nat
    BY <1>3
  <2> HIDE DEF n
  <2> QED BY <2>1, <2>2, <2>3
<1> QED BY <1>1, <1>5 DEF parts

\* Where the path of a URI ends.
LEMMA PathEndIs ==
  ASSUME NEW str \in Seq(Byte)
  PROVE  PathEnd(str) \in 1..Len(str) + 1
<1> DEFINE marks == {i \in 1..Len(str) : str[i] = QuestionMark}
<1>0. Len(str) \in Nat /\ marks \subseteq 1..Len(str)
  BY LenProperties
<1>1. CASE marks = {}
  <2>1. PathEnd(str) = Len(str) + 1
    BY <1>1 DEF PathEnd
  <2> QED BY <1>0, <2>1
<1>2. CASE marks # {}
  <2>1. marks \subseteq Nat
    BY <1>0
  <2> HIDE DEF marks
  <2>2. \E i \in marks : \A j \in marks : i <= j
    BY <1>2, <2>1, LeastElement
  <2>3. PathEnd(str) \in marks
    BY <1>2, <2>2 DEF PathEnd, marks
  <2>4. PathEnd(str) \in 1..Len(str)
    BY <1>0, <2>3
  <2> QED BY <1>0, <2>4
<1> QED BY <1>1, <1>2

\* A URI makes at most one option more than two per string: its bytes are
\* divided into parts, and path and query each have one more than delimiters.
LEMMA UriAdded ==
  ASSUME NEW m \in Nat, NEW opts, Options(opts, m), NEW str \in Values
  PROVE  Options(CoAP_AppendUriOptionsFromString(opts, str), m + Len(str) + 2)
<1> DEFINE len == Len(str)
           e == PathEnd(str)
           path == SubSeq(str, 1, e - 1)
           query == SubSeq(str, e + 1, len)
           pp == Parts(path, {Slash, Space})
           qp == Parts(query, {Ampersand})
           with == AppendParts(opts, OPT_NUM_URI_PATH, pp)
           all == AppendParts(with, OPT_NUM_URI_QUERY, qp)
<1>1. str \in Seq(Byte) /\ len \in Nat /\ len <= MAX_OPTION_VALUE_SIZE /\ e \in 1..len + 1
  BY PathEndIs, LenProperties DEF Values
<1>2. CoAP_AppendUriOptionsFromString(opts, str) = all
  BY DEF CoAP_AppendUriOptionsFromString, ParseUriQueryFromStringToOption
<1> HIDE DEF e
<1>3. path \in Seq(Byte) /\ Len(path) = e - 1
  <2>1. 1 \in 1..Len(str) + 1 /\ e - 1 \in 1 - 1..Len(str) /\ (e - 1) - 1 + 1 = e - 1
    BY <1>1
  <2> QED BY <1>1, <2>1, PartOfSeq
<1>4. query \in Seq(Byte) /\ Len(query) \in Nat /\ Len(query) + (e - 1) <= len
  <2>1. CASE e <= len
    <3>1. e + 1 \in 1..Len(str) + 1 /\ len \in (e + 1) - 1..Len(str)
      BY <1>1, <2>1
    <3>2. query \in Seq(Byte) /\ Len(query) = len - (e + 1) + 1
      BY <1>1, <3>1, PartOfSeq
    <3> HIDE DEF query, len
    <3> QED BY <1>1, <2>1, <3>2
  <2>2. CASE ~(e <= len)
    <3>1. e = len + 1
      BY <1>1, <2>2
    <3>2. query = <<>>
      BY <1>1, <3>1
    <3>3. ASSUME NEW q, q = <<>> PROVE q \in Seq(Byte) /\ Len(q) = 0
      BY <3>3
    <3> HIDE DEF query, len
    <3>4. query \in Seq(Byte) /\ Len(query) = 0
      BY <3>2, <3>3
    <3> QED BY <1>1, <3>1, <3>4
  <2> QED BY <2>1, <2>2
<1> HIDE DEF path, query, len
<1>5. pp \in Seq(Values) /\ Len(pp) <= Len(path) + 1 /\ Len(pp) \in Nat
  <2>1. Len(path) <= MAX_OPTION_VALUE_SIZE
    BY <1>1, <1>3, WireAssumption
  <2>2. pp \in Seq(Values) /\ Len(pp) <= Len(path) + 1
    BY <1>3, <2>1, PartsAreValues
  <2> HIDE DEF pp
  <2> QED BY <2>2, LenProperties
<1>6. qp \in Seq(Values) /\ Len(qp) <= Len(query) + 1 /\ Len(qp) \in Nat
  <2>1. Len(query) <= MAX_OPTION_VALUE_SIZE
    BY <1>1, <1>4, WireAssumption
  <2>2. qp \in Seq(Values) /\ Len(qp) <= Len(query) + 1
    BY <1>4, <2>1, PartsAreValues
  <2> HIDE DEF qp
  <2> QED BY <2>2, LenProperties
<1> HIDE DEF pp, qp
<1>7. Options(with, m + Len(pp))
  BY <1>5, PartsAdded, OwnNumbers
<1> HIDE DEF with
<1>8. Options(all, (m + Len(pp)) + Len(qp))
  <2>1. m + Len(pp) \in Nat
    BY <1>5
  <2> QED BY <1>6, <1>7, <2>1, PartsAdded, OwnNumbers
<1> HIDE DEF all
<1>9. (m + Len(pp)) + Len(qp) <= m + len + 2
  BY <1>1, <1>3, <1>4, <1>5, <1>6
<1>10. Options(all, m + len + 2)
  <2>1. (m + Len(pp)) + Len(qp) \in Int /\ m + len + 2 \in Int
    BY <1>1, <1>5, <1>6
  <2> QED BY <1>8, <1>9, <2>1, MayBeFewer
<1> QED BY <1>2, <1>10 DEF len

\* The options of a request fit the 16 bits their size is added up in.
LEMMA RequestPacks ==
  ASSUME asked \in Requests, client \in Client
  PROVE  Packable(RequestOptions)
<1> DEFINE e == Len(asked.extra)
           u == Len(asked.uri)
           n == e + u + 3
           extra == ExtraOptions(asked.extra)
           uri == CoAP_AppendUriOptionsFromString(extra, asked.uri)
           blk == AddBlkOptionToMsg(uri, OPT_BLOCK2, Block2Wish)
<1>1. ClientRequest(asked) /\ u \in Nat /\ e \in Nat
  BY AskedIsProper
<1>2. asked.uri \in Values /\ asked.extra \in Seq(AskedOption)
  <2> DEFINE q == asked.extra
  <2>1. /\ asked.uri \in Seq(Byte) /\ Len(asked.uri) <= MAX_OPTION_VALUE_SIZE
        /\ q \in Seq(Option)
        /\ \A i \in 1..Len(q) : Len(q[i].val) <= MAX_OPTION_VALUE_SIZE
    BY <1>1 DEF ClientRequest
  <2> HIDE DEF q
  <2>2. \A i \in 1..Len(q) : q[i] \in AskedOption
    BY <2>1, ElementOfSeq DEF AskedOption
  <2>3. q \in Seq(AskedOption)
    <3> DEFINE k == Len(q)
    <3>1. k \in Nat /\ DOMAIN q = 1..k /\ q = [i \in DOMAIN q |-> q[i]]
      BY <2>1, LenProperties
    <3>2. [i \in 1..k |-> q[i]] \in [1..k -> AskedOption]
      BY <2>2
    <3> HIDE DEF k
    <3> QED BY <3>1, <3>2
  <2> QED BY <2>1, <2>3 DEF Values, q
<1>a. Countable(n)
  <2>1. ClientRequest(asked)
    BY <1>1
  <2> QED BY <2>1 DEF ClientRequest
<1>3. n * (MAX_OPTION_VALUE_SIZE + 5) < 65536
  <2> HIDE DEF n
  <2> QED BY <1>a DEF Countable
<1>4. RequestOptions = IF client.size = 0 THEN uri ELSE blk
  BY DEF RequestOptions
<1>5. Options(extra, e)
  BY <1>2, ExtraAdded
<1>6. Options(uri, e + u + 2)
  <2> HIDE DEF extra, e
  <2> QED BY <1>1, <1>2, <1>5, UriAdded
<1>7. client.size # 0 => Options(blk, (e + u + 2) + 1)
  <2> HIDE DEF uri, e, u
  <2>1. e + u + 2 \in Nat
    BY <1>1
  <2>2. ASSUME client.size # 0
        PROVE  Block2Wish.num \in Nat /\ Block2Wish.size \in BlockSizeValues
    <3> DEFINE s == client.size
               g == Len(client.got)
    <3>1. s \in BlockSizeValues
      BY <2>2 DEF Client
    <3>2. s \in Nat \ {0}
      BY <3>1 DEF BlockSizeValues
    <3>3. g \in Nat
      BY LenProperties DEF Client
    <3>4. Block2Wish = [num |-> g \div s, size |-> s, more |-> FALSE]
      BY <2>2 DEF Block2Wish
    <3> HIDE DEF s, g
    <3>5. g \div s \in Nat
      BY <3>2, <3>3
    <3> QED BY <3>1, <3>4, <3>5
  <2> QED BY <1>6, <2>1, <2>2, BlockAdded
<1> HIDE DEF uri, blk, e, u
<1>8. Options(RequestOptions, n)
  <2>1. client.size # 0 => Options(blk, n)
    <3>1. (e + u + 2) + 1 = n
      BY <1>1
    <3> QED BY <1>7, <3>1
  <2>2. Options(uri, n)
    <3>1. e + u + 2 <= n /\ e + u + 2 \in Int /\ n \in Int
      BY <1>1
    <3> HIDE DEF n
    <3> QED BY <1>6, <3>1, MayBeFewer
  <2> QED BY <1>4, <2>1, <2>2
<1>9. n \in Nat
  BY <1>1
<1> HIDE DEF n
<1> QED BY <1>3, <1>8, <1>9, OptionsPack

\* A resource, with its URI as a list of options.
Resource == [id : HandlerIds, uri : Lists]
TableEntry == [id : HandlerIds, uri : Values]
Created(list, r) == CoAP_CreateResource(list, r.id, r.uri)

\* A resource is created.
LEMMA ResourceCreated ==
  ASSUME NEW list \in Seq(Resource), NEW r \in TableEntry
  PROVE  Created(list, r) \in Seq(Resource)
<1> DEFINE none == <<>>
           uri == CoAP_AppendUriOptionsFromString(none, r.uri)
           new == [id |-> r.id, uri |-> uri]
<1>1. r.id \in HandlerIds /\ r.uri \in Values
  BY DEF TableEntry
<1>2. Options(uri, 0 + Len(r.uri) + 2)
  <2>1. Options(none, 0)
    BY NoOptions
  <2> HIDE DEF none
  <2> QED BY <1>1, <2>1, UriAdded
<1>3. Created(list, r) = Append(list, new)
  BY DEF Created, CoAP_CreateResource
<1> HIDE DEF uri
<1>4. uri \in Lists
  BY <1>2, ListOf
<1>5. new \in Resource
  BY <1>1, <1>4 DEF Resource
<1> HIDE DEF new
<1> QED BY <1>3, <1>5, AppendProperties

\* The lists after each of the resources.
ResourceByResource(c) ==
  /\ c \in [0..Len(Table) -> Seq(Resource)] /\ Len(Table) \in Nat
  /\ c[0] = <<>> /\ c[Len(Table)] = resources
  /\ \A k \in 1..Len(Table) :
       /\ Table[k] \in TableEntry /\ c[k-1] \in Seq(Resource)
       /\ c[k] = Created(c[k-1], Table[k])

\* The table the resources are created from.
LEMMA TableIs == Table \in Seq(TableEntry)
<1> DEFINE q == Table
           E == [id : HandlerIds, uri : Seq(Byte)]
           k == Len(q)
<1>1. q \in Seq(E) /\ \A i \in 1..Len(q) : Len(q[i].uri) <= MAX_OPTION_VALUE_SIZE
  BY TransferAssumption DEF HandlerIds
<1> HIDE DEF q, E
<1>2. k \in Nat /\ DOMAIN q = 1..k /\ q = [i \in DOMAIN q |-> q[i]] /\ \A i \in 1..k : q[i] \in E
  BY <1>1, LenProperties, ElementOfSeq
<1>3. ASSUME NEW e \in E, Len(e.uri) <= MAX_OPTION_VALUE_SIZE PROVE e \in TableEntry
  BY <1>3 DEF E, TableEntry, Values
<1>4. \A i \in 1..k : q[i] \in TableEntry
  BY <1>1, <1>2, <1>3
<1>5. [i \in 1..k |-> q[i]] \in [1..k -> TableEntry]
  BY <1>4
<1> HIDE DEF k
<1>6. q \in Seq(TableEntry)
  BY <1>2, <1>5
<1> QED BY <1>6 DEF q

\* The resources are created one by one.
LEMMA ResourcesChain ==
  \E c : ResourceByResource(c)
<1> DEFINE A == Seq(Resource)
           B == TableEntry
           q == Table
           base == <<>>
           Op(a, b) == Created(a, b)
           F == [p \in A \X B |-> Op(p[1], p[2])]
           P(h) == h = [s \in SUBSET DOMAIN q |->
                          IF s = {} THEN base ELSE Op(h[s \ {Max(s)}], q[Max(s)])]
           H == CHOOSE h : P(h)
<1>1. /\ base \in A /\ q \in Seq(B)
      /\ \A a \in A, b \in B : Op(a, b) \in A
  BY ResourceCreated, TableIs
<1>2. resources = H[DOMAIN q]
  BY DEF resources, FoldLeft, MapThenFoldSet, Created
<1> HIDE DEF A, B, Op, base
<1>3. F \in [A \X B -> A] /\ \A a \in A, b \in B : F[<<a, b>>] = Op(a, b)
  BY <1>1
<1> HIDE DEF F, H
<1>4. P(H)
  <2>1. PICK g : IsFold(g, A, F, base, q)
    BY <1>1, <1>3, FoldDefined
  <2>2. ASSUME NEW s \in SUBSET DOMAIN q
        PROVE  g[s] = IF s = {} THEN base ELSE Op(g[s \ {Max(s)}], q[Max(s)])
    <3>1. CASE s = {}
      BY <2>1, <3>1 DEF IsFold
    <3>2. CASE s # {}
      <4>1. s \ {Max(s)} \in SUBSET DOMAIN q /\ q[Max(s)] \in B
        BY <1>1, <3>2, LastOfPositions
      <4>2. g[s \ {Max(s)}] \in A
        BY <2>1, <4>1 DEF IsFold
      <4> QED BY <1>3, <2>1, <3>2, <4>1, <4>2 DEF IsFold
    <3> QED BY <3>1, <3>2
  <2>3. g = [s \in SUBSET DOMAIN q |-> g[s]]
    BY <2>1 DEF IsFold
  <2>4. P(g)
    BY <2>2, <2>3
  <2> HIDE DEF P
  <2> QED BY <2>4 DEF H
<1>5. H[{}] = base
  BY <1>4
<1>6. ASSUME NEW s \in SUBSET DOMAIN q, s # {}, H[s \ {Max(s)}] \in A
      PROVE  H[s] = F[<<H[s \ {Max(s)}], q[Max(s)]>>]
  <2>1. q[Max(s)] \in B
    BY <1>1, <1>6, LastOfPositions
  <2> QED BY <1>3, <1>4, <1>6, <2>1
<1> HIDE DEF P
<1>7. PICK c : IsChain(c, A, F, base, q, H[DOMAIN q])
  BY <1>1, <1>3, <1>5, <1>6, FoldChain
<1>8. /\ c \in [0..Len(q) -> A] /\ c[0] = base /\ c[Len(q)] = H[DOMAIN q]
      /\ \A k \in 1..Len(q) : q[k] \in B /\ c[k-1] \in A /\ c[k] = Op(c[k-1], q[k])
  <2>1. /\ c \in [0..Len(q) -> A] /\ c[0] = base /\ c[Len(q)] = H[DOMAIN q]
        /\ \A k \in 1..Len(q) : c[k] = F[<<c[k-1], q[k]>>]
    BY <1>7 DEF IsChain
  <2>2. Len(q) \in Nat /\ \A k \in 1..Len(q) : q[k] \in B
    BY <1>1, LenProperties, ElementOfSeq
  <2>3. \A k \in 1..Len(q) : k-1 \in 0..Len(q)
    BY <2>2
  <2> QED BY <1>3, <2>1, <2>2, <2>3
<1>9. ResourceByResource(c)
  <2>1. /\ c \in [0..Len(Table) -> A] /\ c[0] = base /\ c[Len(Table)] = resources
        /\ \A k \in 1..Len(Table) :
             Table[k] \in B /\ c[k-1] \in A /\ c[k] = Op(c[k-1], Table[k])
    BY <1>2, <1>8
  <2>2. Len(Table) \in Nat
    BY TableIs, LenProperties
  <2> HIDE DEF q
  <2> QED BY <2>1, <2>2 DEF A, B, Op, base, ResourceByResource
<1> QED BY <1>9

\* The list of resources: each with a sorted URI and a handler.
LEMMA ResourcesAre ==
  /\ resources \in Seq(Resource)
  /\ \A i \in 1..Len(resources) :
       resources[i].id \in HandlerIds /\ Sorted(resources[i].uri)
<1>1. PICK c : ResourceByResource(c)
  BY ResourcesChain
<1>2. resources \in Seq(Resource)
  <2> DEFINE n == Len(Table)
             A == Seq(Resource)
  <2>1. c \in [0..n -> A] /\ n \in Nat /\ c[n] = resources
    BY <1>1 DEF ResourceByResource
  <2> HIDE DEF n, A
  <2>2. resources \in A
    BY <2>1
  <2> QED BY <2>2 DEF A
<1>3. \A i \in 1..Len(resources) : resources[i] \in Resource
  BY <1>2, ElementOfSeq
<1> QED BY <1>2, <1>3 DEF Resource, Lists, Options

\* A resource that is found has a handler.
LEMMA FoundResource ==
  ASSUME NEW opts
  PROVE  CoAP_FindResourceByUri(resources, opts) \in HandlerIds \cup {NoResource}
<1> DEFINE fit == {i \in 1..Len(resources) :
                     CoAP_UriOptionsAreEqual(resources[i].uri, opts)}
<1>1. CASE fit = {}
  BY <1>1 DEF CoAP_FindResourceByUri
<1>2. CASE fit # {}
  <2>0. Len(resources) \in Nat
    BY ResourcesAre, LenProperties
  <2>1. fit \subseteq Nat /\ fit \subseteq 1..Len(resources)
    BY <2>0
  <2>2. \A i \in fit : resources[i].id \in HandlerIds
    BY ResourcesAre
  <2> DEFINE p == CHOOSE i \in fit : \A j \in fit : i <= j
  <2>3. CoAP_FindResourceByUri(resources, opts) = resources[p].id
    BY <1>2 DEF CoAP_FindResourceByUri
  <2> HIDE DEF fit
  <2>4. \E i \in fit : \A j \in fit : i <= j
    BY <1>2, <2>1, LeastElement
  <2>5. p \in fit
    BY <2>4
  <2> HIDE DEF p
  <2> QED BY <2>2, <2>3, <2>5
<1> QED BY <1>1, <1>2

(***************************************************************************)
(* Messages that are created.                                              *)
(***************************************************************************)
\* A message as it is created.
LEMMA CreatedMessage ==
  ASSUME NEW type \in 0..3, NEW code \in Byte, NEW mid \in OptNum, NEW tok \in Token64,
         NEW m, m = CreateMessage(type, code, mid, tok)
  PROVE  /\ m \in Message /\ m.type = type /\ m.code = code /\ m.mid = mid /\ m.tok = tok
         /\ m.opts = <<>> /\ m.payload = <<>>
<1> DEFINE none == <<>>
<1>1. none \in Seq(Option) /\ none \in Seq(Byte)
  BY EmptySeq
<1>2. m = [type |-> type, code |-> code, mid |-> mid, tok |-> tok,
           opts |-> none, payload |-> none]
  BY DEF CreateMessage
<1> HIDE DEF none
<1> DEFINE v == [type |-> type, code |-> code, mid |-> mid, tok |-> tok,
                 opts |-> none, payload |-> none]
<1>3. v \in Message
  BY <1>1, MessageOf
<1>4. /\ v.type = type /\ v.code = code /\ v.mid = mid /\ v.tok = tok
      /\ v.opts = none /\ v.payload = none
  OBVIOUS
<1>5. m = v
  BY <1>2
<1> HIDE DEF v
<1> QED BY <1>3, <1>4, <1>5 DEF none

\* What a client sends, whatever it asks for, can be packed and has no payload.
LEMMA RequestIsSendable ==
  ASSUME asked \in Requests, client \in Client
  PROVE  Sendable(RequestMsg) /\ RequestMsg.payload = <<>>
<1> DEFINE m == CreateMessage(CON, REQ_GET, 5, asked.tok)
           w == RequestMsg
           none == <<>>
<1>1. asked.tok \in Token64
  BY AskedIsProper DEF ClientRequest
<1>2. CON \in 0..3 /\ 5 \in OptNum /\ REQ_GET \in Byte
  BY OwnCodes DEF CON, OptNum
<1>3. /\ m \in Message /\ m.code = REQ_GET /\ m.opts = none /\ m.payload = none
  BY <1>1, <1>2, CreatedMessage
<1>4. w = [m EXCEPT !.opts = RequestOptions]
  BY DEF RequestMsg
<1> HIDE DEF m
<1>5. /\ m.code \in Byte /\ m.mid \in OptNum /\ m.payload \in Seq(Byte)
      /\ m = [type |-> m.type, code |-> m.code, mid |-> m.mid,
              tok |-> m.tok, opts |-> m.opts, payload |-> m.payload]
  BY <1>3, FieldsOfMessage
<1> HIDE DEF w, none
<1>6. w = [type |-> m.type, code |-> m.code, mid |-> m.mid,
           tok |-> m.tok, opts |-> RequestOptions, payload |-> m.payload]
  BY <1>4, <1>5, Zenon
<1>7. Packable(RequestOptions)
  BY RequestPacks
<1>8. RequestOptions \in Seq(Option)
  BY <1>7 DEF Packable
<1>9. m.code \in Byte /\ m.mid \in OptNum /\ m.payload \in Seq(Byte)
  BY <1>5
<1>10. /\ w \in Message /\ w.code = m.code /\ w.opts = RequestOptions
       /\ w.payload = m.payload
  BY <1>3, <1>6, <1>8, <1>9, MessageChanged
<1>11. REQ_GET # EMPTY /\ ~IsReservedClass(REQ_GET)
  BY OwnCodes
<1>12. w.payload = none
  BY <1>3, <1>10
<1>13. Len(w.payload) <= MAX_PAYLOAD_SIZE
  <2>1. Len(none) = 0
    BY DEF none
  <2> QED BY <1>12, <2>1, WireAssumption
<1>14. Sendable(w)
  BY <1>3, <1>7, <1>10, <1>11, <1>13 DEF Sendable
<1> QED BY <1>12, <1>14 DEF w, none

\* What arrives at the server is the request that was sent.
LEMMA RequestArrives ==
  ASSUME TransferInv, toServer # NULL
  PROVE  /\ Incoming = [res |-> "OK", msg |-> sentReq]
         /\ Incoming.msg = sentReq /\ sentReq \in Message
         /\ Sendable(sentReq) /\ Sorted(sentReq.opts)
<1>1. Sendable(sentReq) /\ sentReq.payload = <<>> /\ toServer = CoAP_BuildDatagram(sentReq)
  BY DEF TransferInv, RequestUnderWay
<1>2. ReadsBack(toServer, sentReq)
  BY <1>1, MessageReadsBack
<1>3. Incoming = [res |-> "OK", msg |-> sentReq]
  BY <1>1, <1>2 DEF ReadsBack, Incoming
<1>4. Incoming.msg = sentReq
  BY <1>3
<1>5. sentReq \in Message /\ Sorted(sentReq.opts)
  BY <1>1 DEF Sendable, Packable
<1> QED BY <1>1, <1>3, <1>4, <1>5

(***************************************************************************)
(* The server at work.                                                     *)
(***************************************************************************)
\* The fields of what the server works on, and that there are no others.
LEMMA FieldsOfWork ==
  ASSUME NEW r \in Work
  PROVE  /\ r.kind \in {"REQUEST", "NOTIFICATION"} /\ r.req \in Message
         /\ r.res \in HandlerIds \cup {NULL} /\ r.msg \in Message /\ r.buf \in Buffer
         /\ r.upd \in BOOLEAN /\ r.sent \in BOOLEAN /\ r.cnt \in Nat
         /\ r = [kind |-> r.kind, req |-> r.req, res |-> r.res, msg |-> r.msg,
                 buf |-> r.buf, upd |-> r.upd, sent |-> r.sent, cnt |-> r.cnt]
<1> DEFINE M == Message
           R == HandlerIds \cup {NULL}
           B == Buffer
<1>1. r \in [kind : {"REQUEST", "NOTIFICATION"}, req : M, res : R, msg : M, buf : B,
             upd : BOOLEAN, sent : BOOLEAN, cnt : Nat]
  BY DEF Work
<1> HIDE DEF M, R, B
<1>2. /\ r.kind \in {"REQUEST", "NOTIFICATION"} /\ r.req \in M
      /\ r.res \in R /\ r.msg \in M /\ r.buf \in B
      /\ r.upd \in BOOLEAN /\ r.sent \in BOOLEAN /\ r.cnt \in Nat
      /\ r = [kind |-> r.kind, req |-> r.req, res |-> r.res, msg |-> r.msg,
              buf |-> r.buf, upd |-> r.upd, sent |-> r.sent, cnt |-> r.cnt]
  BY <1>1
<1> QED BY <1>2 DEF M, R, B

\* These two let the provers find which facts to use.
IsFlag(b) == b \in BOOLEAN
IsCount(n) == n \in Nat

\* A record of work, made of its fields.
LEMMA WorkOf ==
  ASSUME NEW kind \in {"REQUEST", "NOTIFICATION"}, NEW req \in Message,
         NEW res \in HandlerIds \cup {NULL}, NEW msg \in Message, NEW buf \in Buffer,
         NEW upd, IsFlag(upd), NEW sent, IsFlag(sent), NEW n, IsCount(n),
         NEW w, w = [kind |-> kind, req |-> req, res |-> res, msg |-> msg,
                     buf |-> buf, upd |-> upd, sent |-> sent, cnt |-> n]
  PROVE  /\ w \in Work /\ w.kind = kind /\ w.req = req /\ w.res = res /\ w.msg = msg
         /\ w.buf = buf /\ w.upd = upd /\ w.sent = sent /\ w.cnt = n
<1> DEFINE M == Message
           R == HandlerIds \cup {NULL}
           B == Buffer
<1>1. req \in M /\ msg \in M /\ res \in R /\ buf \in B
  OBVIOUS
<1> HIDE DEF M, R, B
<1>2. w \in [kind : {"REQUEST", "NOTIFICATION"}, req : M, res : R, msg : M, buf : B,
             upd : BOOLEAN, sent : BOOLEAN, cnt : Nat]
  BY <1>1 DEF IsFlag, IsCount
<1>3. w \in Work
  BY <1>2 DEF Work, M, R, B
<1> QED BY <1>3

\* Fields that change while the others stay.
LEMMA WorkChanged ==
  ASSUME NEW r \in Work, NEW msg \in Message, NEW buf \in Buffer,
         NEW upd, IsFlag(upd), NEW sent, IsFlag(sent), NEW n, IsCount(n),
         NEW w, w = [kind |-> r.kind, req |-> r.req, res |-> r.res, msg |-> msg,
                     buf |-> buf, upd |-> upd, sent |-> sent, cnt |-> n]
  PROVE  /\ w \in Work /\ w.kind = r.kind /\ w.req = r.req /\ w.res = r.res
         /\ w.msg = msg /\ w.buf = buf /\ w.upd = upd /\ w.sent = sent /\ w.cnt = n
<1>1. /\ r.kind \in {"REQUEST", "NOTIFICATION"} /\ r.req \in Message
      /\ r.res \in HandlerIds \cup {NULL}
  BY FieldsOfWork
<1> QED BY <1>1, WorkOf

\* The changes of the record the server works on.
Flagged(r, upd) ==
  [r EXCEPT !.upd = upd]

\* A notification is flagged.
LEMMA FlagRaised ==
  ASSUME NEW r \in Work, NEW upd \in BOOLEAN
  PROVE  LET w == Flagged(r, upd)
         IN  /\ w \in Work /\ w.kind = r.kind /\ w.req = r.req /\ w.res = r.res
             /\ w.msg = r.msg /\ w.buf = r.buf /\ w.upd = upd /\ w.sent = r.sent
             /\ w.cnt = r.cnt
<1> DEFINE w == Flagged(r, upd)
           msg == r.msg
           buf == r.buf
           sent == r.sent
           n == r.cnt
<1>1. /\ msg \in Message /\ buf \in Buffer /\ sent \in BOOLEAN /\ n \in Nat
      /\ r = [kind |-> r.kind, req |-> r.req, res |-> r.res, msg |-> r.msg,
              buf |-> r.buf, upd |-> r.upd, sent |-> r.sent, cnt |-> r.cnt]
  BY FieldsOfWork
<1>2. w = [r EXCEPT !.upd = upd]
  BY DEF Flagged
<1> HIDE DEF w
<1>3. w = [kind |-> r.kind, req |-> r.req, res |-> r.res, msg |-> r.msg,
          buf |-> r.buf, upd |-> upd, sent |-> r.sent, cnt |-> r.cnt]
  BY <1>1, <1>2, Zenon
<1>4. /\ msg \in Message /\ buf \in Buffer /\ IsFlag(upd) /\ IsFlag(sent) /\ IsCount(n)
      /\ w = [kind |-> r.kind, req |-> r.req, res |-> r.res, msg |-> msg,
              buf |-> buf, upd |-> upd, sent |-> sent, cnt |-> n]
  BY <1>1, <1>3 DEF IsFlag, IsCount
<1> HIDE DEF msg, buf, sent, n
<1>5. /\ w \in Work /\ w.kind = r.kind /\ w.req = r.req /\ w.res = r.res
      /\ w.msg = msg /\ w.buf = buf /\ w.upd = upd /\ w.sent = sent
      /\ w.cnt = n
  BY <1>4, WorkChanged
<1> QED BY <1>5 DEF w, msg, buf, sent, n

SentOnce(r, sent) ==
  [r EXCEPT !.sent = sent]

\* A message is sent.
LEMMA MarkedAsSent ==
  ASSUME NEW r \in Work, NEW sent \in BOOLEAN
  PROVE  LET w == SentOnce(r, sent)
         IN  /\ w \in Work /\ w.kind = r.kind /\ w.req = r.req /\ w.res = r.res
             /\ w.msg = r.msg /\ w.buf = r.buf /\ w.upd = r.upd /\ w.sent = sent
             /\ w.cnt = r.cnt
<1> DEFINE w == SentOnce(r, sent)
           msg == r.msg
           buf == r.buf
           upd == r.upd
           n == r.cnt
<1>1. /\ msg \in Message /\ buf \in Buffer /\ upd \in BOOLEAN /\ n \in Nat
      /\ r = [kind |-> r.kind, req |-> r.req, res |-> r.res, msg |-> r.msg,
              buf |-> r.buf, upd |-> r.upd, sent |-> r.sent, cnt |-> r.cnt]
  BY FieldsOfWork
<1>2. w = [r EXCEPT !.sent = sent]
  BY DEF SentOnce
<1> HIDE DEF w
<1>3. w = [kind |-> r.kind, req |-> r.req, res |-> r.res, msg |-> r.msg,
          buf |-> r.buf, upd |-> r.upd, sent |-> sent, cnt |-> r.cnt]
  BY <1>1, <1>2, Zenon
<1>4. /\ msg \in Message /\ buf \in Buffer /\ IsFlag(upd) /\ IsFlag(sent) /\ IsCount(n)
      /\ w = [kind |-> r.kind, req |-> r.req, res |-> r.res, msg |-> msg,
              buf |-> buf, upd |-> upd, sent |-> sent, cnt |-> n]
  BY <1>1, <1>3 DEF IsFlag, IsCount
<1> HIDE DEF msg, buf, upd, n
<1>5. /\ w \in Work /\ w.kind = r.kind /\ w.req = r.req /\ w.res = r.res
      /\ w.msg = msg /\ w.buf = buf /\ w.upd = upd /\ w.sent = sent
      /\ w.cnt = n
  BY <1>4, WorkChanged
<1> QED BY <1>5 DEF w, msg, buf, upd, n

Answered(r, msg, buf, sent) ==
  [r EXCEPT !.msg = msg, !.buf = buf, !.sent = sent]

\* A response, in its buffer, is sent.
LEMMA ResponseMade ==
  ASSUME NEW r \in Work, NEW msg \in Message, NEW buf \in Buffer, NEW sent \in BOOLEAN
  PROVE  LET w == Answered(r, msg, buf, sent)
         IN  /\ w \in Work /\ w.kind = r.kind /\ w.req = r.req /\ w.res = r.res
             /\ w.msg = msg /\ w.buf = buf /\ w.upd = r.upd /\ w.sent = sent
             /\ w.cnt = r.cnt
<1> DEFINE w == Answered(r, msg, buf, sent)
           upd == r.upd
           n == r.cnt
<1>1. /\ upd \in BOOLEAN /\ n \in Nat
      /\ r = [kind |-> r.kind, req |-> r.req, res |-> r.res, msg |-> r.msg,
              buf |-> r.buf, upd |-> r.upd, sent |-> r.sent, cnt |-> r.cnt]
  BY FieldsOfWork
<1>2. w = [r EXCEPT !.msg = msg, !.buf = buf, !.sent = sent]
  BY DEF Answered
<1> HIDE DEF w
<1>3. w = [kind |-> r.kind, req |-> r.req, res |-> r.res, msg |-> msg,
          buf |-> buf, upd |-> r.upd, sent |-> sent, cnt |-> r.cnt]
  BY <1>1, <1>2, Zenon
<1>4. /\ msg \in Message /\ buf \in Buffer /\ IsFlag(upd) /\ IsFlag(sent) /\ IsCount(n)
      /\ w = [kind |-> r.kind, req |-> r.req, res |-> r.res, msg |-> msg,
              buf |-> buf, upd |-> upd, sent |-> sent, cnt |-> n]
  BY <1>1, <1>3 DEF IsFlag, IsCount
<1> HIDE DEF upd, n
<1>5. /\ w \in Work /\ w.kind = r.kind /\ w.req = r.req /\ w.res = r.res
      /\ w.msg = msg /\ w.buf = buf /\ w.upd = upd /\ w.sent = sent
      /\ w.cnt = n
  BY <1>4, WorkChanged
<1> QED BY <1>5 DEF w, upd, n

Replaced(r, msg, buf, n) ==
  [r EXCEPT !.msg = msg, !.buf = buf, !.cnt = n]

\* A new message, in the buffer it lies in, for another change.
LEMMA MessageReplaced ==
  ASSUME NEW r \in Work, NEW msg \in Message, NEW buf \in Buffer, NEW n \in Nat
  PROVE  LET w == Replaced(r, msg, buf, n)
         IN  /\ w \in Work /\ w.kind = r.kind /\ w.req = r.req /\ w.res = r.res
             /\ w.msg = msg /\ w.buf = buf /\ w.upd = r.upd /\ w.sent = r.sent
             /\ w.cnt = n
<1> DEFINE w == Replaced(r, msg, buf, n)
           upd == r.upd
           sent == r.sent
<1>1. /\ upd \in BOOLEAN /\ sent \in BOOLEAN
      /\ r = [kind |-> r.kind, req |-> r.req, res |-> r.res, msg |-> r.msg,
              buf |-> r.buf, upd |-> r.upd, sent |-> r.sent, cnt |-> r.cnt]
  BY FieldsOfWork
<1>2. w = [r EXCEPT !.msg = msg, !.buf = buf, !.cnt = n]
  BY DEF Replaced
<1> HIDE DEF w
<1>3. w = [kind |-> r.kind, req |-> r.req, res |-> r.res, msg |-> msg,
          buf |-> buf, upd |-> r.upd, sent |-> r.sent, cnt |-> n]
  BY <1>1, <1>2, Zenon
<1>4. /\ msg \in Message /\ buf \in Buffer /\ IsFlag(upd) /\ IsFlag(sent) /\ IsCount(n)
      /\ w = [kind |-> r.kind, req |-> r.req, res |-> r.res, msg |-> msg,
              buf |-> buf, upd |-> upd, sent |-> sent, cnt |-> n]
  BY <1>1, <1>3 DEF IsFlag, IsCount
<1> HIDE DEF upd, sent
<1>5. /\ w \in Work /\ w.kind = r.kind /\ w.req = r.req /\ w.res = r.res
      /\ w.msg = msg /\ w.buf = buf /\ w.upd = upd /\ w.sent = sent
      /\ w.cnt = n
  BY <1>4, WorkChanged
<1> QED BY <1>5 DEF w, upd, sent

Refreshed(r, msg, buf, n, no) ==
  [r EXCEPT !.msg = msg, !.buf = buf, !.cnt = n, !.upd = no, !.sent = no]

\* The message is used again.
LEMMA MessageRefreshed ==
  ASSUME NEW r \in Work, NEW msg \in Message, NEW buf \in Buffer,
         NEW n \in Nat, NEW no \in BOOLEAN
  PROVE  LET w == Refreshed(r, msg, buf, n, no)
         IN  /\ w \in Work /\ w.kind = r.kind /\ w.req = r.req /\ w.res = r.res
             /\ w.msg = msg /\ w.buf = buf /\ w.upd = no /\ w.sent = no
             /\ w.cnt = n
<1> DEFINE w == Refreshed(r, msg, buf, n, no)
<1>1. /\ r = [kind |-> r.kind, req |-> r.req, res |-> r.res, msg |-> r.msg,
              buf |-> r.buf, upd |-> r.upd, sent |-> r.sent, cnt |-> r.cnt]
  BY FieldsOfWork
<1>2. w = [r EXCEPT !.msg = msg, !.buf = buf, !.cnt = n, !.upd = no, !.sent = no]
  BY DEF Refreshed
<1> HIDE DEF w
<1>3. w = [kind |-> r.kind, req |-> r.req, res |-> r.res, msg |-> msg,
          buf |-> buf, upd |-> no, sent |-> no, cnt |-> n]
  BY <1>1, <1>2, Zenon
<1>4. /\ msg \in Message /\ buf \in Buffer /\ IsFlag(no) /\ IsCount(n)
      /\ w = [kind |-> r.kind, req |-> r.req, res |-> r.res, msg |-> msg,
              buf |-> buf, upd |-> no, sent |-> no, cnt |-> n]
  BY <1>1, <1>3 DEF IsFlag, IsCount
<1>5. /\ w \in Work /\ w.kind = r.kind /\ w.req = r.req /\ w.res = r.res
      /\ w.msg = msg /\ w.buf = buf /\ w.upd = no /\ w.sent = no
      /\ w.cnt = n
  BY <1>4, WorkChanged
<1> QED BY <1>5 DEF w

\* Working, as a record.
LEMMA WorkStarts ==
  ASSUME NEW kind \in {"REQUEST", "NOTIFICATION"}, NEW req \in Message,
         NEW res \in HandlerIds \cup {NULL}, NEW m \in Message,
         NEW w, w = Working(kind, req, res, m)
  PROVE  /\ w \in Work /\ w.kind = kind /\ w.req = req /\ w.res = res /\ w.msg = m
         /\ w.buf = OwnBuffer(PREFERED_PAYLOAD_SIZE)
         /\ ~w.upd /\ ~w.sent /\ w.cnt = 0
<1> DEFINE b == OwnBuffer(PREFERED_PAYLOAD_SIZE)
           no == FALSE
           zero == 0
<1>1. b \in Buffer
  BY PreparedHasRoom
<1>2. w = [kind |-> kind, req |-> req, res |-> res, msg |-> m, buf |-> b,
           upd |-> no, sent |-> no, cnt |-> zero]
  BY DEF Working
<1>3. IsCount(zero) /\ IsFlag(no)
  BY DEF IsCount, IsFlag
<1> HIDE DEF b, no, zero
<1>4. /\ w \in Work /\ w.kind = kind /\ w.req = req /\ w.res = res /\ w.msg = m
      /\ w.buf = b /\ w.upd = no /\ w.sent = no /\ w.cnt = zero
  BY <1>1, <1>2, <1>3, WorkOf
<1> QED BY <1>4 DEF b, no, zero

(***************************************************************************)
(* The steps of a transfer.                                                *)
(***************************************************************************)
\* What does not change.
LEMMA WorkStays ==
  ASSUME ServerAtWork, UNCHANGED <<rep, resp>>, UNCHANGED client.state
  PROVE  ServerAtWork'
BY DEF ServerAtWork, Answering, Notifying, Room

\* A request on its way stays or is lost.
LEMMA RequestStays ==
  ASSUME RequestUnderWay, UNCHANGED sentReq, UNCHANGED toServer \/ toServer' = NULL
  PROVE  RequestUnderWay'
BY DEF RequestUnderWay

\* So does a response.
LEMMA ResponseStays ==
  ASSUME ResponseUnderWay, UNCHANGED sentResp, UNCHANGED toClient \/ toClient' = NULL
  PROVE  ResponseUnderWay'
BY DEF ResponseUnderWay

\* A message that can be packed is sent.
LEMMA ResponseLeaves ==
  ASSUME NEW m, Sendable(m), SendResponse(m)
  PROVE  ResponseUnderWay'
BY DEF ResponseUnderWay, SendResponse

\* Nothing changes.
LEMMA StutterStep ==
  ASSUME TransferInv, UNCHANGED transferVars
  PROVE  TransferInv'
<1>1. /\ UNCHANGED <<rep, resp>> /\ UNCHANGED client.state
      /\ UNCHANGED <<cnt, asked, client, sentReq, toServer, sentResp, toClient>>
  BY DEF transferVars
<1>2. Taking'
  BY <1>1 DEF TransferInv, Taking
<1> QED BY <1>1, <1>2, WorkStays, RequestStays, ResponseStays DEF TransferInv

\* A datagram is lost.
LEMMA LoseStep ==
  ASSUME TransferInv, Lose
  PROVE  TransferInv'
<1>1. /\ UNCHANGED <<rep, resp>> /\ UNCHANGED client.state
      /\ UNCHANGED <<cnt, asked, client, sentReq, sentResp>>
      /\ UNCHANGED toServer \/ toServer' = NULL
      /\ UNCHANGED toClient \/ toClient' = NULL
  BY DEF Lose
<1>2. Taking'
  BY <1>1 DEF TransferInv, Taking
<1> QED BY <1>1, <1>2, WorkStays, RequestStays, ResponseStays DEF TransferInv

\* A response that is sent is released.
LEMMA FreeResponseStep ==
  ASSUME TransferInv, FreeResponse
  PROVE  TransferInv'
<1>1. /\ resp' = NULL
      /\ UNCHANGED <<rep, cnt, asked, client, toServer, toClient, sentReq, sentResp>>
  BY DEF FreeResponse
<1>2. Taking'
  BY <1>1 DEF TransferInv, Taking
<1>3. ServerAtWork'
  BY <1>1 DEF ServerAtWork
<1> QED BY <1>1, <1>2, <1>3, RequestStays, ResponseStays DEF TransferInv

\* The representation changes under a transfer.
LEMMA ChangeRepresentationStep ==
  ASSUME TransferInv, ChangeRepresentation
  PROVE  TransferInv'
<1>1. /\ client.state = "WAITING"
      /\ UNCHANGED <<cnt, asked, client, toServer, toClient, sentReq, sentResp, resp>>
  BY DEF ChangeRepresentation
<1>2. PICK n \in Lengths : rep' = [len |-> n, ver |-> rep.ver + 1]
  BY DEF ChangeRepresentation
<1>3. rep' \in Representation
  BY <1>2, TransferAssumption DEF TransferInv, Taking, Representation
<1>4. Taking'
  BY <1>1, <1>3 DEF TransferInv, Taking
<1>5. ServerAtWork'
  BY <1>1 DEF TransferInv, ServerAtWork, Answering, Notifying
<1> QED BY <1>1, <1>4, <1>5, RequestStays, ResponseStays DEF TransferInv

\* The client asks for the next block.
LEMMA SendRequestStep ==
  ASSUME TransferInv, SendRequest
  PROVE  TransferInv'
<1>1. /\ client.state \in {"IDLE", "WAITING"} /\ resp = NULL
      /\ sentReq' = RequestMsg /\ toServer' = CoAP_BuildDatagram(RequestMsg)
      /\ client' = [client EXCEPT !.state = "WAITING",
                      !.since = IF client.state = "IDLE" THEN rep.ver ELSE @]
      /\ UNCHANGED <<rep, cnt, asked, toClient, sentResp, resp>>
  BY DEF SendRequest
<1>2. /\ rep \in Representation /\ asked \in Requests /\ client \in Client
  BY DEF TransferInv, Taking
<1>3. client' \in Client /\ client'.state # "OBSERVING"
  <2> DEFINE G == Seq(Byte)
             Z == BlockSizeValues \cup {0}
             S == ClientStates
             v == IF client.state = "IDLE" THEN rep.ver ELSE client.since
  <2>1. client \in [state : S, size : Z, got : G, since : Nat] /\ "WAITING" \in S
    BY <1>2 DEF Client, ClientStates
  <2>2. v \in Nat
    BY <1>2 DEF Client, Representation
  <2>3. client' = [client EXCEPT !.state = "WAITING", !.since = v]
    BY <1>1
  <2> HIDE DEF G, Z, S, v
  <2>4. client = [state |-> client.state, size |-> client.size, got |-> client.got,
                  since |-> client.since]
    BY <2>1
  <2>5. client' = [state |-> "WAITING", size |-> client.size, got |-> client.got,
                   since |-> v]
    BY <2>3, <2>4, Zenon
  <2>6. client' \in [state : S, size : Z, got : G, since : Nat]
    BY <2>1, <2>2, <2>5
  <2>7. client'.state = "WAITING"
    BY <2>5
  <2> QED BY <2>6, <2>7 DEF Client, G, Z, S
<1>4. Taking'
  BY <1>1, <1>3 DEF TransferInv, Taking
<1>5. RequestUnderWay'
  BY <1>1, <1>2, RequestIsSendable DEF RequestUnderWay
<1>6. ServerAtWork'
  BY <1>1 DEF ServerAtWork
<1> QED BY <1>1, <1>4, <1>5, <1>6, ResponseStays DEF TransferInv

\* A request that is refused at once.
LEMMA ShortLeaves ==
  ASSUME TransferInv, toServer # NULL, NEW code \in {RESP_NOT_FOUND, RESP_BAD_OPTION},
         CoAP_SendShortResp(ACK, code, Incoming.msg.mid, Incoming.msg.tok)
  PROVE  ResponseUnderWay'
<1> DEFINE mid == Incoming.msg.mid
           tok == Incoming.msg.tok
           w == [EmptyResetMsg EXCEPT !.type = ACK, !.mid = mid, !.code = code,
                                      !.tok = tok]
<1>1. mid \in OptNum /\ tok \in Token64 /\ asked \in Requests
  BY RequestArrives, FieldsOfMessage DEF TransferInv, Taking
<1>2. SendResponse(w)
  BY DEF CoAP_SendShortResp
<1> HIDE DEF mid, tok
<1>3. w = [EmptyResetMsg EXCEPT !.type = ACK, !.mid = mid, !.code = code, !.tok = tok]
  OBVIOUS
<1> HIDE DEF w
<1>4. Sendable(w)
  BY <1>1, <1>3, ShortIsSendable
<1> QED BY <1>2, <1>4, ResponseLeaves

\* There is no such resource.
LEMMA ReceiveUnknownResourceStep ==
  ASSUME TransferInv, ReceiveUnknownResource
  PROVE  TransferInv'
<1>1. /\ toServer # NULL /\ toServer' = NULL
      /\ CoAP_SendShortResp(ACK, RESP_NOT_FOUND, Incoming.msg.mid, Incoming.msg.tok)
      /\ UNCHANGED <<rep, cnt, asked, client, sentReq, resp>>
  BY DEF ReceiveUnknownResource
<1>2. ResponseUnderWay'
  BY <1>1, ShortLeaves
<1>3. Taking' /\ UNCHANGED client.state
  BY <1>1 DEF TransferInv, Taking
<1> QED BY <1>1, <1>2, <1>3, WorkStays, RequestStays DEF TransferInv

\* There is a critical option the server does not know.
LEMMA ReceiveBadOptionStep ==
  ASSUME TransferInv, ReceiveBadOption
  PROVE  TransferInv'
<1>1. /\ toServer # NULL /\ toServer' = NULL
      /\ CoAP_SendShortResp(ACK, RESP_BAD_OPTION, Incoming.msg.mid, Incoming.msg.tok)
      /\ UNCHANGED <<rep, cnt, asked, client, sentReq, resp>>
  BY DEF ReceiveBadOption
<1>2. ResponseUnderWay'
  BY <1>1, ShortLeaves
<1>3. Taking' /\ UNCHANGED client.state
  BY <1>1 DEF TransferInv, Taking
<1> QED BY <1>1, <1>2, <1>3, WorkStays, RequestStays DEF TransferInv

\* A response begins: without options or payload, in the buffer of its own.
LEMMA ReceiveRequestStep ==
  ASSUME TransferInv, ReceiveRequest
  PROVE  TransferInv'
<1> DEFINE m == Incoming.msg
           res == CoAP_FindResourceByUri(resources, m.opts)
           new == CreateMessage(ACK, EMPTY, m.mid, m.tok)
<1>1. /\ toServer # NULL /\ toServer' = NULL /\ res # NoResource
      /\ resp' = Working("REQUEST", m, res, new)
      /\ UNCHANGED <<rep, cnt, asked, client, toClient, sentReq, sentResp>>
  BY DEF ReceiveRequest
<1>2. Taking'
  BY <1>1 DEF TransferInv, Taking
<1>3. m \in Message /\ m.mid \in OptNum /\ m.tok \in Token64 /\ Sorted(m.opts)
  BY <1>1, RequestArrives, FieldsOfMessage
<1>4. res \in HandlerIds
  BY <1>1, FoundResource
<1>5. /\ new \in Message /\ new.code = EMPTY
      /\ new.opts = <<>> /\ new.payload = <<>>
  <2>1. ACK \in 0..3 /\ EMPTY \in Byte
    BY DEF ACK, EMPTY, Byte
  <2> QED BY <1>3, <2>1, CreatedMessage
<1>6. Sorted(new.opts) /\ Len(new.payload) = 0
  BY <1>5 DEF Sorted
<1> HIDE DEF m, res, new
<1>7. /\ resp' \in Work /\ resp'.kind = "REQUEST" /\ resp'.req = m /\ resp'.res = res
      /\ resp'.msg = new /\ resp'.buf = OwnBuffer(PREFERED_PAYLOAD_SIZE)
  <2> DEFINE kind == "REQUEST"
  <2>1. resp' = Working(kind, m, res, new)
    BY <1>1
  <2>2. kind \in {"REQUEST", "NOTIFICATION"} /\ res \in HandlerIds \cup {NULL}
    BY <1>4
  <2> HIDE DEF kind
  <2>3. m \in Message /\ new \in Message
    BY <1>3, <1>5
  <2>4. /\ resp' \in Work /\ resp'.kind = kind /\ resp'.req = m /\ resp'.res = res
        /\ resp'.msg = new /\ resp'.buf = OwnBuffer(PREFERED_PAYLOAD_SIZE)
    BY <2>1, <2>2, <2>3, WorkStarts
  <2> QED BY <2>4 DEF kind
<1>8. HasRoom(resp'.buf, Len(resp'.msg.payload))
  BY <1>6, <1>7, PreparedHasRoom
<1>9. Answering(resp')
  BY <1>3, <1>4, <1>5, <1>6, <1>7, <1>8 DEF Answering
<1>10. ServerAtWork'
  BY <1>7, <1>9 DEF ServerAtWork, Answering
<1> QED BY <1>1, <1>2, <1>10, RequestStays, ResponseStays DEF TransferInv

\* The handler answers, and the response leaves.
LEMMA AnswerStep ==
  ASSUME TransferInv, Answer
  PROVE  TransferInv'
<1> DEFINE done == Handler(resp.res, resp.req, resp.msg, resp.buf)
           m == IF done.msg.code # EMPTY THEN done.msg
                ELSE [done.msg EXCEPT !.code = RESP_CONTENT]
<1>1. /\ resp # NULL /\ resp.kind = "REQUEST" /\ ~resp.sent /\ SendResponse(m)
      /\ resp' = [resp EXCEPT !.msg = m, !.buf = done.buf, !.sent = TRUE]
      /\ UNCHANGED <<rep, cnt, asked, client, toServer, sentReq>>
  BY DEF Answer
<1>2. resp \in Work /\ Answering(resp)
  BY <1>1 DEF TransferInv, ServerAtWork
<1>3. /\ resp.req \in Message /\ resp.req.opts \in Seq(Option)
      /\ resp.msg \in Message /\ resp.msg.opts = <<>> /\ resp.msg.code = EMPTY
      /\ resp.buf = OwnBuffer(PREFERED_PAYLOAD_SIZE) /\ resp.res \in HandlerIds
      /\ Sorted(resp.req.opts)
  BY <1>1, <1>2, FieldsOfWork, FieldsOfMessage DEF Answering
<1>4. rep \in Representation /\ asked \in Requests
  BY DEF TransferInv, Taking
<1>5. Handled(done, resp.msg)
  BY <1>3, <1>4, HandlerAnswers
<1> HIDE DEF done
<1>6. m = IF done.msg.code # EMPTY THEN done.msg
          ELSE [done.msg EXCEPT !.code = RESP_CONTENT]
  OBVIOUS
<1> HIDE DEF m
<1>7. Sendable(m) /\ done.buf \in Buffer /\ HasRoom(done.buf, Len(m.payload))
  BY <1>3, <1>4, <1>5, <1>6, AnswerIsSendable
<1>8. ResponseUnderWay'
  BY <1>1, <1>7, ResponseLeaves
<1>9. /\ resp' \in Work /\ resp'.kind = "REQUEST" /\ resp'.req = resp.req
      /\ resp'.msg = m /\ resp'.buf = done.buf /\ resp'.sent
  <2> DEFINE yes == TRUE
  <2>1. resp' = [resp EXCEPT !.msg = m, !.buf = done.buf, !.sent = yes]
    BY <1>1
  <2>2. yes \in BOOLEAN /\ m \in Message
    BY <1>7 DEF Sendable
  <2> HIDE DEF yes
  <2> DEFINE buf == done.buf
  <2>3. resp' = Answered(resp, m, buf, yes)
    BY <2>1 DEF Answered
  <2>4. buf \in Buffer
    BY <1>7
  <2> HIDE DEF buf
  <2>5. /\ resp' \in Work /\ resp'.kind = resp.kind /\ resp'.req = resp.req
        /\ resp'.msg = m /\ resp'.buf = buf /\ resp'.sent = yes
    BY <1>2, <2>2, <2>3, <2>4, ResponseMade
  <2> QED BY <1>1, <2>5 DEF yes, buf
<1>10. Answering(resp')
  <2>1. Sorted(m.opts)
    BY <1>7 DEF Sendable, Packable
  <2> QED BY <1>3, <1>7, <1>9, <2>1 DEF Answering
<1>11. ServerAtWork'
  BY <1>9, <1>10 DEF ServerAtWork, Answering
<1>12. Taking'
  BY <1>1 DEF TransferInv, Taking
<1> QED BY <1>1, <1>8, <1>11, <1>12, RequestStays DEF TransferInv

\* A client that got further.
LEMMA ClientChanged ==
  ASSUME NEW c \in Client,
         NEW state \in ClientStates,
         NEW size \in BlockSizeValues \cup {0}, NEW got \in Seq(Byte),
         NEW w, w = [state |-> state, size |-> size, got |-> got, since |-> c.since]
  PROVE  w \in Client /\ w.state = state
<1> DEFINE G == Seq(Byte)
           Z == BlockSizeValues \cup {0}
<1>1. c.since \in Nat
  BY DEF Client
<1>2. got \in G /\ size \in Z
  OBVIOUS
<1> HIDE DEF G, Z
<1>3. /\ w \in [state : ClientStates,
                size : Z, got : G, since : Nat]
      /\ w.state = state
  BY <1>1, <1>2
<1> QED BY <1>3 DEF Client, G, Z

\* The fields of a client, and that there are no others.
LEMMA FieldsOfClient ==
  ASSUME NEW c \in Client
  PROVE  /\ c.state \in ClientStates
         /\ c.size \in BlockSizeValues \cup {0} /\ c.got \in Seq(Byte)
         /\ c = [state |-> c.state, size |-> c.size, got |-> c.got, since |-> c.since]
<1> DEFINE G == Seq(Byte)
           Z == BlockSizeValues \cup {0}
<1>1. c \in [state : ClientStates,
             size : Z, got : G, since : Nat]
  BY DEF Client
<1> HIDE DEF G, Z
<1>2. /\ c.state \in ClientStates
      /\ c.size \in Z /\ c.got \in G
      /\ c = [state |-> c.state, size |-> c.size, got |-> c.got, since |-> c.since]
  BY <1>1
<1> QED BY <1>2 DEF G, Z

\* The client takes over a block, gives up or is done.
LEMMA ReceiveResponseStep ==
  ASSUME TransferInv, ReceiveResponse
  PROVE  TransferInv'
<1> DEFINE m == sentResp
           block == GetBlockOptionFromMsg(m.opts, OPT_BLOCK2)
<1>1. /\ client.state = "WAITING" /\ toClient # NULL /\ toClient' = NULL
      /\ UNCHANGED <<rep, cnt, asked, toServer, sentReq, sentResp, resp>>
  BY DEF ReceiveResponse
<1>2. client \in Client /\ m.payload \in Seq(Byte)
  BY <1>1, FieldsOfMessage DEF TransferInv, Taking, ResponseUnderWay, Sendable
<1>3. /\ client.size \in BlockSizeValues \cup {0} /\ client.got \in Seq(Byte)
      /\ client = [state |-> client.state, size |-> client.size, got |-> client.got,
                   since |-> client.since]
  BY <1>2, FieldsOfClient
<1>4. client' \in Client /\ client'.state # "OBSERVING"
  <2>0. {"REFUSED", "DONE", "WAITING", "STUCK"} \subseteq ClientStates
    BY DEF ClientStates
  <2>1. CASE client' = [client EXCEPT !.state = "REFUSED"]
    <3>1. client' = [state |-> "REFUSED", size |-> client.size, got |-> client.got,
                     since |-> client.since]
      BY <1>3, <2>1, Zenon
    <3> QED BY <1>2, <1>3, <2>0, <3>1, ClientChanged
  <2>2. CASE client' = [client EXCEPT !.got = m.payload, !.state = "DONE"]
    <3>1. client' = [state |-> "DONE", size |-> client.size, got |-> m.payload,
                     since |-> client.since]
      BY <1>3, <2>2, Zenon
    <3> QED BY <1>2, <1>3, <2>0, <3>1, ClientChanged
  <2>3. CASE \E size \in {s \in BlockSizes : s <= block.size} :
               client' = WithBlock(block, m.payload, size)
    <3>1. PICK size \in BlockSizes : client' = WithBlock(block, m.payload, size)
      BY <2>3
    <3>2. size \in BlockSizeValues \cup {0}
      BY TransferAssumption
    <3> DEFINE payload == m.payload
               state == IF block.more THEN "WAITING" ELSE "DONE"
               got == client.got \o payload
    <3>3. got \in Seq(Byte)
      BY <1>2, <1>3, ConcatProperties
    <3>4. \/ client' = [client EXCEPT !.state = "STUCK"]
          \/ client' = [client EXCEPT !.got = got, !.size = size, !.state = state]
      BY <3>1 DEF WithBlock
    <3>5. state \in {"WAITING", "DONE"}
      OBVIOUS
    <3> HIDE DEF got, state, payload, block
    <3>6. CASE client' = [client EXCEPT !.state = "STUCK"]
      <4>1. client' = [state |-> "STUCK", size |-> client.size, got |-> client.got,
                       since |-> client.since]
        BY <1>3, <3>6, Zenon
      <4> QED BY <1>2, <1>3, <2>0, <4>1, ClientChanged
    <3>7. CASE client' = [client EXCEPT !.got = got, !.size = size, !.state = state]
      <4>1. client' = [state |-> state, size |-> size, got |-> got,
                       since |-> client.since]
        BY <1>3, <3>7, Zenon
      <4>2. client \in Client /\ state \in ClientStates
        BY <1>2, <3>5 DEF ClientStates
      <4>3. client' \in Client /\ client'.state = state
        BY <3>2, <3>3, <4>1, <4>2, ClientChanged
      <4> QED BY <3>5, <4>3
    <3> QED BY <3>4, <3>6, <3>7
  <2> QED BY <2>1, <2>2, <2>3 DEF ReceiveResponse
<1>5. Taking'
  BY <1>1, <1>4 DEF TransferInv, Taking
<1>6. ServerAtWork'
  BY <1>1 DEF TransferInv, ServerAtWork, Answering, Notifying
<1> QED BY <1>1, <1>5, <1>6, RequestStays, ResponseStays DEF TransferInv

\* The observer has got a notification.
LEMMA ReceiveNotificationStep ==
  ASSUME TransferInv, ReceiveNotification
  PROVE  TransferInv'
<1> DEFINE got == sentResp.payload
<1>1. /\ client.state = "OBSERVING" /\ toClient # NULL /\ toClient' = NULL
      /\ client' = [client EXCEPT !.got = got]
      /\ resp' = resp \/ resp' = NULL
      /\ UNCHANGED <<rep, cnt, asked, toServer, sentReq, sentResp>>
  BY DEF ReceiveNotification
<1>2. client \in Client /\ got \in Seq(Byte)
  BY <1>1, FieldsOfMessage DEF TransferInv, Taking, ResponseUnderWay, Sendable
<1> HIDE DEF got
<1>3. client' \in Client /\ client'.state = client.state
  <2>1. /\ client.size \in BlockSizeValues \cup {0}
        /\ client.state \in ClientStates
        /\ client = [state |-> client.state, size |-> client.size, got |-> client.got,
                     since |-> client.since]
    BY <1>2, FieldsOfClient
  <2>2. client' = [state |-> client.state, size |-> client.size, got |-> got,
                   since |-> client.since]
    BY <1>1, <2>1, Zenon
  <2> DEFINE state == client.state
             size == client.size
  <2>3. /\ size \in BlockSizeValues \cup {0}
        /\ state \in ClientStates
        /\ client' = [state |-> state, size |-> size, got |-> got,
                      since |-> client.since]
    BY <2>1, <2>2
  <2> HIDE DEF state, size
  <2>4. client' \in Client /\ client'.state = state
    BY <1>2, <2>3, ClientChanged
  <2> QED BY <2>4 DEF state
<1>4. Taking'
  BY <1>1, <1>3 DEF TransferInv, Taking
<1>5. ServerAtWork'
  <2>1. CASE resp' = NULL
    BY <2>1 DEF ServerAtWork
  <2>2. CASE resp' = resp
    BY <1>1, <1>3, <2>2, WorkStays DEF TransferInv
  <2> QED BY <1>1, <2>1, <2>2
<1> QED BY <1>1, <1>4, <1>5, RequestStays, ResponseStays DEF TransferInv

\* A notification is sent, the first time or again.
LEMMA SendNotificationStep ==
  ASSUME TransferInv, SendNotification
  PROVE  TransferInv' /\ resp' \in Work
<1> DEFINE yes == TRUE
<1>1. /\ resp # NULL /\ resp.kind = "NOTIFICATION" /\ SendResponse(resp.msg)
      /\ resp' = [resp EXCEPT !.sent = yes]
      /\ UNCHANGED <<rep, cnt, asked, client, toServer, sentReq>>
  BY DEF SendNotification
<1>2. resp \in Work /\ Notifying(resp)
  BY <1>1 DEF TransferInv, ServerAtWork
<1>3. ResponseUnderWay'
  BY <1>1, <1>2, ResponseLeaves DEF Notifying
<1>4. yes \in BOOLEAN
  OBVIOUS
<1> HIDE DEF yes
<1>5. /\ resp' \in Work /\ resp'.kind = resp.kind /\ resp'.req = resp.req
      /\ resp'.msg = resp.msg /\ resp'.buf = resp.buf /\ resp'.upd = resp.upd
      /\ resp'.cnt = resp.cnt
  <2>1. resp' = SentOnce(resp, yes)
    BY <1>1 DEF SentOnce
  <2> QED BY <1>2, <1>4, <2>1, MarkedAsSent
<1>6. Notifying(resp)'
  BY <1>1, <1>2, <1>5 DEF Notifying, Room
<1>7. ServerAtWork'
  BY <1>1, <1>5, <1>6 DEF ServerAtWork, Notifying
<1>8. Taking'
  BY <1>1 DEF TransferInv, Taking
<1> QED BY <1>1, <1>3, <1>5, <1>7, <1>8, RequestStays DEF TransferInv

\* The options of a notification fit the 16 bits their size is added up in.
LEMMA NotificationPacks ==
  ASSUME asked \in Requests, NEW k \in Nat, NEW opts, Options(opts, k),
         AllFit => k = 1, ~AllFit => k <= MaxNotified + 1
  PROVE  Packable(opts)
<1>1. CASE AllFit
  <2>1. k \in 0..3
    BY <1>1
  <2> QED BY <2>1, FewOptionsPack
<1>2. CASE ~AllFit
  <2> DEFINE n == MaxNotified + 1
  <2>1. n \in Nat /\ n \in Int /\ k \in Int /\ k <= n /\ Countable(n)
    BY <1>2, TransferAssumption DEF AllFit
  <2> HIDE DEF n
  <2>2. Options(opts, n)
    BY <2>1, MayBeFewer
  <2>3. n * (MAX_OPTION_VALUE_SIZE + 5) < 65536
    BY <2>1 DEF Countable
  <2> QED BY <2>1, <2>2, <2>3, OptionsPack
<1> QED BY <1>1, <1>2

\* A notification with that many options can be packed and read.
LEMMA NotificationIsSendable ==
  ASSUME asked \in Requests, NEW k \in Nat, NEW w, NEW m, NEW b, NEW c,
         Notification(w, m, b, k, c), m.code # EMPTY, ~IsReservedClass(m.code),
         AllFit => k = 1, ~AllFit => k <= MaxNotified + 1
  PROVE  /\ Sendable(w) /\ Options(w.opts, k) /\ OneObserve(w.opts, c)
         /\ w \in Message /\ b \in Buffer /\ HasRoom(b, Len(w.payload))
<1>1. /\ w \in Message /\ w.code = m.code /\ Options(w.opts, k) /\ OneObserve(w.opts, c)
      /\ Len(w.payload) <= MAX_PAYLOAD_SIZE /\ b \in Buffer /\ HasRoom(b, Len(w.payload))
  BY DEF Notification
<1>2. Packable(w.opts)
  BY <1>1, NotificationPacks
<1> QED BY <1>1, <1>2 DEF Sendable

\* One more change: the counter is still below its limit.
LEMMA ChangeCounts ==
  ASSUME Taking, client.state = "OBSERVING", rep.ver < MaxNotified,
         NEW n \in NotifyLengths, rep' = [len |-> n, ver |-> rep.ver + 1],
         cnt' = cnt + 1, UNCHANGED <<asked, client>>
  PROVE  /\ Taking' /\ rep' \in Representation /\ rep'.len \in NotifyLengths
         /\ rep'.ver = rep.ver + 1 /\ rep'.ver <= MaxNotified
         /\ cnt' \in Nat /\ cnt' < CntLimit
<1> DEFINE v == rep.ver
<1>1. /\ v \in Nat /\ cnt \in Nat /\ MaxNotified \in Nat /\ n \in Nat
      /\ cnt + (MaxNotified - v) < CntLimit /\ CntLimit \in Nat
  BY TransferAssumption DEF Taking, Representation, CntLimit
<1>2. rep' = [len |-> n, ver |-> v + 1]
  OBVIOUS
<1>3. v < MaxNotified
  OBVIOUS
<1> HIDE DEF v
<1>4. /\ cnt' \in Nat /\ cnt' < CntLimit /\ v + 1 \in Nat /\ v + 1 <= MaxNotified
      /\ cnt' + (MaxNotified - (v + 1)) < CntLimit
  BY <1>1, <1>3
<1>5. rep' \in Representation /\ rep'.len = n /\ rep'.ver = v + 1
  BY <1>1, <1>2, <1>4 DEF Representation
<1>6. Taking'
  BY <1>4, <1>5 DEF Taking
<1> QED BY <1>4, <1>5, <1>6 DEF v

\* A notification starts, or the one under way is flagged.
LEMMA NotifyObserversStep ==
  ASSUME TransferInv, NotifyObservers
  PROVE  TransferInv' /\ resp' \in Work
<1>1. /\ client.state = "OBSERVING" /\ rep.ver < MaxNotified /\ cnt' = cnt + 1
      /\ UNCHANGED <<asked, client, toServer, toClient, sentReq, sentResp>>
  BY DEF NotifyObservers
<1>2. PICK len \in NotifyLengths : rep' = [len |-> len, ver |-> rep.ver + 1]
  BY DEF NotifyObservers
<1>3. /\ Taking' /\ rep' \in Representation /\ rep'.len \in NotifyLengths
      /\ rep'.ver = rep.ver + 1 /\ rep'.ver <= MaxNotified
      /\ cnt' \in Nat /\ cnt' < CntLimit
  BY <1>1, <1>2, ChangeCounts DEF TransferInv
<1>4. rep.ver \in Nat /\ asked \in Requests /\ asked.tok \in Token64
  BY AskedIsProper DEF TransferInv, Taking, Representation, ClientRequest
<1>5. ServerAtWork' /\ resp' \in Work
  <2>1. CASE resp # NULL
    <3> DEFINE yes == TRUE
    <3>1. resp' = [resp EXCEPT !.upd = yes]
      BY <2>1 DEF NotifyObservers
    <3>2. resp \in Work /\ yes \in BOOLEAN
      BY <2>1 DEF TransferInv, ServerAtWork
    <3> HIDE DEF yes
    <3>3. /\ resp' \in Work /\ resp'.kind = resp.kind /\ resp'.req = resp.req
          /\ resp'.res = resp.res /\ resp'.sent = resp.sent
          /\ resp'.msg = resp.msg /\ resp'.buf = resp.buf /\ resp'.upd = yes
          /\ resp'.cnt = resp.cnt
      <4>1. resp' = Flagged(resp, yes)
        BY <3>1 DEF Flagged
      <4> QED BY <3>2, <4>1, FlagRaised
    <3>4. CASE resp.kind = "REQUEST" /\ Answering(resp)
      <4>1. Answering(resp)'
        BY <3>3, <3>4 DEF Answering
      <4> QED BY <3>3, <3>4, <4>1 DEF ServerAtWork, Answering
    <3>5. CASE resp.kind = "NOTIFICATION" /\ Notifying(resp)
      <4>1. Options(resp.msg.opts, Room(resp)')
        <5>1. Room(resp) \in Int /\ Room(resp)' \in Int /\ Room(resp) <= Room(resp)'
          BY <1>3, <1>4, <3>3 DEF Room, yes, AllFit
        <5>2. Options(resp.msg.opts, Room(resp))
          BY <3>5 DEF Notifying
        <5> QED BY <5>1, <5>2, MayBeFewer
      <4>2. Notifying(resp)'
        BY <1>1, <1>3, <3>3, <3>5, <4>1 DEF Notifying
      <4> QED BY <3>3, <3>5, <4>2 DEF ServerAtWork
    <3> QED BY <2>1, <3>3, <3>4, <3>5 DEF TransferInv, ServerAtWork
  <2>2. CASE resp = NULL
    <3> DEFINE new == CreateMessage(CON, RESP_CONTENT, ServerMid, asked.tok)
               done == Notifier(new, OwnBuffer(PREFERED_PAYLOAD_SIZE), rep')
               w == [done.msg EXCEPT !.opts = AddObserveOptionToMsg(done.msg.opts, cnt')]
               work == Working("NOTIFICATION", new, NULL, new)
               k == IF AllFit THEN 1 ELSE 2
    <3>1. resp' = [work EXCEPT !.msg = w, !.buf = done.buf, !.cnt = cnt']
      BY <2>2 DEF NotifyObservers
    <3>2. new \in Message /\ new.opts = <<>> /\ new.code = RESP_CONTENT
      <4>1. CON \in 0..3 /\ ServerMid \in OptNum /\ RESP_CONTENT \in Byte
        BY OwnCodes DEF CON, ServerMid, OptNum
      <4> QED BY <1>4, <4>1, CreatedMessage
    <3>3. RESP_CONTENT # EMPTY /\ ~IsReservedClass(RESP_CONTENT)
      BY OwnCodes
    <3>4. Notification(w, new, done.buf, k, cnt')
      <4> DEFINE b == OwnBuffer(PREFERED_PAYLOAD_SIZE)
                 c == cnt'
                 r == rep'
      <4>1. b \in Buffer /\ HasRoom(b, 0)
        BY PreparedHasRoom
      <4>2. done = Notifier(new, b, r)
        OBVIOUS
      <4>3. w = [done.msg EXCEPT !.opts = AddObserveOptionToMsg(done.msg.opts, c)]
        OBVIOUS
      <4>4. c \in Nat /\ c < CntLimit /\ r \in Representation /\ r.len \in NotifyLengths
        BY <1>3
      <4> HIDE DEF b, c, r, new, done, w
      <4>5. Notification(w, new, done.buf, IF AllFit THEN 1 ELSE 2, c)
        BY <3>2, <4>1, <4>2, <4>3, <4>4, NotificationStarts
      <4> QED BY <4>5 DEF c
    <3>5. /\ work \in Work /\ work.kind = "NOTIFICATION" /\ work.req = new
          /\ work.msg = new /\ ~work.upd
      <4> DEFINE kind == "NOTIFICATION"
                 res == NULL
      <4>1. kind \in {"REQUEST", "NOTIFICATION"} /\ res \in HandlerIds \cup {NULL}
        OBVIOUS
      <4>2. work = Working(kind, new, res, new)
        OBVIOUS
      <4> HIDE DEF kind, res, work, new
      <4>3. work \in Work /\ work.kind = kind /\ work.req = new /\ work.msg = new /\ ~work.upd
        BY <3>2, <4>1, <4>2, WorkStarts
      <4> QED BY <4>3 DEF kind
    <3> HIDE DEF work, w, done, new
    <3>6. k \in Nat /\ (AllFit => k = 1) /\ (~AllFit => k <= rep'.ver + 1)
          /\ (~AllFit => k <= MaxNotified + 1)
      BY <1>3, <1>4, TransferAssumption
    <3> HIDE DEF k
    <3>7. /\ Sendable(w) /\ Options(w.opts, k) /\ OneObserve(w.opts, cnt')
          /\ w \in Message /\ done.buf \in Buffer /\ HasRoom(done.buf, Len(w.payload))
      BY <1>4, <3>2, <3>3, <3>4, <3>6, NotificationIsSendable
    <3>8. /\ resp' \in Work /\ resp'.kind = "NOTIFICATION" /\ resp'.req = new
          /\ resp'.msg = w /\ resp'.buf = done.buf /\ ~resp'.upd /\ resp'.cnt = cnt'
      <4>1. /\ resp' \in Work /\ resp'.kind = work.kind /\ resp'.req = work.req
            /\ resp'.msg = w /\ resp'.buf = done.buf /\ resp'.upd = work.upd
            /\ resp'.cnt = cnt'
        <5> DEFINE c == cnt'
                   buf == done.buf
        <5>1. resp' = Replaced(work, w, buf, c)
          BY <3>1 DEF Replaced
        <5>2. c \in Nat /\ buf \in Buffer
          BY <1>3, <3>7
        <5> HIDE DEF c, buf
        <5>3. /\ resp' \in Work /\ resp'.kind = work.kind /\ resp'.req = work.req
              /\ resp'.msg = w /\ resp'.buf = buf /\ resp'.upd = work.upd
              /\ resp'.cnt = c
          BY <3>5, <3>7, <5>1, <5>2, MessageReplaced
        <5> QED BY <5>3 DEF c, buf
      <4> QED BY <3>5, <4>1
    <3>9. Options(resp'.msg.opts, Room(resp)')
      <4>1. k \in Int /\ Room(resp)' \in Int /\ k <= Room(resp)'
        BY <1>3, <1>4, <3>6, <3>8 DEF Room, AllFit
      <4> QED BY <3>7, <3>8, <4>1, MayBeFewer
    <3>10. Notifying(resp)'
      BY <1>1, <1>3, <3>2, <3>7, <3>8, <3>9 DEF Notifying
    <3> QED BY <3>8, <3>10 DEF ServerAtWork
  <2> QED BY <2>1, <2>2
<1> QED BY <1>1, <1>3, <1>5, RequestStays, ResponseStays DEF TransferInv

\* The message is used again: only its number of options may grow.
LEMMA RefreshNotificationStep ==
  ASSUME TransferInv, RefreshNotification
  PROVE  TransferInv' /\ resp' \in Work
<1> DEFINE m == [resp.msg EXCEPT !.mid = (resp.msg.mid + 1) % 65536]
           done == Notifier(m, resp.buf, rep)
           w == [done.msg EXCEPT !.opts = UpdateObserveOptionInMsg(done.msg.opts, cnt)]
           no == FALSE
           n == Room(resp)
           k == IF AllFit THEN n ELSE n + 1
<1>1. /\ resp # NULL /\ resp.kind = "NOTIFICATION" /\ resp.upd
      /\ resp' = [resp EXCEPT !.msg = w, !.buf = done.buf, !.cnt = cnt,
                              !.upd = no, !.sent = no]
      /\ UNCHANGED <<rep, cnt, asked, client, toServer, toClient, sentReq, sentResp>>
  BY DEF RefreshNotification
<1>2. resp \in Work /\ Notifying(resp)
  BY <1>1 DEF TransferInv, ServerAtWork
<1>3. /\ rep \in Representation /\ rep.len \in NotifyLengths /\ asked \in Requests
      /\ cnt \in Nat /\ cnt < CntLimit /\ rep.ver \in Nat /\ rep.ver <= MaxNotified
      /\ client.state = "OBSERVING"
  BY <1>2 DEF TransferInv, Taking, Notifying, Representation
<1>4. /\ resp.req.opts = <<>> /\ resp.msg \in Message /\ resp.msg.code # EMPTY
      /\ ~IsReservedClass(resp.msg.code) /\ Options(resp.msg.opts, n)
      /\ resp.buf \in Buffer /\ HasRoom(resp.buf, Len(resp.msg.payload))
      /\ OneObserve(resp.msg.opts, resp.cnt) /\ resp.cnt \in Nat
  BY <1>2, FieldsOfWork DEF Notifying, Sendable
<1>5. HasRoom(resp.buf, 0)
  <2>1. Len(resp.msg.payload) \in Nat
    BY <1>4, FieldsOfMessage, LenProperties
  <2> QED BY <1>4, <2>1 DEF HasRoom, Buffer
<1>6. n \in Nat /\ (AllFit => n = 1) /\ (~AllFit => n = rep.ver)
  BY <1>1, <1>3 DEF Room
<1>7. m \in Message /\ m.code = resp.msg.code /\ m.opts = resp.msg.opts
  <2> DEFINE mid == (resp.msg.mid + 1) % 65536
             code == resp.msg.code
             opts == resp.msg.opts
             payload == resp.msg.payload
             v == resp.msg
             new == m
  <2>1. /\ mid \in OptNum /\ code \in Byte /\ opts \in Seq(Option)
        /\ payload \in Seq(Byte)
        /\ v = [type |-> v.type, code |-> v.code, mid |-> v.mid, tok |-> v.tok,
                opts |-> v.opts, payload |-> v.payload]
    BY <1>4, FieldsOfMessage DEF OptNum
  <2>2. new = [v EXCEPT !.mid = mid]
    OBVIOUS
  <2> HIDE DEF new, mid
  <2>3. new = [type |-> v.type, code |-> v.code, mid |-> mid, tok |-> v.tok,
               opts |-> v.opts, payload |-> v.payload]
    BY <2>1, <2>2, Zenon
  <2>4. /\ mid \in OptNum /\ code \in Byte /\ opts \in Seq(Option)
        /\ payload \in Seq(Byte) /\ v \in Message
        /\ new = [type |-> v.type, code |-> code, mid |-> mid, tok |-> v.tok,
                  opts |-> opts, payload |-> payload]
    BY <1>4, <2>1, <2>3
  <2> HIDE DEF code, opts, payload, v
  <2>5. new \in Message /\ new.code = code /\ new.opts = opts
    BY <2>4, MessageChanged
  <2> QED BY <2>5 DEF new, code, opts, v
<1> HIDE DEF m
<1>8. Notification(w, m, done.buf, k, cnt)
  <2> DEFINE old == resp.cnt
             b == resp.buf
             r == rep
             c == cnt
  <2>1. done = Notifier(m, b, r)
    OBVIOUS
  <2>2. w = [done.msg EXCEPT !.opts = UpdateObserveOptionInMsg(done.msg.opts, c)]
    OBVIOUS
  <2>3. /\ r \in Representation /\ r.len \in NotifyLengths /\ c \in Nat /\ c < CntLimit
        /\ n \in Nat /\ old \in Nat /\ m \in Message /\ Options(m.opts, n)
        /\ OneObserve(m.opts, old) /\ b \in Buffer /\ HasRoom(b, 0)
    BY <1>3, <1>4, <1>5, <1>6, <1>7
  <2> HIDE DEF old, b, r, c, done, w, n
  <2>4. Notification(w, m, done.buf, IF AllFit THEN n ELSE n + 1, c)
    BY <2>1, <2>2, <2>3, NotificationRefreshed
  <2> QED BY <2>4 DEF c
<1> HIDE DEF w, done
<1>9. k \in Nat /\ (AllFit => k = 1) /\ (~AllFit => k = rep.ver + 1 /\ k <= MaxNotified + 1)
  <2> HIDE DEF n
  <2> QED BY <1>3, <1>6, TransferAssumption
<1> HIDE DEF k, n
<1>10. /\ Sendable(w) /\ Options(w.opts, k) /\ OneObserve(w.opts, cnt)
       /\ w \in Message /\ done.buf \in Buffer /\ HasRoom(done.buf, Len(w.payload))
  BY <1>3, <1>4, <1>7, <1>8, <1>9, NotificationIsSendable
<1>11. /\ resp' \in Work /\ resp'.kind = resp.kind /\ resp'.req = resp.req
       /\ resp'.msg = w /\ resp'.buf = done.buf /\ ~resp'.upd /\ resp'.cnt = cnt
  <2> DEFINE c == cnt
             buf == done.buf
  <2>1. resp' = Refreshed(resp, w, buf, c, no)
    BY <1>1 DEF Refreshed
  <2>2. c \in Nat /\ buf \in Buffer /\ no \in BOOLEAN
        /\ resp \in Work /\ w \in Message
    BY <1>2, <1>3, <1>10
  <2> HIDE DEF c, buf, no
  <2>3. /\ resp' \in Work /\ resp'.kind = resp.kind /\ resp'.req = resp.req
        /\ resp'.msg = w /\ resp'.buf = buf /\ resp'.upd = no /\ resp'.cnt = c
    BY <2>1, <2>2, MessageRefreshed
  <2>4. ~no
    BY DEF no
  <2> HIDE DEF no
  <2>5. ~resp'.upd
    BY <2>3, <2>4, Zenon
  <2> QED BY <2>3, <2>5 DEF c, buf
<1>12. Options(resp'.msg.opts, Room(resp)')
  <2>1. Room(resp)' = k
    BY <1>1, <1>9, <1>11 DEF Room, AllFit
  <2> QED BY <1>10, <1>11, <2>1
<1>13. Notifying(resp)'
  BY <1>1, <1>3, <1>4, <1>10, <1>11, <1>12 DEF Notifying
<1>14. ServerAtWork'
  BY <1>1, <1>11, <1>13 DEF ServerAtWork
<1>15. Taking'
  BY <1>1 DEF TransferInv, Taking
<1> QED BY <1>1, <1>11, <1>14, <1>15, RequestStays, ResponseStays DEF TransferInv

\* At the beginning nothing is under way.
LEMMA TransferStarts == TransferInit => TransferInv
<1> SUFFICES ASSUME TransferInit PROVE TransferInv
  OBVIOUS
<1> DEFINE none == <<>>
           state == IF asked.observe THEN "OBSERVING" ELSE "IDLE"
           z == 0
<1>1. /\ rep \in [len : Lengths, ver : {0}] /\ asked \in Requests
      /\ cnt \in IF asked.observe THEN CntStart ELSE {0}
      /\ client = [state |-> state, size |-> asked.size, got |-> none, since |-> z]
      /\ toServer = NULL /\ toClient = NULL
      /\ sentReq = EmptyResetMsg /\ sentResp = EmptyResetMsg /\ resp = NULL
  BY DEF TransferInit
<1>2. rep \in Representation /\ rep.ver = 0
  <2>1. rep \in [len : Lengths, ver : {0}] /\ Lengths \subseteq Nat
    BY <1>1, TransferAssumption
  <2>2. rep = [len |-> rep.len, ver |-> rep.ver] /\ rep.len \in Nat /\ rep.ver = 0
    BY <2>1
  <2> QED BY <2>1, <2>2 DEF Representation
<1>3. asked.size \in BlockSizeValues \cup {0} /\ asked.observe \in BOOLEAN
  BY <1>1, AskedIsProper DEF ClientRequest
<1>4. /\ none \in Seq(Byte) /\ z \in Nat /\ state \in ClientStates
      /\ state = "OBSERVING" => asked.observe
  BY EmptySeq DEF ClientStates
<1> HIDE DEF none, state, z
<1>5. client \in Client /\ client.state = state
  BY <1>1, <1>3, <1>4 DEF Client
<1>6. MaxNotified \in Nat /\ CntLimit \in Nat /\ CntLimit > 0
  BY TransferAssumption DEF CntLimit
<1>7. cnt \in Nat /\ cnt < CntLimit /\ (asked.observe => cnt + MaxNotified < CntLimit)
  <2>1. CASE asked.observe
    <3>1. cnt \in CntStart
      BY <1>1, <2>1
    <3>2. cnt \in Nat /\ cnt + MaxNotified < CntLimit
      BY <3>1, TransferAssumption
    <3> QED BY <1>6, <2>1, <3>2
  <2>2. CASE ~asked.observe
    BY <1>1, <1>6, <2>2
  <2> QED BY <2>1, <2>2
<1>8. Taking
  <2>1. client.state = "OBSERVING" =>
          rep.ver <= MaxNotified /\ cnt + (MaxNotified - rep.ver) < CntLimit
    BY <1>2, <1>4, <1>5, <1>6, <1>7
  <2> QED BY <1>1, <1>2, <1>5, <1>7, <2>1 DEF Taking
<1> QED BY <1>1, <1>8 DEF TransferInv, RequestUnderWay, ResponseUnderWay, ServerAtWork

\* Every step of a transfer keeps TransferInv.
LEMMA TransferStep ==
  TransferInv /\ [TransferNext]_transferVars => TransferInv'
<1> SUFFICES ASSUME TransferInv, [TransferNext]_transferVars PROVE TransferInv'
  OBVIOUS
<1>1. CASE SendRequest
  BY <1>1, SendRequestStep
<1>2. CASE ReceiveResponse
  BY <1>2, ReceiveResponseStep
<1>3. CASE ReceiveUnknownResource
  BY <1>3, ReceiveUnknownResourceStep
<1>4. CASE ReceiveBadOption
  BY <1>4, ReceiveBadOptionStep
<1>5. CASE ReceiveRequest
  BY <1>5, ReceiveRequestStep
<1>6. CASE Answer
  BY <1>6, AnswerStep
<1>7. CASE FreeResponse
  BY <1>7, FreeResponseStep
<1>8. CASE NotifyObservers
  BY <1>8, NotifyObserversStep
<1>9. CASE SendNotification
  BY <1>9, SendNotificationStep
<1>10. CASE RefreshNotification
  BY <1>10, RefreshNotificationStep
<1>11. CASE ReceiveNotification
  BY <1>11, ReceiveNotificationStep
<1>12. CASE ChangeRepresentation
  BY <1>12, ChangeRepresentationStep
<1>13. CASE Lose
  BY <1>13, LoseStep
<1>14. CASE UNCHANGED transferVars
  BY <1>14, StutterStep
<1> QED
  BY <1>1, <1>2, <1>3, <1>4, <1>5, <1>6, <1>7, <1>8, <1>9, <1>10, <1>11, <1>12,
     <1>13, <1>14 DEF TransferNext

\* The invariant of every transfer: what waits on the wire was built from the
\* message last sent, that message can be packed and read, and what the server
\* works on has room for its payload (CoAP_SetPayload, CoAP_SendMsg).
THEOREM TransferInvariant == TransferSpec => []TransferInv
BY TransferStarts, TransferStep, PTL DEF TransferSpec

\* Every list of options on its way to a datagram is in ascending order: of a
\* resource, of a request, of a response and of a notification that is used
\* again and again (CoAP_AppendOptionToList).
THEOREM OptionsStaySorted == TransferSpec => []OptionsSorted
<1>1. TransferInv => OptionsSorted
  <2> SUFFICES ASSUME TransferInv PROVE OptionsSorted
    OBVIOUS
  <2>1. \A i \in 1..Len(resources) : Sorted(resources[i].uri)
    BY ResourcesAre
  <2>2. Sorted(EmptyResetMsg.opts)
    BY DEF EmptyResetMsg, Sorted
  <2>3. Sorted(sentReq.opts) /\ Sorted(sentResp.opts)
    BY <2>2 DEF TransferInv, RequestUnderWay, ResponseUnderWay, Sendable, Packable
  <2>4. resp # NULL => Sorted(resp.req.opts) /\ Sorted(resp.msg.opts)
    <3>1. CASE resp # NULL /\ Answering(resp)
      BY <3>1 DEF Answering
    <3>2. CASE resp # NULL /\ Notifying(resp)
      <4>1. Sorted(<<>>)
        BY DEF Sorted
      <4> QED BY <3>2, <4>1 DEF Notifying, Options
    <3> QED BY <3>1, <3>2 DEF TransferInv, ServerAtWork
  <2> QED BY <2>1, <2>3, <2>4 DEF OptionsSorted
<1> QED BY <1>1, TransferInvariant, PTL

\* A response owns the one block of the pool its payload lies in and no other,
\* and the payload has room there, however often the message is used again
\* (CoAP_SetPayload, CoAP_free_MsgPayload).
THEOREM PayloadsFit == TransferSpec => []PayloadFits
<1>1. TransferInv => PayloadFits
  BY DEF TransferInv, ServerAtWork, Answering, Notifying, HasRoom, PayloadFits
<1> QED BY <1>1, TransferInvariant, PTL

\* Every datagram under way has the size its buffer was made for and is read as
\* the message it was built from, and the Observe option of a notification
\* carries the counter of the change (CoAP_SendMsg, CoAP_BuildDatagram,
\* CoAP_ParseMessageFromDatagram, UpdateObserveOptionInMsg).
THEOREM DatagramsAreRead == TransferSpec => []DatagramsReadBack
<1>1. TransferInv => DatagramsReadBack
  <2> SUFFICES ASSUME TransferInv PROVE DatagramsReadBack
    OBVIOUS
  <2>1. toServer # NULL => ReadsBack(toServer, sentReq)
    BY MessageReadsBack DEF TransferInv, RequestUnderWay
  <2>2. toClient # NULL => ReadsBack(toClient, sentResp)
    BY MessageReadsBack DEF TransferInv, ResponseUnderWay
  <2>3. ASSUME resp # NULL, resp.kind = "NOTIFICATION"
        PROVE  GetObserveOptionFromMsg(resp.msg.opts) = resp.cnt
    <3>1. resp \in Work /\ Notifying(resp)
      BY <2>3 DEF TransferInv, ServerAtWork
    <3>2. resp.cnt \in Nat /\ resp.msg.opts \in Seq(Option)
      BY <3>1, FieldsOfWork, FieldsOfMessage
    <3>3. Len(resp.msg.opts) \in Nat
      BY <3>2, LenProperties
    <3> QED BY <3>1, <3>2, <3>3, CounterIsRead DEF Notifying
  <2> QED BY <2>1, <2>2, <2>3 DEF DatagramsReadBack
<1> QED BY <1>1, TransferInvariant, PTL

(***************************************************************************)
(* The options of a number, picked out of a list.                          *)
(***************************************************************************)
\* The options of a number among the first k.
PicksOneByOne(c, opts, num) ==
  /\ c \in [0..Len(opts) -> Seq(Option)]
  /\ c[0] = <<>> /\ c[Len(opts)] = OptionsWith(opts, num)
  /\ \A k \in 1..Len(opts) :
       c[k] = IF opts[k].num = num THEN Append(c[k-1], opts[k]) ELSE c[k-1]

\* Options of a number are picked one by one.
LEMMA WithChain ==
  ASSUME NEW opts \in Seq(Option), NEW num
  PROVE  \E c : PicksOneByOne(c, opts, num)
<1> DEFINE A == Seq(Option)
           B == Option
           q == opts
           Op(a, b) == IF b.num = num THEN Append(a, b) ELSE a
           F == [p \in A \X B |-> Op(p[1], p[2])]
           P(h) == h = [s \in SUBSET DOMAIN q |->
                          IF s = {} THEN <<>> ELSE Op(h[s \ {Max(s)}], q[Max(s)])]
           H == CHOOSE h : P(h)
<1>1. /\ <<>> \in A /\ q \in Seq(B)
      /\ \A a \in A, b \in B : Op(a, b) \in A
  OBVIOUS
<1>2. OptionsWith(opts, num) = H[DOMAIN q]
  BY DEF OptionsWith, FoldLeft, MapThenFoldSet
<1> HIDE DEF A, B, Op
<1>3. F \in [A \X B -> A] /\ \A a \in A, b \in B : F[<<a, b>>] = Op(a, b)
  BY <1>1
<1> HIDE DEF F, H
<1>4. P(H)
  <2>1. PICK g : IsFold(g, A, F, <<>>, q)
    BY <1>1, <1>3, FoldDefined
  <2>2. ASSUME NEW s \in SUBSET DOMAIN q
        PROVE  g[s] = IF s = {} THEN <<>> ELSE Op(g[s \ {Max(s)}], q[Max(s)])
    <3>1. CASE s = {}
      BY <2>1, <3>1 DEF IsFold
    <3>2. CASE s # {}
      <4>1. s \ {Max(s)} \in SUBSET DOMAIN q /\ q[Max(s)] \in B
        BY <1>1, <3>2, LastOfPositions
      <4>2. g[s \ {Max(s)}] \in A
        BY <2>1, <4>1 DEF IsFold
      <4> QED BY <1>3, <2>1, <3>2, <4>1, <4>2 DEF IsFold
    <3> QED BY <3>1, <3>2
  <2>3. g = [s \in SUBSET DOMAIN q |-> g[s]]
    BY <2>1 DEF IsFold
  <2>4. P(g)
    BY <2>2, <2>3
  <2> HIDE DEF P
  <2> QED BY <2>4 DEF H
<1>5. H[{}] = <<>>
  BY <1>4
<1>6. ASSUME NEW s \in SUBSET DOMAIN q, s # {}, H[s \ {Max(s)}] \in A
      PROVE  H[s] = F[<<H[s \ {Max(s)}], q[Max(s)]>>]
  <2>1. q[Max(s)] \in B
    BY <1>1, <1>6, LastOfPositions
  <2> QED BY <1>3, <1>4, <1>6, <2>1
<1> HIDE DEF P
<1>7. PICK c : IsChain(c, A, F, <<>>, q, H[DOMAIN q])
  BY <1>1, <1>3, <1>5, <1>6, FoldChain
<1>8. /\ c \in [0..Len(q) -> A] /\ c[0] = <<>> /\ c[Len(q)] = H[DOMAIN q]
      /\ \A k \in 1..Len(q) : q[k] \in B /\ c[k-1] \in A /\ c[k] = Op(c[k-1], q[k])
  <2>1. /\ c \in [0..Len(q) -> A] /\ c[0] = <<>> /\ c[Len(q)] = H[DOMAIN q]
        /\ \A k \in 1..Len(q) : c[k] = F[<<c[k-1], q[k]>>]
    BY <1>7 DEF IsChain
  <2>2. Len(q) \in Nat /\ \A k \in 1..Len(q) : q[k] \in B
    BY <1>1, LenProperties, ElementOfSeq
  <2>3. \A k \in 1..Len(q) : k-1 \in 0..Len(q)
    BY <2>2
  <2> QED BY <1>3, <2>1, <2>2, <2>3
<1>9. PicksOneByOne(c, opts, num)
  <2>1. /\ c \in [0..Len(opts) -> A] /\ c[0] = <<>>
        /\ c[Len(opts)] = OptionsWith(opts, num)
        /\ \A k \in 1..Len(opts) : c[k] = Op(c[k-1], opts[k])
    BY <1>2, <1>8
  <2> HIDE DEF q
  <2> QED BY <2>1 DEF A, Op, PicksOneByOne
<1> QED BY <1>9


\* The options with number k are those from a to b.
Slice(opts, k, a, b) ==
  /\ a \in 1..Len(opts)+1 /\ b \in a-1..Len(opts)
  /\ \A j \in 1..a-1 : opts[j].num < k
  /\ \A j \in a..b : opts[j].num = k
  /\ \A j \in b+1..Len(opts) : opts[j].num > k

\* In a sorted list they stand together.
LEMMA SliceExists ==
  ASSUME NEW opts \in Seq(Option), Sorted(opts), NEW k \in OptNum
  PROVE  \E a, b : Slice(opts, k, a, b)
<1> DEFINE n == Len(opts)
           A == {i \in 1..n+1 : i = n+1 \/ opts[i].num >= k}
           B == {i \in 1..n+1 : i = n+1 \/ opts[i].num > k}
<1>1. n \in Nat /\ k \in Nat /\ \A j \in 1..n : opts[j].num \in Nat
  BY NumbersOfOptions DEF OptNum
<1>2. \A i, j \in 1..n : i < j => opts[i].num <= opts[j].num
  BY DEF Sorted
<1> HIDE DEF n
<1>3. PICK a \in A : \A j \in A : a <= j
  <2>1. n+1 \in A /\ A \subseteq Nat
    BY <1>1
  <2> HIDE DEF A
  <2> QED BY <2>1, LeastElement
<1>4. PICK c \in B : \A j \in B : c <= j
  <2>1. n+1 \in B /\ B \subseteq Nat
    BY <1>1
  <2> HIDE DEF B
  <2> QED BY <2>1, LeastElement
<1>5. a \in 1..n+1 /\ c \in 1..n+1 /\ a \in Nat /\ c \in Nat
  BY <1>1, <1>3, <1>4
<1>6. c \in A
  BY <1>1, <1>4
<1>7. a <= c
  BY <1>3, <1>6
<1>8. ASSUME NEW j \in 1..a-1 PROVE opts[j].num < k
  <2>1. j \in 1..n /\ j < a /\ j # n+1
    BY <1>1, <1>5
  <2>2. j \notin A
    BY <1>3, <1>5, <2>1
  <2> QED BY <1>1, <2>1, <2>2
<1>9. ASSUME NEW j \in 1..n, ~(j < c) PROVE opts[j].num > k
  <2>1. c # n+1 /\ c \in 1..n
    BY <1>1, <1>5, <1>9
  <2>2. opts[c].num > k
    BY <1>4, <2>1
  <2>3. c = j \/ opts[c].num <= opts[j].num
    BY <1>2, <1>5, <1>9, <2>1
  <2> QED BY <1>1, <2>1, <2>2, <2>3
<1>10. ASSUME NEW j \in a..c-1 PROVE opts[j].num = k
  <2>1. j \in 1..n /\ j < c /\ j # n+1 /\ a # n+1 /\ a \in 1..n /\ a <= j
    BY <1>1, <1>5
  <2>2. j \notin B
    BY <1>4, <1>5, <2>1
  <2>3. ~(opts[j].num > k)
    BY <1>1, <1>5, <2>1, <2>2
  <2>4. opts[a].num >= k
    BY <1>3, <2>1
  <2>5. a = j \/ opts[a].num <= opts[j].num
    BY <1>2, <1>5, <2>1
  <2> QED BY <1>1, <2>1, <2>3, <2>4, <2>5
<1>11. Slice(opts, k, a, c-1)
  <2>1. a \in 1..n+1 /\ c-1 \in a-1..n
    BY <1>1, <1>5, <1>7
  <2>2. \A j \in (c-1)+1..n : opts[j].num > k
    <3>1. \A j \in (c-1)+1..n : j \in 1..n /\ ~(j < c)
      BY <1>1, <1>5
    <3> QED BY <1>9, <3>1
  <2> QED BY <1>8, <1>10, <2>1, <2>2 DEF Slice, n
<1> QED BY <1>11

\* A part that grows at its end.
LEMMA LongerPart ==
  ASSUME NEW S, NEW q \in Seq(S), NEW a \in 1..Len(q), NEW b \in a..Len(q)
  PROVE  SubSeq(q, a, b) = Append(SubSeq(q, a, b-1), q[b])
<1>1. a \in 1..Len(q)+1 /\ b-1 \in a-1..Len(q) /\ b \in 1..Len(q)
  BY LenProperties
<1>2. SubSeq(q, a, b-1) \in Seq(S) /\ q[b] \in S
  BY <1>1, PartOfSeq, ElementOfSeq
<1>3. SubSeq(q, a, b) = SubSeq(q, a, b-1) \o <<q[b]>>
  BY SubSeqRecursiveSecond
<1> QED BY <1>2, <1>3, AppendIsConcat

\* They are what OptionsWith returns.
LEMMA WithIsSlice ==
  ASSUME NEW opts \in Seq(Option), NEW k \in OptNum, NEW a, NEW b, Slice(opts, k, a, b)
  PROVE  OptionsWith(opts, k) = SubSeq(opts, a, b)
<1> DEFINE n == Len(opts)
<1>1. PICK c : PicksOneByOne(c, opts, k)
  BY WithChain
<1>2. /\ n \in Nat /\ a \in 1..n+1 /\ b \in a-1..n /\ k \in Nat
      /\ \A j \in 1..n : opts[j].num \in Nat
  BY NumbersOfOptions DEF Slice, OptNum
<1>a. /\ a \in Nat /\ b \in Int /\ a-1 <= b /\ b <= n
  BY <1>2
<1> DEFINE upTo(i) == IF i < b THEN i ELSE b
           S == {i \in 0..n : c[i] = IF i < a THEN <<>> ELSE SubSeq(opts, a, upTo(i))}
<1>b. \A i \in Nat : i < a => SubSeq(opts, a, i) = <<>>
  BY <1>a
<1>3. 0 \in S
  BY <1>1, <1>2, <1>a DEF PicksOneByOne
<1>4. ASSUME NEW i \in 1..n, i-1 \in S PROVE i \in S
  <2>1. c[i] = IF opts[i].num = k THEN Append(c[i-1], opts[i]) ELSE c[i-1]
    BY <1>1 DEF PicksOneByOne
  <2>2. CASE i < a
    <3>1. i \in 1..a-1 /\ i-1 < a
      BY <1>2, <1>a, <2>2
    <3>2. opts[i].num # k
      BY <1>2, <3>1 DEF Slice
    <3>3. c[i] = <<>>
      BY <1>4, <2>1, <3>1, <3>2
    <3> QED BY <1>2, <2>2, <3>3
  <2>3. CASE ~(i < a) /\ i <= b
    <3>1. i \in a..b /\ a \in 1..n /\ i \in a..n
      BY <1>2, <1>a, <2>3
    <3>2. opts[i].num = k
      BY <3>1 DEF Slice
    <3>3. c[i-1] = SubSeq(opts, a, i-1)
      <4>1. CASE i-1 < a
        <5>1. i = a
          BY <1>a, <2>3, <4>1
        <5>2. SubSeq(opts, a, i-1) = <<>>
          BY <1>a, <1>b, <5>1
        <5> QED BY <1>4, <4>1, <5>2
      <4>2. CASE ~(i-1 < a)
        <5>1. i-1 < b /\ upTo(i-1) = i-1
          BY <1>a, <2>3
        <5> HIDE DEF upTo
        <5> QED BY <1>4, <4>2, <5>1
      <4> QED BY <4>1, <4>2
    <3>4. c[i] = SubSeq(opts, a, i)
      BY <2>1, <3>1, <3>2, <3>3, LongerPart
    <3>5. upTo(i) = i
      BY <1>a, <2>3
    <3> HIDE DEF upTo
    <3> QED BY <1>2, <2>3, <3>4, <3>5
  <2>4. CASE ~(i < a) /\ ~(i <= b)
    <3>1. i \in b+1..n
      BY <1>a, <1>2, <2>4
    <3>2. opts[i].num # k
      <4>1. opts[i].num > k
        BY <3>1 DEF Slice
      <4> QED BY <1>2, <4>1
    <3>3. c[i] = c[i-1]
      BY <2>1, <3>2
    <3>4. upTo(i) = b
      BY <1>a, <2>4
    <3>5. c[i-1] = SubSeq(opts, a, b)
      <4>1. CASE i-1 < a
        <5>1. b < a
          BY <1>a, <2>4, <4>1
        <5>2. SubSeq(opts, a, b) = <<>>
          BY <1>a, <5>1
        <5> QED BY <1>4, <4>1, <5>2
      <4>2. CASE ~(i-1 < a)
        <5>1. upTo(i-1) = b
          BY <1>a, <2>4
        <5> HIDE DEF upTo
        <5> QED BY <1>4, <4>2, <5>1
      <4> QED BY <4>1, <4>2
    <3> HIDE DEF upTo
    <3> QED BY <1>2, <2>4, <3>3, <3>4, <3>5
  <2> QED BY <2>2, <2>3, <2>4
<1>5. n \in S
  <2>1. n \in 0..n
    BY <1>2
  <2> HIDE DEF S, n
  <2> QED BY <1>2, <1>3, <1>4, <2>1, StepByStep
<1>6. c[n] = OptionsWith(opts, k)
  BY <1>1 DEF PicksOneByOne
<1>7. CASE n < a
  <2>1. b < a
    BY <1>a, <1>2, <1>7
  <2>2. SubSeq(opts, a, b) = <<>>
    BY <1>a, <2>1
  <2> QED BY <1>5, <1>6, <1>7, <2>2
<1>8. CASE ~(n < a)
  <2>1. upTo(n) = b
    BY <1>a, <1>2
  <2> HIDE DEF upTo, n
  <2> QED BY <1>5, <1>6, <1>8, <2>1
<1> QED BY <1>7, <1>8

\* Two parts with the same elements are the same.
LEMMA SameParts ==
  ASSUME NEW S, NEW q \in Seq(S), NEW r \in Seq(S), NEW d \in Int,
         NEW a \in 1..Len(q)+1, NEW b \in a-1..Len(q),
         a + d \in 1..Len(r)+1, b + d \in a+d-1..Len(r),
         \A j \in a..b : r[j + d] = q[j]
  PROVE  SubSeq(r, a + d, b + d) = SubSeq(q, a, b)
<1> DEFINE old == SubSeq(q, a, b)
           new == SubSeq(r, a + d, b + d)
           x == a + d
           y == b + d
<1>1. Len(q) \in Nat /\ Len(r) \in Nat /\ a \in Int /\ b \in Int
  BY LenProperties
<1>2. old \in Seq(S) /\ Len(old) = b - a + 1 /\ \A j \in 1..b-a+1 : old[j] = q[a+j-1]
  BY PartOfSeq
<1>3. /\ SubSeq(r, x, y) \in Seq(S) /\ Len(SubSeq(r, x, y)) = y - x + 1
      /\ \A j \in 1..y-x+1 : SubSeq(r, x, y)[j] = r[x+j-1]
  <2>1. x \in 1..Len(r)+1 /\ y \in x-1..Len(r)
    BY <1>1
  <2> HIDE DEF x, y
  <2> QED BY <2>1, PartOfSeq
<1>4. new = SubSeq(r, x, y) /\ y - x = b - a
  BY <1>1
<1> HIDE DEF old, new
<1>5. new \in Seq(S) /\ Len(new) = b - a + 1 /\ \A j \in 1..b-a+1 : new[j] = r[x+j-1]
  <2> HIDE DEF x, y
  <2> QED BY <1>3, <1>4
<1>6. ASSUME NEW j \in 1..b-a+1 PROVE new[j] = old[j]
  <2>1. a+j-1 \in a..b /\ x+j-1 = (a+j-1)+d
    BY <1>1
  <2>2. r[(a+j-1)+d] = q[a+j-1]
    BY <2>1
  <2>3. new[j] = r[x+j-1] /\ old[j] = q[a+j-1]
    BY <1>2, <1>5
  <2> HIDE DEF x
  <2> QED BY <2>1, <2>2, <2>3
<1>7. new = old
  BY <1>2, <1>5, <1>6, SeqEqual
<1> QED BY <1>7 DEF new, old

\* An option more: it is the last of its number, and the others of each number
\* are the same as before.
LEMMA WithOneMore ==
  ASSUME NEW opts \in Seq(Option), Sorted(opts), NEW n \in OptNum, NEW v \in Seq(Byte),
         NEW k \in OptNum
  PROVE  OptionsWith(CoAP_AppendOptionToList(opts, n, v), k) =
           IF n = k THEN Append(OptionsWith(opts, k), CoAP_option_t(n, v))
           ELSE OptionsWith(opts, k)
<1> DEFINE new == CoAP_AppendOptionToList(opts, n, v)
           e == CoAP_option_t(n, v)
           len == Len(opts)
           p == InsertPos(opts, n)
<1>1. new \in Seq(Option) /\ Sorted(new)
  BY AppendKeepsSorted
<1>2. Inserted(new, opts, p, e)
  BY AppendInserts
<1>3. PICK a, b : Slice(opts, k, a, b)
  BY SliceExists
<1>4. e.num = n /\ n \in Nat /\ k \in Nat /\ e \in Option
  BY OneOption DEF CoAP_option_t, OptNum
<1>5. len \in Nat /\ \A j \in 1..len : opts[j].num \in Nat
  BY NumbersOfOptions
<1>6. /\ p \in 1..len+1
      /\ \A j \in 1..len : j < p => opts[j].num <= n
      /\ \A j \in 1..len : j >= p => opts[j].num > n
  <2>1. p \in 1..len+1 /\ \A j \in 1..len : j < p => opts[j].num <= n
    BY InsertPosIsBetween
  <2>2. ASSUME NEW j \in 1..len, j >= p PROVE opts[j].num > n
    <3>1. Behind(opts, n) # {}
      <4>1. ASSUME Behind(opts, n) = {} PROVE FALSE
        <5>1. p = len + 1
          BY <4>1 DEF InsertPos
        <5> QED BY <1>5, <2>2, <5>1
      <4> QED BY <4>1
    <3>2. Behind(opts, n) \subseteq Nat
      BY <1>5 DEF Behind
    <3>3. \E i \in Behind(opts, n) : \A l \in Behind(opts, n) : i <= l
      BY <3>1, <3>2, LeastElement
    <3>4. p \in Behind(opts, n)
      BY <3>1, <3>3 DEF InsertPos
    <3>5. opts[p].num > n /\ p \in 1..len
      BY <3>4 DEF Behind
    <3>6. p = j \/ opts[p].num <= opts[j].num
      <4> HIDE DEF p
      <4> QED BY <1>5, <2>2, <3>5 DEF Sorted
    <3> HIDE DEF p
    <3> QED BY <1>4, <1>5, <2>2, <3>5, <3>6
  <2> QED BY <2>1, <2>2
<1>7. /\ a \in 1..len+1 /\ b \in a-1..len
      /\ \A j \in 1..a-1 : opts[j].num < k
      /\ \A j \in a..b : opts[j].num = k
      /\ \A j \in b+1..len : opts[j].num > k
  BY <1>3 DEF Slice
<1>8. OptionsWith(opts, k) = SubSeq(opts, a, b)
  BY <1>3, WithIsSlice
<1>9. \A s, t : Slice(new, k, s, t) => OptionsWith(new, k) = SubSeq(new, s, t)
  <2> HIDE DEF new
  <2> QED BY <1>1, WithIsSlice
<1> HIDE DEF new, e, p, len
<1>10. /\ Len(new) = len + 1 /\ p \in Int /\ a \in Int /\ b \in Int /\ a - 1 <= b
       /\ \A j \in 1..len+1 :
            /\ j < p => new[j] = opts[j] /\ j \in 1..len
            /\ j = p => new[j] = e
            /\ j > p => new[j] = opts[j-1] /\ j-1 \in 1..len
  <2>1. /\ Len(new) = len + 1
        /\ \A j \in 1..len+1 :
             new[j] = IF j < p THEN opts[j] ELSE IF j = p THEN e ELSE opts[j-1]
    BY <1>2 DEF Inserted, len
  <2> QED BY <1>5, <1>6, <1>7, <2>1
<1>11. CASE n = k
  <2>1. p = b + 1
    <3>1. ~(p <= b)
      <4>1. ASSUME p <= b PROVE FALSE
        <5>1. p \in 1..len /\ (p < a => p \in 1..a-1) /\ (p >= a => p \in a..b)
          BY <1>5, <1>6, <1>7, <1>10, <4>1
        <5>2. opts[p].num > n
          BY <1>6, <1>10, <5>1
        <5>3. opts[p].num <= k
          BY <1>4, <1>5, <1>7, <5>1
        <5> QED BY <1>4, <1>5, <1>11, <5>1, <5>2, <5>3
      <4> QED BY <4>1
    <3>2. ~(p > b + 1)
      <4>1. ASSUME p > b + 1 PROVE FALSE
        <5>1. b+1 \in 1..len /\ b+1 < p /\ b+1 \in b+1..len
          BY <1>5, <1>6, <1>7, <1>10, <4>1
        <5>2. opts[b+1].num <= n
          BY <1>6, <5>1
        <5>3. opts[b+1].num > k
          BY <1>7, <5>1
        <5> QED BY <1>4, <1>5, <1>11, <5>1, <5>2, <5>3
      <4> QED BY <4>1
    <3> QED BY <1>10, <3>1, <3>2
  <2>2. Slice(new, k, a, b + 1)
    <3>1. a \in 1..Len(new)+1 /\ b + 1 \in a-1..Len(new)
      BY <1>5, <1>7, <1>10
    <3>2. ASSUME NEW j \in 1..a-1 PROVE new[j].num < k
      <4>1. j \in 1..len+1 /\ j < p
        BY <1>5, <1>7, <1>10, <2>1
      <4> QED BY <1>7, <1>10, <4>1
    <3>3. ASSUME NEW j \in a..b+1 PROVE new[j].num = k
      <4>1. j \in 1..len+1 /\ (j < p \/ j = p) /\ (j < p => j \in a..b)
        BY <1>5, <1>7, <1>10, <2>1
      <4> QED BY <1>4, <1>7, <1>10, <1>11, <4>1
    <3>4. ASSUME NEW j \in (b+1)+1..Len(new) PROVE new[j].num > k
      <4>1. j \in 1..len+1 /\ j > p /\ j-1 \in b+1..len
        BY <1>5, <1>7, <1>10, <2>1
      <4> QED BY <1>7, <1>10, <4>1
    <3> QED BY <3>1, <3>2, <3>3, <3>4 DEF Slice
  <2>3. OptionsWith(new, k) = SubSeq(new, a, b + 1)
    BY <1>9, <2>2
  <2>4. SubSeq(new, a, b + 1) = Append(SubSeq(new, a, b), new[b + 1])
    <3> DEFINE c == b + 1
    <3>1. a \in 1..Len(new) /\ c \in a..Len(new) /\ c - 1 = b
      BY <1>5, <1>7, <1>10
    <3> HIDE DEF c
    <3>2. SubSeq(new, a, c) = Append(SubSeq(new, a, c-1), new[c])
      BY <1>1, <3>1, LongerPart DEF new
    <3> QED BY <3>1, <3>2 DEF c
  <2>5. new[b + 1] = e
    <3>1. p \in 1..len+1
      BY <1>6
    <3> QED BY <1>10, <2>1, <3>1
  <2>6. SubSeq(new, a, b) = SubSeq(opts, a, b)
    <3>1. \A j \in a..b : new[j + 0] = opts[j]
      <4>1. ASSUME NEW j \in a..b PROVE new[j + 0] = opts[j]
        <5>1. j \in 1..len+1 /\ j < p /\ j + 0 = j
          BY <1>5, <1>7, <1>10, <2>1
        <5> QED BY <1>10, <5>1
      <4> QED BY <4>1
    <3>2. a + 0 = a /\ b + 0 = b /\ a \in 1..len+1 /\ b \in a-1..len
          /\ a + 0 \in 1..Len(new)+1 /\ b + 0 \in a+0-1..Len(new) /\ 0 \in Int
      BY <1>5, <1>7, <1>10
    <3>3. SubSeq(new, a + 0, b + 0) = SubSeq(opts, a, b)
      BY <1>1, <3>1, <3>2, SameParts DEF new, len
    <3> QED BY <3>2, <3>3
  <2> QED BY <1>8, <1>11, <2>3, <2>4, <2>5, <2>6 DEF new, e
<1>12. CASE n < k
  <2>1. p <= a
    <3>1. ASSUME p > a PROVE FALSE
      <4>1. a \in 1..len /\ a < p /\ (a \in a..b \/ a \in b+1..len)
        BY <1>5, <1>6, <1>7, <1>10, <3>1
      <4>2. opts[a].num <= n
        BY <1>6, <4>1
      <4>3. opts[a].num >= k
        BY <1>4, <1>5, <1>7, <4>1
      <4> QED BY <1>4, <1>5, <1>12, <4>1, <4>2, <4>3
    <3> QED BY <1>10, <3>1
  <2>2. Slice(new, k, a + 1, b + 1)
    <3>1. a + 1 \in 1..Len(new)+1 /\ b + 1 \in (a+1)-1..Len(new)
      BY <1>5, <1>7, <1>10
    <3>2. ASSUME NEW j \in 1..(a+1)-1 PROVE new[j].num < k
      <4>1. j \in 1..len+1 /\ (j < p => j \in 1..a-1) /\ (j > p => j-1 \in 1..a-1)
        BY <1>5, <1>7, <1>10, <2>1
      <4>2. j < p \/ j = p \/ j > p
        BY <1>10
      <4> QED BY <1>4, <1>7, <1>10, <1>12, <4>1, <4>2
    <3>3. ASSUME NEW j \in a+1..b+1 PROVE new[j].num = k
      <4>1. j \in 1..len+1 /\ j > p /\ j-1 \in a..b
        BY <1>5, <1>7, <1>10, <2>1
      <4> QED BY <1>7, <1>10, <4>1
    <3>4. ASSUME NEW j \in (b+1)+1..Len(new) PROVE new[j].num > k
      <4>1. j \in 1..len+1 /\ j > p /\ j-1 \in b+1..len
        BY <1>5, <1>7, <1>10, <2>1
      <4> QED BY <1>7, <1>10, <4>1
    <3> QED BY <3>1, <3>2, <3>3, <3>4 DEF Slice
  <2>3. OptionsWith(new, k) = SubSeq(new, a + 1, b + 1)
    BY <1>9, <2>2
  <2>4. SubSeq(new, a + 1, b + 1) = SubSeq(opts, a, b)
    <3>1. \A j \in a..b : new[j + 1] = opts[j]
      <4>1. ASSUME NEW j \in a..b PROVE new[j + 1] = opts[j]
        <5>1. j + 1 \in 1..len+1 /\ j + 1 > p /\ (j + 1) - 1 = j
          BY <1>5, <1>7, <1>10, <2>1
        <5> QED BY <1>10, <5>1
      <4> QED BY <4>1
    <3>2. /\ a \in 1..len+1 /\ b \in a-1..len
          /\ a + 1 \in 1..Len(new)+1 /\ b + 1 \in a+1-1..Len(new) /\ 1 \in Int
      BY <1>5, <1>7, <1>10
    <3> QED BY <1>1, <3>1, <3>2, SameParts DEF new, len
  <2>5. n # k
    BY <1>4, <1>12
  <2> QED BY <1>8, <2>3, <2>4, <2>5 DEF new
<1>13. CASE n > k
  <2>1. p >= b + 1
    <3>1. ASSUME p <= b PROVE FALSE
      <4>1. p \in 1..len /\ (p \in 1..a-1 \/ p \in a..b)
        BY <1>5, <1>6, <1>7, <1>10, <3>1
      <4>2. opts[p].num > n
        BY <1>6, <1>10, <4>1
      <4>3. opts[p].num <= k
        BY <1>4, <1>5, <1>7, <4>1
      <4> QED BY <1>4, <1>5, <1>13, <4>1, <4>2, <4>3
    <3> QED BY <1>10, <3>1
  <2>2. Slice(new, k, a, b)
    <3>1. a \in 1..Len(new)+1 /\ b \in a-1..Len(new)
      BY <1>5, <1>7, <1>10
    <3>2. ASSUME NEW j \in 1..a-1 PROVE new[j].num < k
      <4>1. j \in 1..len+1 /\ j < p
        BY <1>5, <1>7, <1>10, <2>1
      <4> QED BY <1>7, <1>10, <4>1
    <3>3. ASSUME NEW j \in a..b PROVE new[j].num = k
      <4>1. j \in 1..len+1 /\ j < p
        BY <1>5, <1>7, <1>10, <2>1
      <4> QED BY <1>7, <1>10, <4>1
    <3>4. ASSUME NEW j \in b+1..Len(new) PROVE new[j].num > k
      <4>1. /\ j \in 1..len+1 /\ (j < p => j \in b+1..len)
            /\ (j > p => j-1 \in b+1..len)
        BY <1>5, <1>7, <1>10, <2>1
      <4>2. j < p \/ j = p \/ j > p
        BY <1>10
      <4> QED BY <1>4, <1>7, <1>10, <1>13, <4>1, <4>2
    <3> QED BY <3>1, <3>2, <3>3, <3>4 DEF Slice
  <2>3. OptionsWith(new, k) = SubSeq(new, a, b)
    BY <1>9, <2>2
  <2>4. SubSeq(new, a, b) = SubSeq(opts, a, b)
    <3>1. \A j \in a..b : new[j + 0] = opts[j]
      <4>1. ASSUME NEW j \in a..b PROVE new[j + 0] = opts[j]
        <5>1. j \in 1..len+1 /\ j < p /\ j + 0 = j
          BY <1>5, <1>7, <1>10, <2>1
        <5> QED BY <1>10, <5>1
      <4> QED BY <4>1
    <3>2. a + 0 = a /\ b + 0 = b /\ a \in 1..len+1 /\ b \in a-1..len
          /\ a + 0 \in 1..Len(new)+1 /\ b + 0 \in a+0-1..Len(new) /\ 0 \in Int
      BY <1>5, <1>7, <1>10
    <3>3. SubSeq(new, a + 0, b + 0) = SubSeq(opts, a, b)
      BY <1>1, <3>1, <3>2, SameParts DEF new, len
    <3> QED BY <3>2, <3>3
  <2>5. n # k
    BY <1>4, <1>13
  <2> QED BY <1>8, <2>3, <2>4, <2>5 DEF new
<1> QED BY <1>4, <1>11, <1>12, <1>13

\* The options of a number are in the list, and those of the list are found.
LEMMA WithMembers ==
  ASSUME NEW opts \in Seq(Option), Sorted(opts), NEW k \in OptNum
  PROVE  LET with == OptionsWith(opts, k)
         IN  /\ with \in Seq(Option) /\ Len(with) \in Nat
             /\ \A i \in 1..Len(with) :
                  \E j \in 1..Len(opts) : opts[j] = with[i] /\ opts[j].num = k
             /\ \A j \in 1..Len(opts) :
                  opts[j].num = k => \E i \in 1..Len(with) : with[i] = opts[j]
<1> DEFINE with == OptionsWith(opts, k)
           n == Len(opts)
<1>1. PICK a, b : Slice(opts, k, a, b)
  BY SliceExists
<1>2. with = SubSeq(opts, a, b)
  BY <1>1, WithIsSlice
<1>3. /\ n \in Nat /\ k \in Nat /\ \A j \in 1..n : opts[j].num \in Nat
      /\ a \in 1..n+1 /\ b \in a-1..n
  BY <1>1, NumbersOfOptions DEF Slice, OptNum
<1> HIDE DEF with
<1>4. with \in Seq(Option) /\ Len(with) = b - a + 1 /\ \A j \in 1..b-a+1 : with[j] = opts[a+j-1]
  BY <1>2, <1>3, PartOfSeq
<1>5. ASSUME NEW i \in 1..Len(with)
      PROVE  \E j \in 1..Len(opts) : opts[j] = with[i] /\ opts[j].num = k
  <2>1. a+i-1 \in a..b /\ a+i-1 \in 1..n /\ i \in 1..b-a+1
    BY <1>3, <1>4
  <2>2. opts[a+i-1].num = k
    BY <1>1, <2>1 DEF Slice
  <2> QED BY <1>4, <2>1, <2>2
<1>6. ASSUME NEW j \in 1..Len(opts), opts[j].num = k
      PROVE  \E i \in 1..Len(with) : with[i] = opts[j]
  <2>1. ~(j \in 1..a-1) /\ ~(j \in b+1..n)
    <3>1. \A i \in 1..a-1 : opts[i].num < k
      BY <1>1 DEF Slice
    <3>2. \A i \in b+1..n : opts[i].num > k
      BY <1>1 DEF Slice
    <3> QED BY <1>3, <1>6, <3>1, <3>2
  <2>2. j-a+1 \in 1..b-a+1 /\ a+(j-a+1)-1 = j
    BY <1>3, <2>1
  <2> QED BY <1>4, <2>2
<1>7. Len(with) \in Nat
  BY <1>4, LenProperties
<1> QED BY <1>4, <1>5, <1>6, <1>7 DEF with

\* No option has a number iff none is found.
LEMMA WithNone ==
  ASSUME NEW opts \in Seq(Option), Sorted(opts), NEW k \in OptNum
  PROVE  OptionsWith(opts, k) = <<>> <=> \A j \in 1..Len(opts) : opts[j].num # k
<1> DEFINE with == OptionsWith(opts, k)
<1>1. /\ with \in Seq(Option) /\ Len(with) \in Nat
      /\ \A i \in 1..Len(with) :
           \E j \in 1..Len(opts) : opts[j] = with[i] /\ opts[j].num = k
      /\ \A j \in 1..Len(opts) :
           opts[j].num = k => \E i \in 1..Len(with) : with[i] = opts[j]
  BY WithMembers
<1> HIDE DEF with
<1>2. with = <<>> <=> Len(with) = 0
  BY <1>1, EmptySeq
<1>3. CASE with = <<>>
  BY <1>1, <1>2, <1>3 DEF with
<1>4. CASE with # <<>>
  <2>1. 1 \in 1..Len(with)
    BY <1>1, <1>2, <1>4
  <2> QED BY <1>1, <1>4, <2>1 DEF with
<1> QED BY <1>3, <1>4

\* Texts as options of a number.
AsOptions(n, texts) == [j \in 1..Len(texts) |-> CoAP_option_t(n, texts[j])]

\* One text more is one option more.
LEMMA OneTextMore ==
  ASSUME NEW n \in OptNum, NEW texts \in Seq(Values), NEW v \in Values
  PROVE  /\ Append(AsOptions(n, texts), CoAP_option_t(n, v)) = AsOptions(n, Append(texts, v))
         /\ AsOptions(n, <<>>) = <<>>
<1> DEFINE old == AsOptions(n, texts)
           e == CoAP_option_t(n, v)
           more == Append(texts, v)
           new == AsOptions(n, more)
<1>1. /\ Len(texts) \in Nat /\ more \in Seq(Values) /\ Len(more) = Len(texts) + 1
      /\ \A j \in 1..Len(texts) : more[j] = texts[j]
      /\ more[Len(texts)+1] = v
  BY AppendProperties, LenProperties
<1>2. e \in Option
  BY OneOption DEF Values
<1>3. old \in Seq(Option) /\ Len(old) = Len(texts)
  <2>1. \A j \in 1..Len(texts) : CoAP_option_t(n, texts[j]) \in Option
    BY OneOption, ElementOfSeq DEF Values
  <2>2. old = [j \in 1..Len(texts) |-> old[j]] /\ \A j \in 1..Len(texts) : old[j] \in Option
    BY <2>1 DEF AsOptions
  <2> HIDE DEF old
  <2> QED BY <1>1, <2>2
<1>4. new \in Seq(Option) /\ Len(new) = Len(texts) + 1
  <2> HIDE DEF more
  <2>1. \A j \in 1..Len(more) : CoAP_option_t(n, more[j]) \in Option
    BY <1>1, OneOption, ElementOfSeq DEF Values
  <2>2. new = [j \in 1..Len(more) |-> new[j]] /\ \A j \in 1..Len(more) : new[j] \in Option
    BY <2>1 DEF AsOptions
  <2>3. Len(more) \in Nat
    BY <1>1
  <2> HIDE DEF new
  <2> QED BY <1>1, <2>2, <2>3
<1>5. ASSUME NEW j \in 1..Len(texts)+1 PROVE new[j] = Append(old, e)[j]
  <2>1. j \in 1..Len(more) /\ new[j] = CoAP_option_t(n, more[j])
    BY <1>1 DEF AsOptions
  <2>2. CASE j \in 1..Len(texts)
    <3>1. old[j] = CoAP_option_t(n, texts[j])
      BY <2>2 DEF AsOptions
    <3>2. Append(old, e)[j] = old[j]
      <4> HIDE DEF old, e
      <4> QED BY <1>2, <1>3, <2>2, AppendProperties
    <3>3. more[j] = texts[j]
      BY <1>1, <2>2
    <3> HIDE DEF more
    <3> QED BY <2>1, <3>1, <3>2, <3>3
  <2>3. CASE j = Len(texts)+1
    <3>1. Append(old, e)[j] = e
      <4> HIDE DEF old, e
      <4> QED BY <1>2, <1>3, <2>3, AppendProperties
    <3>2. more[j] = v
      BY <1>1, <2>3
    <3> HIDE DEF more
    <3> QED BY <2>1, <3>1, <3>2
  <2>4. j \in 1..Len(texts) \/ j = Len(texts)+1
    BY <1>1
  <2> HIDE DEF old, e, more, new
  <2> QED BY <2>2, <2>3, <2>4
<1>6. Append(old, e) \in Seq(Option) /\ Len(Append(old, e)) = Len(texts) + 1
  <2> HIDE DEF old, e
  <2> QED BY <1>2, <1>3, AppendProperties
<1>7. Append(old, e) = new
  <2> HIDE DEF old, e, new
  <2> QED BY <1>4, <1>5, <1>6, SeqEqual
<1>8. AsOptions(n, <<>>) = <<>>
  BY DEF AsOptions
<1> QED BY <1>7, <1>8

\* The parts that are not empty among the first k.
PickedParts(c, parts) ==
  /\ c \in [0..Len(parts) -> Seq(Values)]
  /\ c[0] = <<>> /\ c[Len(parts)] = NonEmpty(parts)
  /\ \A k \in 1..Len(parts) :
       c[k] = IF parts[k] = <<>> THEN c[k-1] ELSE Append(c[k-1], parts[k])

\* Parts that are not empty are picked one by one.
LEMMA NonEmptyChain ==
  ASSUME NEW parts \in Seq(Values)
  PROVE  \E c : PickedParts(c, parts)
<1> DEFINE A == Seq(Values)
           B == Values
           q == parts
           Op(a, b) == IF b = <<>> THEN a ELSE Append(a, b)
           F == [p \in A \X B |-> Op(p[1], p[2])]
           P(h) == h = [s \in SUBSET DOMAIN q |->
                          IF s = {} THEN <<>> ELSE Op(h[s \ {Max(s)}], q[Max(s)])]
           H == CHOOSE h : P(h)
<1>1. /\ <<>> \in A /\ q \in Seq(B)
      /\ \A a \in A, b \in B : Op(a, b) \in A
  OBVIOUS
<1>2. NonEmpty(parts) = H[DOMAIN q]
  BY DEF NonEmpty, FoldLeft, MapThenFoldSet
<1> HIDE DEF A, B, Op
<1>3. F \in [A \X B -> A] /\ \A a \in A, b \in B : F[<<a, b>>] = Op(a, b)
  BY <1>1
<1> HIDE DEF F, H
<1>4. P(H)
  <2>1. PICK g : IsFold(g, A, F, <<>>, q)
    BY <1>1, <1>3, FoldDefined
  <2>2. ASSUME NEW s \in SUBSET DOMAIN q
        PROVE  g[s] = IF s = {} THEN <<>> ELSE Op(g[s \ {Max(s)}], q[Max(s)])
    <3>1. CASE s = {}
      BY <2>1, <3>1 DEF IsFold
    <3>2. CASE s # {}
      <4>1. s \ {Max(s)} \in SUBSET DOMAIN q /\ q[Max(s)] \in B
        BY <1>1, <3>2, LastOfPositions
      <4>2. g[s \ {Max(s)}] \in A
        BY <2>1, <4>1 DEF IsFold
      <4> QED BY <1>3, <2>1, <3>2, <4>1, <4>2 DEF IsFold
    <3> QED BY <3>1, <3>2
  <2>3. g = [s \in SUBSET DOMAIN q |-> g[s]]
    BY <2>1 DEF IsFold
  <2>4. P(g)
    BY <2>2, <2>3
  <2> HIDE DEF P
  <2> QED BY <2>4 DEF H
<1>5. H[{}] = <<>>
  BY <1>4
<1>6. ASSUME NEW s \in SUBSET DOMAIN q, s # {}, H[s \ {Max(s)}] \in A
      PROVE  H[s] = F[<<H[s \ {Max(s)}], q[Max(s)]>>]
  <2>1. q[Max(s)] \in B
    BY <1>1, <1>6, LastOfPositions
  <2> QED BY <1>3, <1>4, <1>6, <2>1
<1> HIDE DEF P
<1>7. PICK c : IsChain(c, A, F, <<>>, q, H[DOMAIN q])
  BY <1>1, <1>3, <1>5, <1>6, FoldChain
<1>8. /\ c \in [0..Len(q) -> A] /\ c[0] = <<>> /\ c[Len(q)] = H[DOMAIN q]
      /\ \A k \in 1..Len(q) : q[k] \in B /\ c[k-1] \in A /\ c[k] = Op(c[k-1], q[k])
  <2>1. /\ c \in [0..Len(q) -> A] /\ c[0] = <<>> /\ c[Len(q)] = H[DOMAIN q]
        /\ \A k \in 1..Len(q) : c[k] = F[<<c[k-1], q[k]>>]
    BY <1>7 DEF IsChain
  <2>2. Len(q) \in Nat /\ \A k \in 1..Len(q) : q[k] \in B
    BY <1>1, LenProperties, ElementOfSeq
  <2>3. \A k \in 1..Len(q) : k-1 \in 0..Len(q)
    BY <2>2
  <2> QED BY <1>3, <2>1, <2>2, <2>3
<1>9. PickedParts(c, parts)
  <2>1. /\ c \in [0..Len(parts) -> A] /\ c[0] = <<>>
        /\ c[Len(parts)] = NonEmpty(parts)
        /\ \A k \in 1..Len(parts) : c[k] = Op(c[k-1], parts[k])
    BY <1>2, <1>8
  <2> HIDE DEF q
  <2> QED BY <2>1 DEF A, Op, PickedParts
<1> QED BY <1>9

\* The parts of a string become the options of their number, empty ones left
\* out; options of other numbers stay as they are.
LEMMA PartsPicked ==
  ASSUME NEW opts \in Lists, NEW n \in OptNum, NEW parts \in Seq(Values), NEW k \in OptNum
  PROVE  LET new == AppendParts(opts, n, parts)
         IN  /\ k # n => OptionsWith(new, k) = OptionsWith(opts, k)
             /\ OptionsWith(opts, n) = <<>> =>
                  OptionsWith(new, n) = AsOptions(n, NonEmpty(parts))
<1> DEFINE new == AppendParts(opts, n, parts)
           len == Len(parts)
<1>1. PICK c : PartByPart(c, opts, n, parts)
  BY AppendPartsChain
<1>2. PICK d : PickedParts(d, parts)
  BY NonEmptyChain
<1>3. len \in Nat
  BY LenProperties
<1>4. /\ c[0] = opts /\ c[len] = new /\ d[0] = <<>> /\ d[len] = NonEmpty(parts)
      /\ \A i \in 1..len :
           /\ parts[i] \in Values /\ c[i-1] \in Lists /\ d[i-1] \in Seq(Values)
           /\ c[i] = WithPart(c[i-1], n, parts[i])
           /\ d[i] = IF parts[i] = <<>> THEN d[i-1] ELSE Append(d[i-1], parts[i])
  <2>1. \A i \in 1..len : i-1 \in 0..len
    BY <1>3
  <2> QED BY <1>1, <1>2, <2>1 DEF PartByPart, PickedParts
<1> HIDE DEF new, len
<1>5. \A q \in Lists : q \in Seq(Option) /\ Sorted(q)
  BY DEF Lists, Options
<1>6. \A v \in Values : v \in Seq(Byte)
  BY DEF Values
<1>7. ASSUME k # n PROVE OptionsWith(new, k) = OptionsWith(opts, k)
  <2> DEFINE S == {i \in 0..len : OptionsWith(c[i], k) = OptionsWith(opts, k)}
  <2>1. 0 \in S
    BY <1>3, <1>4
  <2>2. ASSUME NEW i \in 1..len, i-1 \in S PROVE i \in S
    <3>1. OptionsWith(c[i-1], k) = OptionsWith(opts, k)
      BY <2>2
    <3>2. CASE parts[i] = <<>>
      BY <1>4, <3>1, <3>2, <1>3 DEF WithPart
    <3>3. CASE parts[i] # <<>>
      <4>1. c[i] = CoAP_AppendOptionToList(c[i-1], n, parts[i])
        BY <1>4, <3>3 DEF WithPart
      <4>2. OptionsWith(c[i], k) = OptionsWith(c[i-1], k)
        <5> DEFINE before == c[i-1]
                   part == parts[i]
        <5>1. before \in Seq(Option) /\ Sorted(before) /\ part \in Seq(Byte)
          BY <1>4, <1>5, <1>6
        <5>2. c[i] = CoAP_AppendOptionToList(before, n, part)
          BY <4>1
        <5>3. n \in OptNum /\ k \in OptNum /\ n # k
          BY <1>7
        <5> HIDE DEF before, part
        <5>4. OptionsWith(CoAP_AppendOptionToList(before, n, part), k) = OptionsWith(before, k)
          BY ONLY <5>1, <5>3, WithOneMore
        <5> QED BY <5>2, <5>4 DEF before
      <4> QED BY <1>3, <3>1, <4>2
    <3> QED BY <3>2, <3>3
  <2>3. len \in S
    <3>1. len \in 0..len
      BY <1>3
    <3> HIDE DEF S
    <3> QED BY <1>3, <2>1, <2>2, <3>1, StepByStep
  <2> QED BY <1>4, <2>3
<1>8. ASSUME OptionsWith(opts, n) = <<>>
      PROVE  OptionsWith(new, n) = AsOptions(n, NonEmpty(parts))
  <2> DEFINE S == {i \in 0..len : OptionsWith(c[i], n) = AsOptions(n, d[i])}
  <2>1. 0 \in S
    <3>1. AsOptions(n, <<>>) = <<>>
      BY DEF AsOptions
    <3> QED BY <1>3, <1>4, <1>8, <3>1
  <2>2. ASSUME NEW i \in 1..len, i-1 \in S PROVE i \in S
    <3>1. OptionsWith(c[i-1], n) = AsOptions(n, d[i-1])
      BY <2>2
    <3>2. CASE parts[i] = <<>>
      <4>1. c[i] = c[i-1] /\ d[i] = d[i-1]
        BY <1>4, <3>2 DEF WithPart
      <4> QED BY <1>3, <3>1, <4>1
    <3>3. CASE parts[i] # <<>>
      <4>1. c[i] = CoAP_AppendOptionToList(c[i-1], n, parts[i])
            /\ d[i] = Append(d[i-1], parts[i])
        BY <1>4, <3>3 DEF WithPart
      <4>2. OptionsWith(c[i], n) = Append(OptionsWith(c[i-1], n), CoAP_option_t(n, parts[i]))
        <5> DEFINE before == c[i-1]
                   part == parts[i]
        <5>1. before \in Seq(Option) /\ Sorted(before) /\ part \in Seq(Byte)
          BY <1>4, <1>5, <1>6
        <5>2. c[i] = CoAP_AppendOptionToList(before, n, part)
          BY <4>1
        <5>3. n \in OptNum
          OBVIOUS
        <5> HIDE DEF before, part
        <5>4. OptionsWith(CoAP_AppendOptionToList(before, n, part), n) =
                Append(OptionsWith(before, n), CoAP_option_t(n, part))
          BY ONLY <5>1, <5>3, WithOneMore
        <5> QED BY <5>2, <5>4 DEF before, part
      <4>3. Append(AsOptions(n, d[i-1]), CoAP_option_t(n, parts[i])) = AsOptions(n, d[i])
        BY <1>4, <4>1, OneTextMore
      <4> QED BY <1>3, <3>1, <4>2, <4>3
    <3> QED BY <3>2, <3>3
  <2>3. len \in S
    <3>1. len \in 0..len
      BY <1>3
    <3> HIDE DEF S
    <3> QED BY <1>3, <2>1, <2>2, <3>1, StepByStep
  <2> QED BY <1>4, <2>3
<1> QED BY <1>7, <1>8 DEF new

\* The further options of a request add none of a number they do not have.
LEMMA ExtraPicked ==
  ASSUME NEW extra \in Seq(AskedOption), NEW k \in OptNum
  PROVE  OptionsWith(ExtraOptions(extra), k) = <<>> <=>
           \A i \in 1..Len(extra) : extra[i].num # k
<1> DEFINE len == Len(extra)
           None(i) == \A j \in 1..i : extra[j].num # k
<1>1. PICK c : OptionByOption(c, extra)
  BY ExtraChain
<1>2. len \in Nat
  BY LenProperties
<1>3. /\ c[0] = <<>> /\ c[len] = ExtraOptions(extra)
      /\ \A i \in 1..len :
           /\ extra[i] \in AskedOption /\ c[i-1] \in Lists
           /\ c[i] = CoAP_AppendOptionToList(c[i-1], extra[i].num, extra[i].val)
  BY <1>1 DEF OptionByOption, WithAsked
<1> HIDE DEF len
<1>4. \A q \in Lists : q \in Seq(Option) /\ Sorted(q)
  BY DEF Lists, Options
<1>5. \A o \in AskedOption : o.num \in OptNum /\ o.val \in Seq(Byte)
  BY DEF AskedOption, Option
<1> DEFINE S == {i \in 0..len : OptionsWith(c[i], k) = <<>> <=> None(i)}
<1>6. OptionsWith(<<>>, k) = <<>>
  <2>1. <<>> \in Seq(Option) /\ Sorted(<<>>) /\ Len(<<>>) = 0
    BY DEF Sorted
  <2>2. OptionsWith(<<>>, k) = <<>> <=> \A j \in 1..Len(<<>>) : <<>>[j].num # k
    BY <2>1, WithNone
  <2> QED BY <2>1, <2>2
<1>7. 0 \in S
  BY <1>2, <1>3, <1>6
<1>8. ASSUME NEW i \in 1..len, i-1 \in S PROVE i \in S
  <2> DEFINE q == c[i-1]
             e == CoAP_option_t(extra[i].num, extra[i].val)
  <2>1. OptionsWith(q, k) = <<>> <=> None(i-1)
    BY <1>8
  <2>2. OptionsWith(c[i], k) = IF extra[i].num = k THEN Append(OptionsWith(q, k), e)
                               ELSE OptionsWith(q, k)
    <3> DEFINE num == extra[i].num
               v == extra[i].val
    <3>1. q \in Seq(Option) /\ Sorted(q) /\ num \in OptNum /\ v \in Seq(Byte)
      BY <1>3, <1>4, <1>5
    <3>2. c[i] = CoAP_AppendOptionToList(q, num, v)
      BY <1>3
    <3> HIDE DEF q, num, v
    <3>3. OptionsWith(c[i], k) = IF num = k THEN Append(OptionsWith(q, k), CoAP_option_t(num, v))
                                 ELSE OptionsWith(q, k)
      BY <3>1, <3>2, WithOneMore
    <3> QED BY <3>3 DEF num, v
  <2>3. None(i) <=> None(i-1) /\ extra[i].num # k
    BY <1>2
  <2>4. Append(OptionsWith(q, k), e) # <<>>
    <3>1. OptionsWith(q, k) \in Seq(Option)
      BY <1>3, <1>4, WithMembers
    <3>2. e \in Option
      BY <1>3, <1>5, OneOption
    <3> HIDE DEF q, e
    <3>3. Append(OptionsWith(q, k), e) \in Seq(Option) /\ Len(OptionsWith(q, k)) \in Nat
          /\ Len(Append(OptionsWith(q, k), e)) = Len(OptionsWith(q, k)) + 1
      BY <3>1, <3>2, AppendProperties, LenProperties
    <3>4. Len(Append(OptionsWith(q, k), e)) # 0
      BY <3>3
    <3> QED BY <3>3, <3>4, EmptySeq
  <2> HIDE DEF None, q, e
  <2>5. OptionsWith(c[i], k) = <<>> <=> None(i)
    <3>1. CASE extra[i].num = k
      BY <2>2, <2>3, <2>4, <3>1
    <3>2. CASE extra[i].num # k
      BY <2>1, <2>2, <2>3, <3>2
    <3> QED BY <3>1, <3>2
  <2> QED BY <1>2, <2>5
<1>9. len \in S
  <2>1. len \in 0..len
    BY <1>2
  <2> HIDE DEF S
  <2> QED BY <1>2, <1>7, <1>8, <2>1, StepByStep
<1> QED BY <1>3, <1>9 DEF len

(***************************************************************************)
(* What a request asks for.                                                *)
(***************************************************************************)
\* The resources are those of the table, with its URIs as options.
LEMMA ResourcesAsTable ==
  /\ Len(Table) \in Nat /\ Len(resources) = Len(Table)
  /\ \A i \in 1..Len(Table) :
       /\ Table[i] \in TableEntry /\ resources[i].id = Table[i].id
       /\ resources[i].uri = CoAP_AppendUriOptionsFromString(<<>>, Table[i].uri)
<1> DEFINE n == Len(Table)
           Entry(r) == [id |-> r.id, uri |-> CoAP_AppendUriOptionsFromString(<<>>, r.uri)]
           A == Seq(Resource)
<1>1. PICK c : ResourceByResource(c)
  BY ResourcesChain
<1> DEFINE T == {k \in 0..n : Len(c[k]) = k /\ \A i \in 1..k : c[k][i] = Entry(Table[i])}
<1>2. /\ c \in [0..n -> A] /\ n \in Nat /\ c[0] = <<>> /\ c[n] = resources
      /\ \A k \in 1..n :
           /\ Table[k] \in TableEntry /\ c[k-1] \in A
           /\ c[k] = Append(c[k-1], Entry(Table[k]))
  BY <1>1 DEF ResourceByResource, Created, CoAP_CreateResource
<1> HIDE DEF n, Entry
<1>3. 0 \in T
  BY <1>2
<1>4. ASSUME NEW k \in 1..n, k-1 \in T PROVE k \in T
  <2> DEFINE q == c[k-1]
             e == Entry(Table[k])
             new == c[k]
  <2>1. q \in A /\ Len(q) = k-1 /\ \A i \in 1..k-1 : q[i] = Entry(Table[i])
    BY <1>2, <1>4
  <2>2. new = Append(q, e)
    BY <1>2
  <2>3. k \in 1..n /\ k \in Nat /\ k \in 0..n
    BY <1>2
  <2>4. new \in A
    BY <1>2, <2>3
  <2> HIDE DEF q, e, new
  <2>5. Len(new) = Len(q) + 1 /\ new[Len(q)+1] = e /\ \A i \in 1..Len(q) : new[i] = q[i]
    BY <2>1, <2>2 DEF A
  <2>6. ASSUME NEW i \in 1..k PROVE new[i] = Entry(Table[i])
    <3>1. i \in 1..k-1 \/ i = k
      BY <2>3
    <3>2. CASE i \in 1..k-1
      BY <2>1, <2>5, <3>2
    <3>3. CASE i = k
      <4>1. Len(q)+1 = k
        BY <2>1, <2>3
      <4> QED BY <2>5, <3>3, <4>1 DEF e
    <3> QED BY <3>1, <3>2, <3>3
  <2>7. Len(new) = k
    BY <2>1, <2>3, <2>5
  <2> QED BY <2>3, <2>6, <2>7 DEF new
<1>5. n \in T
  <2>1. n \in 0..n
    BY <1>2
  <2> HIDE DEF T
  <2> QED BY <1>2, <1>3, <1>4, <2>1, StepByStep
<1>6. Len(resources) = n /\ \A i \in 1..n : resources[i] = Entry(Table[i])
  BY <1>2, <1>5
<1>7. \A i \in 1..n : /\ resources[i].id = Table[i].id
                      /\ resources[i].uri = CoAP_AppendUriOptionsFromString(<<>>, Table[i].uri)
  <2>1. \A r : /\ Entry(r).id = r.id
              /\ Entry(r).uri = CoAP_AppendUriOptionsFromString(<<>>, r.uri)
    BY DEF Entry
  <2> QED BY <1>6, <2>1
<1>8. n \in Nat /\ \A i \in 1..n : Table[i] \in TableEntry
  BY <1>2
<1> QED BY <1>6, <1>7, <1>8 DEF n

\* The numbers of the options of a request.
LEMMA RequestNumbers ==
  /\ OPT_NUM_URI_PATH \in OptNum /\ OPT_NUM_URI_QUERY \in OptNum /\ OPT_BLOCK2 \in OptNum
  /\ OPT_NUM_URI_PATH # OPT_NUM_URI_QUERY /\ OPT_NUM_URI_PATH # OPT_BLOCK2
  /\ OPT_NUM_URI_QUERY # OPT_BLOCK2 /\ OPT_NUM_CONTENT_FORMAT # OPT_BLOCK2
  /\ OPT_NUM_CONTENT_FORMAT \in OptNum /\ OPT_NUM_OBSERVE \in OptNum
BY DEF OPT_NUM_URI_PATH, OPT_NUM_URI_QUERY, OPT_BLOCK2, OPT_NUM_CONTENT_FORMAT,
       OPT_NUM_OBSERVE, OptNum

\* The parts of a path and of a query are values of options.
LEMMA UriParts ==
  ASSUME NEW str \in Values
  PROVE  /\ Parts(SubSeq(str, 1, PathEnd(str) - 1), {Slash, Space}) \in Seq(Values)
         /\ Parts(SubSeq(str, PathEnd(str) + 1, Len(str)), {Ampersand}) \in Seq(Values)
<1> DEFINE len == Len(str)
           e == PathEnd(str)
           path == SubSeq(str, 1, e - 1)
           query == SubSeq(str, e + 1, len)
<1>1. str \in Seq(Byte) /\ len \in Nat /\ len <= MAX_OPTION_VALUE_SIZE /\ e \in 1..len + 1
  BY PathEndIs, LenProperties DEF Values
<1> HIDE DEF e
<1>2. path \in Seq(Byte) /\ Len(path) = e - 1
  <2>1. 1 \in 1..Len(str) + 1 /\ e - 1 \in 1 - 1..Len(str) /\ (e - 1) - 1 + 1 = e - 1
    BY <1>1
  <2> QED BY <1>1, <2>1, PartOfSeq
<1>3. query \in Seq(Byte) /\ Len(query) \in Nat /\ Len(query) <= len
  <2>1. CASE e <= len
    <3>1. e + 1 \in 1..Len(str) + 1 /\ len \in (e + 1) - 1..Len(str)
      BY <1>1, <2>1
    <3>2. query \in Seq(Byte) /\ Len(query) = len - (e + 1) + 1
      BY <1>1, <3>1, PartOfSeq
    <3> HIDE DEF query, len
    <3> QED BY <1>1, <2>1, <3>2
  <2>2. CASE ~(e <= len)
    <3>1. e = len + 1
      BY <1>1, <2>2
    <3>2. query = <<>>
      BY <1>1, <3>1
    <3>3. ASSUME NEW q, q = <<>> PROVE q \in Seq(Byte) /\ Len(q) = 0
      BY <3>3
    <3> HIDE DEF query, len
    <3>4. query \in Seq(Byte) /\ Len(query) = 0
      BY <3>2, <3>3
    <3> QED BY <1>1, <3>1, <3>4
  <2> QED BY <2>1, <2>2
<1> HIDE DEF path, query, len
<1>4. Len(path) <= MAX_OPTION_VALUE_SIZE /\ Len(query) <= MAX_OPTION_VALUE_SIZE
  BY <1>1, <1>2, <1>3, WireAssumption
<1>5. Parts(path, {Slash, Space}) \in Seq(Values) /\ Parts(query, {Ampersand}) \in Seq(Values)
  BY <1>2, <1>3, <1>4, PartsAreValues
<1> QED BY <1>5 DEF path, query, len, e

\* The options of a URI are the parts of its path and of its query.
LEMMA UriPicked ==
  ASSUME NEW opts \in Lists, NEW str \in Values,
         OptionsWith(opts, OPT_NUM_URI_PATH) = <<>>,
         OptionsWith(opts, OPT_NUM_URI_QUERY) = <<>>
  PROVE  LET new == CoAP_AppendUriOptionsFromString(opts, str)
         IN  /\ new \in Lists
             /\ OptionsWith(new, OPT_NUM_URI_PATH) = AsOptions(OPT_NUM_URI_PATH, PathParts(str))
             /\ OptionsWith(new, OPT_NUM_URI_QUERY) = AsOptions(OPT_NUM_URI_QUERY, QueryParts(str))
             /\ \A k \in OptNum \ {OPT_NUM_URI_PATH, OPT_NUM_URI_QUERY} :
                  OptionsWith(new, k) = OptionsWith(opts, k)
<1> DEFINE pp == Parts(SubSeq(str, 1, PathEnd(str) - 1), {Slash, Space})
           qp == Parts(SubSeq(str, PathEnd(str) + 1, Len(str)), {Ampersand})
           with == AppendParts(opts, OPT_NUM_URI_PATH, pp)
           all == AppendParts(with, OPT_NUM_URI_QUERY, qp)
<1>1. CoAP_AppendUriOptionsFromString(opts, str) = all
  BY DEF CoAP_AppendUriOptionsFromString, ParseUriQueryFromStringToOption
<1>2. PathParts(str) = NonEmpty(pp) /\ QueryParts(str) = NonEmpty(qp)
  BY DEF PathParts, QueryParts
<1>3. pp \in Seq(Values) /\ qp \in Seq(Values)
  BY UriParts
<1> HIDE DEF pp, qp
<1>4. with \in Lists
  <2>1. Options(opts, Len(opts)) /\ Len(opts) \in Nat
    BY LenProperties DEF Lists
  <2>2. Options(with, Len(opts) + Len(pp))
    BY <1>3, <2>1, PartsAdded, RequestNumbers
  <2> HIDE DEF with
  <2> QED BY <2>2, ListOf
<1>5. all \in Lists
  <2> HIDE DEF with
  <2>1. Options(with, Len(with)) /\ Len(with) \in Nat
    BY <1>4, LenProperties DEF Lists
  <2>2. Options(all, Len(with) + Len(qp))
    BY <1>3, <2>1, PartsAdded, RequestNumbers
  <2> HIDE DEF all
  <2> QED BY <2>2, ListOf
<1>6. /\ OptionsWith(with, OPT_NUM_URI_PATH) = AsOptions(OPT_NUM_URI_PATH, NonEmpty(pp))
      /\ \A k \in OptNum : k # OPT_NUM_URI_PATH => OptionsWith(with, k) = OptionsWith(opts, k)
  BY <1>3, PartsPicked, RequestNumbers
<1> HIDE DEF with
<1>7. OptionsWith(with, OPT_NUM_URI_QUERY) = <<>>
  BY <1>6, RequestNumbers
<1>8. /\ OptionsWith(all, OPT_NUM_URI_QUERY) = AsOptions(OPT_NUM_URI_QUERY, NonEmpty(qp))
      /\ \A k \in OptNum : k # OPT_NUM_URI_QUERY => OptionsWith(all, k) = OptionsWith(with, k)
  BY <1>3, <1>4, <1>7, PartsPicked, RequestNumbers
<1> HIDE DEF all
<1>9. OptionsWith(all, OPT_NUM_URI_PATH) = AsOptions(OPT_NUM_URI_PATH, NonEmpty(pp))
  BY <1>6, <1>8, RequestNumbers
<1>10. \A k \in OptNum \ {OPT_NUM_URI_PATH, OPT_NUM_URI_QUERY} :
         OptionsWith(all, k) = OptionsWith(opts, k)
  BY <1>6, <1>8
<1> QED BY <1>1, <1>2, <1>5, <1>8, <1>9, <1>10

\* A request that does not observe: what it asks for, in proper types.
LEMMA AskedParts ==
  ASSUME asked \in Requests
  PROVE  asked.uri \in Values /\ asked.extra \in Seq(AskedOption)
<1> DEFINE q == asked.extra
<1>1. /\ asked.uri \in Seq(Byte) /\ Len(asked.uri) <= MAX_OPTION_VALUE_SIZE
      /\ q \in Seq(Option)
      /\ \A i \in 1..Len(q) : Len(q[i].val) <= MAX_OPTION_VALUE_SIZE
  BY AskedIsProper DEF ClientRequest
<1> HIDE DEF q
<1>2. \A i \in 1..Len(q) : q[i] \in AskedOption
  BY <1>1, ElementOfSeq DEF AskedOption
<1>3. q \in Seq(AskedOption)
  <2> DEFINE k == Len(q)
  <2>1. k \in Nat /\ DOMAIN q = 1..k /\ q = [i \in DOMAIN q |-> q[i]]
    BY <1>1, LenProperties
  <2>2. [i \in 1..k |-> q[i]] \in [1..k -> AskedOption]
    BY <1>2
  <2> HIDE DEF k
  <2> QED BY <2>1, <2>2
<1> QED BY <1>1, <1>3 DEF Values, q

\* The Block2 options of a request.
WishOptions ==
  IF client.size = 0 THEN <<>> ELSE <<CoAP_option_t(OPT_BLOCK2, BlockBytes(Block2Wish))>>

\* The options of a request, number by number.
LEMMA RequestPicked ==
  ASSUME asked \in Requests, ~asked.observe, client \in Client
  PROVE  LET R == RequestOptions
         IN  /\ R \in Seq(Option) /\ Sorted(R)
             /\ OptionsWith(R, OPT_NUM_URI_PATH) = AsOptions(OPT_NUM_URI_PATH, PathParts(asked.uri))
             /\ OptionsWith(R, OPT_NUM_URI_QUERY)
                  = AsOptions(OPT_NUM_URI_QUERY, QueryParts(asked.uri))
             /\ OptionsWith(R, OPT_BLOCK2) = WishOptions
             /\ \A k \in OptNum \ {OPT_NUM_URI_PATH, OPT_NUM_URI_QUERY, OPT_BLOCK2} :
                  OptionsWith(R, k) = OptionsWith(ExtraOptions(asked.extra), k)
<1> DEFINE extra == ExtraOptions(asked.extra)
           uri == CoAP_AppendUriOptionsFromString(extra, asked.uri)
           v == BlockBytes(Block2Wish)
           blk == CoAP_AppendOptionToList(uri, OPT_BLOCK2, v)
           R == RequestOptions
<1>1. asked.uri \in Values /\ asked.extra \in Seq(AskedOption)
  BY AskedParts
<1>2. \A i \in 1..Len(asked.extra) :
        asked.extra[i].num \notin {OPT_NUM_URI_PATH, OPT_NUM_URI_QUERY, OPT_BLOCK2}
  BY RequestAssumption
<1>3. R = IF client.size = 0 THEN uri ELSE blk
  BY DEF RequestOptions, AddBlkOptionToMsg
<1>4. extra \in Lists
  <2>1. Options(extra, Len(asked.extra))
    BY <1>1, ExtraAdded
  <2> HIDE DEF extra
  <2> QED BY <2>1, ListOf
<1>5. /\ OptionsWith(extra, OPT_NUM_URI_PATH) = <<>>
      /\ OptionsWith(extra, OPT_NUM_URI_QUERY) = <<>>
      /\ OptionsWith(extra, OPT_BLOCK2) = <<>>
  BY <1>1, <1>2, ExtraPicked, RequestNumbers
<1> HIDE DEF extra
<1>6. /\ uri \in Lists
      /\ OptionsWith(uri, OPT_NUM_URI_PATH) = AsOptions(OPT_NUM_URI_PATH, PathParts(asked.uri))
      /\ OptionsWith(uri, OPT_NUM_URI_QUERY) = AsOptions(OPT_NUM_URI_QUERY, QueryParts(asked.uri))
      /\ \A k \in OptNum \ {OPT_NUM_URI_PATH, OPT_NUM_URI_QUERY} :
           OptionsWith(uri, k) = OptionsWith(extra, k)
  BY <1>1, <1>4, <1>5, UriPicked
<1> HIDE DEF uri
<1>7. OptionsWith(uri, OPT_BLOCK2) = <<>>
  BY <1>5, <1>6, RequestNumbers
<1>8. R \in Seq(Option) /\ Sorted(R)
  <2>1. Packable(R)
    BY RequestPacks
  <2> HIDE DEF R
  <2> QED BY <2>1 DEF Packable
<1>9. CASE client.size = 0
  <2>1. R = uri /\ WishOptions = <<>>
    BY <1>3, <1>9 DEF WishOptions
  <2> HIDE DEF R
  <2>2. /\ OptionsWith(R, OPT_BLOCK2) = WishOptions
        /\ \A k \in OptNum \ {OPT_NUM_URI_PATH, OPT_NUM_URI_QUERY, OPT_BLOCK2} :
             OptionsWith(R, k) = OptionsWith(extra, k)
    BY <1>6, <1>7, <2>1
  <2> QED BY <1>6, <1>8, <2>1, <2>2 DEF R, extra
<1>10. CASE client.size # 0
  <2>1. R = blk /\ WishOptions = <<CoAP_option_t(OPT_BLOCK2, v)>>
    BY <1>3, <1>10 DEF WishOptions
  <2>2. v \in Seq(Byte)
    <3> DEFINE s == client.size
               g == Len(client.got)
    <3>1. s \in BlockSizeValues
      BY <1>10 DEF Client
    <3>2. s \in Nat \ {0}
      BY <3>1 DEF BlockSizeValues
    <3>3. g \in Nat
      BY LenProperties DEF Client
    <3>4. Block2Wish = [num |-> g \div s, size |-> s, more |-> FALSE]
      BY <1>10 DEF Block2Wish
    <3> HIDE DEF s, g
    <3>5. g \div s \in Nat
      BY <3>2, <3>3
    <3>6. Block2Wish.num \in Nat /\ Block2Wish.size \in BlockSizeValues
      BY <3>1, <3>4, <3>5
    <3> QED BY <3>6, BlockBytesType
  <2>3. uri \in Seq(Option) /\ Sorted(uri)
    BY <1>6 DEF Lists, Options
  <2> HIDE DEF v
  <2>4. \A k \in OptNum :
          OptionsWith(blk, k) = IF OPT_BLOCK2 = k
                                THEN Append(OptionsWith(uri, k), CoAP_option_t(OPT_BLOCK2, v))
                                ELSE OptionsWith(uri, k)
    BY <2>2, <2>3, WithOneMore, RequestNumbers
  <2> HIDE DEF blk, R
  <2>5. OptionsWith(blk, OPT_BLOCK2) = Append(<<>>, CoAP_option_t(OPT_BLOCK2, v))
    BY <1>7, <2>4, RequestNumbers
  <2>6. OptionsWith(blk, OPT_BLOCK2) = <<CoAP_option_t(OPT_BLOCK2, v)>>
    BY <2>5
  <2>7. \A k \in OptNum : OPT_BLOCK2 # k => OptionsWith(blk, k) = OptionsWith(uri, k)
    BY <2>4
  <2>8. /\ OptionsWith(R, OPT_BLOCK2) = WishOptions
        /\ OptionsWith(R, OPT_NUM_URI_PATH) = OptionsWith(uri, OPT_NUM_URI_PATH)
        /\ OptionsWith(R, OPT_NUM_URI_QUERY) = OptionsWith(uri, OPT_NUM_URI_QUERY)
    BY <2>1, <2>6, <2>7, RequestNumbers
  <2>9. \A k \in OptNum \ {OPT_NUM_URI_PATH, OPT_NUM_URI_QUERY, OPT_BLOCK2} :
          OptionsWith(R, k) = OptionsWith(extra, k)
    BY <1>6, <2>1, <2>7
  <2> QED BY <1>6, <1>8, <2>8, <2>9 DEF R, extra
<1> QED BY <1>9, <1>10

(***************************************************************************)
(* The server reads the request as the client means it.                    *)
(***************************************************************************)
\* An empty list has no options of any number.
LEMMA NoneOfNone ==
  ASSUME NEW k \in OptNum
  PROVE  OptionsWith(<<>>, k) = <<>>
<1>1. <<>> \in Seq(Option) /\ Sorted(<<>>) /\ Len(<<>>) = 0
  BY DEF Sorted
<1>2. OptionsWith(<<>>, k) = <<>> <=> \A j \in 1..Len(<<>>) : <<>>[j].num # k
  BY <1>1, WithNone
<1> QED BY <1>1, <1>2

\* Different texts are different options.
LEMMA SameTexts ==
  ASSUME NEW n, NEW a \in Seq(Values), NEW b \in Seq(Values)
  PROVE  AsOptions(n, a) = AsOptions(n, b) <=> a = b
<1>1. ASSUME AsOptions(n, a) = AsOptions(n, b) PROVE a = b
  <2>1. Len(a) \in Nat /\ Len(b) \in Nat
    BY LenProperties
  <2>2. /\ DOMAIN AsOptions(n, a) = 1..Len(a) /\ DOMAIN AsOptions(n, b) = 1..Len(b)
        /\ \A j \in 1..Len(a) : AsOptions(n, a)[j].val = a[j]
        /\ \A j \in 1..Len(b) : AsOptions(n, b)[j].val = b[j]
    BY DEF AsOptions, CoAP_option_t
  <2>3. 1..Len(a) = 1..Len(b)
    BY <1>1, <2>2
  <2>4. Len(a) = Len(b)
    <3> DEFINE x == Len(a)
               y == Len(b)
    <3>1. 1..x = 1..y /\ x \in Nat /\ y \in Nat
      BY <2>1, <2>3
    <3> HIDE DEF x, y
    <3>2. ~(x < y)
      <4>1. y \in 1..y => y \in 1..x
        BY <3>1
      <4> QED BY <3>1, <4>1
    <3>3. ~(y < x)
      <4>1. x \in 1..x => x \in 1..y
        BY <3>1
      <4> QED BY <3>1, <4>1
    <3>4. x = y
      BY <3>1, <3>2, <3>3
    <3> QED BY <3>4 DEF x, y
  <2>5. \A j \in 1..Len(a) : a[j] = b[j]
    BY <1>1, <2>2, <2>4
  <2> QED BY <2>4, <2>5, SeqEqual
<1> QED BY <1>1

\* The parts of a URI are texts.
LEMMA PartsOfUri ==
  ASSUME NEW str \in Values
  PROVE  PathParts(str) \in Seq(Values) /\ QueryParts(str) \in Seq(Values)
<1>1. \A parts \in Seq(Values) : NonEmpty(parts) \in Seq(Values)
  <2>1. SUFFICES ASSUME NEW parts \in Seq(Values) PROVE NonEmpty(parts) \in Seq(Values)
    OBVIOUS
  <2> DEFINE n == Len(parts)
             A == Seq(Values)
  <2>2. PICK c : PickedParts(c, parts)
    BY NonEmptyChain
  <2>3. n \in Nat
    BY LenProperties
  <2>4. c \in [0..n -> A] /\ c[n] = NonEmpty(parts)
    BY <2>2 DEF PickedParts
  <2>5. n \in 0..n
    BY <2>3
  <2> HIDE DEF n, A
  <2>6. NonEmpty(parts) \in A
    BY <2>4, <2>5
  <2> QED BY <2>6 DEF A
<1> QED BY <1>1, UriParts DEF PathParts, QueryParts

\* The server finds the resource the request means.
LEMMA MeantIsFound ==
  ASSUME asked \in Requests, ~asked.observe, client \in Client
  PROVE  CoAP_FindResourceByUri(resources, RequestOptions) = Meant(asked)
<1> DEFINE n == Len(resources)
           fit == {i \in 1..n : CoAP_UriOptionsAreEqual(resources[i].uri, RequestOptions)}
           its == WithItsPath(asked)
           p == CHOOSE i \in fit : \A j \in fit : i <= j
           q == CHOOSE i \in its : \A j \in its : i <= j
<1>1. /\ n \in Nat /\ n = Len(Table)
      /\ \A i \in 1..n :
           /\ Table[i] \in TableEntry /\ resources[i].id = Table[i].id
           /\ resources[i].uri = CoAP_AppendUriOptionsFromString(<<>>, Table[i].uri)
  BY ResourcesAsTable
<1>2. asked.uri \in Values
  BY AskedParts
<1>3. OptionsWith(RequestOptions, OPT_NUM_URI_PATH)
        = AsOptions(OPT_NUM_URI_PATH, PathParts(asked.uri))
  BY RequestPicked
<1>4. ASSUME NEW i \in 1..n
      PROVE  CoAP_UriOptionsAreEqual(resources[i].uri, RequestOptions)
               <=> PathParts(Table[i].uri) = PathParts(asked.uri)
  <2>1. Table[i].uri \in Values
    BY <1>1 DEF TableEntry
  <2>2. resources[i].uri = CoAP_AppendUriOptionsFromString(<<>>, Table[i].uri)
    BY <1>1
  <2>3. /\ OptionsWith(<<>>, OPT_NUM_URI_PATH) = <<>>
        /\ OptionsWith(<<>>, OPT_NUM_URI_QUERY) = <<>>
    BY NoneOfNone, RequestNumbers
  <2>4. OptionsWith(resources[i].uri, OPT_NUM_URI_PATH)
          = AsOptions(OPT_NUM_URI_PATH, PathParts(Table[i].uri))
    BY <2>1, <2>2, <2>3, EmptyList, UriPicked
  <2>5. PathParts(Table[i].uri) \in Seq(Values) /\ PathParts(asked.uri) \in Seq(Values)
    BY <1>2, <2>1, PartsOfUri
  <2> QED BY <1>3, <2>4, <2>5, SameTexts DEF CoAP_UriOptionsAreEqual
<1>5. fit = its
  <2>1. its = {i \in 1..n : PathParts(Table[i].uri) = PathParts(asked.uri)}
    BY <1>1 DEF WithItsPath
  <2> QED BY <1>4, <2>1
<1>6. p = q
  BY <1>5
<1>7. CoAP_FindResourceByUri(resources, RequestOptions)
        = IF fit = {} THEN NoResource ELSE resources[p].id
  BY DEF CoAP_FindResourceByUri
<1>8. Meant(asked) = IF its = {} THEN NoResource ELSE Table[q].id
  BY DEF Meant
<1>9. fit \subseteq Nat /\ fit \subseteq 1..n
  BY <1>1
<1> HIDE DEF fit, its, n
<1>10. fit # {} => p \in fit
  <2>1. fit # {} => \E i \in fit : \A j \in fit : i <= j
    BY <1>9, LeastElement
  <2> QED BY <2>1
<1> HIDE DEF p, q
<1>11. fit # {} => resources[p].id = Table[p].id
  BY <1>1, <1>9, <1>10
<1> QED BY <1>5, <1>6, <1>7, <1>8, <1>11

\* Whether there is an option the server neither knows nor may ignore.
LEMMA CriticalIsSeen ==
  ASSUME NEW opts \in Seq(Option), Sorted(opts)
  PROVE  CoAP_CheckForUnknownCriticalOption(opts) # 0 <=>
           \E k \in OptNum \ KNOWN_OPTIONS : IsCritical(k) /\ OptionsWith(opts, k) # <<>>
<1> DEFINE n == Len(opts)
           un == UnknownCritical(opts)
           p == CHOOSE i \in un : \A j \in un : i <= j
<1>1. n \in Nat /\ \A j \in 1..n : opts[j].num \in Nat /\ opts[j].num \in OptNum
  BY NumbersOfOptions DEF OptNum
<1>2. un = {i \in 1..n : opts[i].num \notin KNOWN_OPTIONS /\ IsCritical(opts[i].num)}
  BY DEF UnknownCritical
<1>3. CoAP_CheckForUnknownCriticalOption(opts) = IF un = {} THEN 0 ELSE opts[p].num
  BY DEF CoAP_CheckForUnknownCriticalOption
<1>4. un \subseteq Nat
  BY <1>1, <1>2
<1> HIDE DEF n, un
<1>5. un # {} => p \in un
  <2>1. un # {} => \E i \in un : \A j \in un : i <= j
    BY <1>4, LeastElement
  <2> QED BY <2>1
<1> HIDE DEF p
<1>6. un # {} => opts[p].num # 0
  <2>1. \A k \in Nat : IsCritical(k) => k # 0
    BY DEF IsCritical
  <2> QED BY <1>1, <1>2, <1>5, <2>1
<1>7. ASSUME NEW i \in un
      PROVE  \E k \in OptNum \ KNOWN_OPTIONS : IsCritical(k) /\ OptionsWith(opts, k) # <<>>
  <2> DEFINE k == opts[i].num
  <2>1. i \in 1..n /\ k \in OptNum \ KNOWN_OPTIONS /\ IsCritical(k)
    BY <1>1, <1>2
  <2>2. OptionsWith(opts, k) # <<>>
    BY <2>1, WithNone DEF n
  <2> QED BY <2>1, <2>2
<1>8. ASSUME NEW k \in OptNum \ KNOWN_OPTIONS, IsCritical(k), OptionsWith(opts, k) # <<>>
      PROVE  un # {}
  <2>1. PICK j \in 1..n : opts[j].num = k
    BY <1>8, WithNone DEF n
  <2> QED BY <1>2, <1>8, <2>1
<1> QED BY <1>3, <1>6, <1>7, <1>8

\* The server sees an option it does not know iff the request has one.
LEMMA UnknownIsSeen ==
  ASSUME asked \in Requests, ~asked.observe, client \in Client
  PROVE  CoAP_CheckForUnknownCriticalOption(RequestOptions) # 0 <=> AsksUnknown(asked)
<1> DEFINE R == RequestOptions
           extra == asked.extra
           Own == {OPT_NUM_URI_PATH, OPT_NUM_URI_QUERY, OPT_BLOCK2}
<1>1. /\ R \in Seq(Option) /\ Sorted(R)
      /\ \A k \in OptNum \ Own : OptionsWith(R, k) = OptionsWith(ExtraOptions(extra), k)
  BY RequestPicked
<1>2. extra \in Seq(AskedOption)
  BY AskedParts
<1>3. Own \subseteq KNOWN_OPTIONS
  BY DEF KNOWN_OPTIONS
<1>4. \A i \in 1..Len(extra) : extra[i].num \in OptNum
  BY <1>2, ElementOfSeq DEF AskedOption, Option
<1> HIDE DEF R, extra
<1>5. CoAP_CheckForUnknownCriticalOption(R) # 0 <=>
        \E k \in OptNum \ KNOWN_OPTIONS : IsCritical(k) /\ OptionsWith(R, k) # <<>>
  BY <1>1, CriticalIsSeen
<1>6. \A k \in OptNum \ KNOWN_OPTIONS :
        OptionsWith(R, k) # <<>> <=> \E i \in 1..Len(extra) : extra[i].num = k
  <2>1. SUFFICES ASSUME NEW k \in OptNum \ KNOWN_OPTIONS
                 PROVE  OptionsWith(R, k) # <<>> <=> \E i \in 1..Len(extra) : extra[i].num = k
    OBVIOUS
  <2>2. k \in OptNum \ Own
    BY <1>3
  <2>3. OptionsWith(R, k) = OptionsWith(ExtraOptions(extra), k)
    BY <1>1, <2>2
  <2>4. OptionsWith(ExtraOptions(extra), k) = <<>> <=>
          \A i \in 1..Len(extra) : extra[i].num # k
    BY <1>2, ExtraPicked
  <2> QED BY <2>3, <2>4
<1>7. AsksUnknown(asked) <=>
        \E i \in 1..Len(extra) : extra[i].num \notin KNOWN_OPTIONS /\ IsCritical(extra[i].num)
  BY DEF AsksUnknown, extra
<1>8. CoAP_CheckForUnknownCriticalOption(R) # 0 <=> AsksUnknown(asked)
  BY <1>4, <1>5, <1>6, <1>7
<1> QED BY <1>8 DEF R

\* The key of a request is found among its options.
LEMMA KeyIsFound ==
  ASSUME asked \in Requests, ~asked.observe, client \in Client, HasKey(asked)
  PROVE  KeyOk(RequestOptions)
<1> DEFINE R == RequestOptions
           parts == QueryParts(asked.uri)
           with == OptionsWith(R, OPT_NUM_URI_QUERY)
           key == KeyPrefix \o WIFI_RES_KEY
<1>1. /\ R \in Seq(Option) /\ Sorted(R) /\ with = AsOptions(OPT_NUM_URI_QUERY, parts)
  BY RequestPicked
<1>2. parts \in Seq(Values)
  BY AskedParts, PartsOfUri
<1>3. PICK i \in 1..Len(parts) : parts[i] = key
  BY DEF HasKey
<1> HIDE DEF R, parts
<1>4. Len(with) = Len(parts) /\ with[i] = CoAP_option_t(OPT_NUM_URI_QUERY, key)
  <2>1. Len(parts) \in Nat
    BY <1>2, LenProperties
  <2> HIDE DEF with, key
  <2> QED BY <1>1, <1>3, <2>1 DEF AsOptions
<1>5. PICK j \in 1..Len(R) : R[j] = with[i]
  <2>0. R \in Seq(Option) /\ Sorted(R)
    BY <1>1
  <2>1. \A l \in 1..Len(with) :
          \E j \in 1..Len(R) : R[j] = with[l] /\ R[j].num = OPT_NUM_URI_QUERY
    BY <2>0, WithMembers, RequestNumbers
  <2> HIDE DEF with
  <2> QED BY <1>3, <1>4, <2>1
<1> DEFINE o == R[j]
<1>6. o.num = OPT_NUM_URI_QUERY /\ o.val = <<107, 61, 49>>
  <2>1. key = <<107, 61, 49>>
    <3> DEFINE a == <<107, 61>>
               z == 49
    <3>1. a \in Seq(Nat) /\ z \in Nat
      OBVIOUS
    <3>2. key = a \o <<z>>
      BY DEF KeyPrefix, WIFI_RES_KEY
    <3>3. Append(a, z) = <<107, 61, 49>>
      <4> DEFINE q == Append(a, z)
      <4>1. Len(a) = 2 /\ a[1] = 107 /\ a[2] = 61
        OBVIOUS
      <4> HIDE DEF a
      <4>2. /\ q \in Seq(Nat) /\ Len(q) = Len(a) + 1 /\ q[Len(a)+1] = z
            /\ \A k \in 1..Len(a) : q[k] = a[k]
        BY <3>1, AppendProperties
      <4> HIDE DEF q
      <4>3. q \in Seq(Nat) /\ Len(q) = 3 /\ q[1] = 107 /\ q[2] = 61 /\ q[3] = 49
        BY <4>1, <4>2
      <4>4. q = <<107, 61, 49>>
        BY <4>3
      <4> QED BY <4>4 DEF q
    <3> HIDE DEF a, z, key
    <3>4. Append(a, z) = a \o <<z>>
      BY <3>1, AppendIsConcat
    <3> QED BY <3>2, <3>3, <3>4
  <2> HIDE DEF key, with
  <2> QED BY <1>4, <1>5, <2>1 DEF CoAP_option_t
<1> HIDE DEF o, with, key
<1>7. CoAP_GetUriQueryVal(o, KeyPrefix) = <<49>>
  <2>1. Len(<<107, 61, 49>>) = 3 /\ Len(KeyPrefix) = 2
    BY DEF KeyPrefix
  <2>2. SubSeq(<<107, 61, 49>>, 3, 3) = <<49>>
    <3> DEFINE q == <<107, 61, 49>>
               p == SubSeq(q, 3, 3)
    <3>1. q \in Seq(Nat) /\ 3 \in 1..Len(q)+1 /\ 3 \in 3-1..Len(q) /\ q[3] = 49
      OBVIOUS
    <3> HIDE DEF q
    <3>2. p \in Seq(Nat) /\ Len(p) = 3-3+1 /\ \A k \in 1..3-3+1 : p[k] = q[3+k-1]
      BY <3>1, PartOfSeq
    <3> HIDE DEF p
    <3>3. p \in Seq(Nat) /\ Len(p) = 1 /\ p[1] = 49
      BY <3>1, <3>2
    <3>4. p = <<49>>
      BY <3>3
    <3> QED BY <3>4 DEF p, q
  <2>3. IsPrefix(KeyPrefix, <<107, 61, 49>>)
    BY DEF IsPrefix, KeyPrefix
  <2> QED BY <1>6, <2>1, <2>2, <2>3 DEF CoAP_GetUriQueryVal
<1>8. CoAP_FindUriQueryVal(o, KeyPrefix, <<WIFI_RES_KEY>>) # 0
  <2> DEFINE strs == <<WIFI_RES_KEY>>
             val == CoAP_GetUriQueryVal(o, KeyPrefix)
             equal == {l \in 1..Len(strs) : val # <<>> /\ strs[l] = val}
  <2>1. val = <<49>> /\ val # <<>> /\ Len(strs) = 1 /\ strs[1] = val
    BY <1>7 DEF WIFI_RES_KEY
  <2>2. equal = {1}
    BY <2>1
  <2>3. CoAP_FindUriQueryVal(o, KeyPrefix, strs)
          = IF equal = {} THEN 0 ELSE CHOOSE l \in equal : \A m \in equal : l <= m
    BY DEF CoAP_FindUriQueryVal
  <2> HIDE DEF equal
  <2>4. (CHOOSE l \in equal : \A m \in equal : l <= m) = 1
    BY <2>2
  <2> QED BY <2>2, <2>3, <2>4
<1> QED BY <1>8 DEF KeyOk, o, R

(***************************************************************************)
(* The Block2 option, read back.                                           *)
(***************************************************************************)
\* The exponent of a block size gives the size back.
LEMMA SzxReadsBack ==
  ASSUME NEW size \in BlockSizeValues
  PROVE  /\ Szx(size) \in 0..6 /\ 2^(Szx(size) + 4) = size
         /\ size = 16 => Szx(size) = 0
<1> DEFINE Fits(i) == 2^i <= size \div 16 /\ size \div 16 < 2^(i+1)
           k == Szx(size)
           e == k + 4
<1>1. /\ 2^0 = 1 /\ 2^1 = 2 /\ 2^2 = 4 /\ 2^3 = 8 /\ 2^4 = 16 /\ 2^5 = 32
      /\ 2^6 = 64 /\ 2^7 = 128 /\ 2^8 = 256 /\ 2^9 = 512 /\ 2^10 = 1024
  OBVIOUS
<1>2. \E i \in 0..6 : Fits(i)
  <2>1. CASE size = 16
    <3>1. Fits(0)
      BY <1>1, <2>1
    <3> QED BY <3>1
  <2>2. CASE size = 32
    <3>1. Fits(1)
      BY <1>1, <2>2
    <3> QED BY <3>1
  <2>3. CASE size = 64
    <3>1. Fits(2)
      BY <1>1, <2>3
    <3> QED BY <3>1
  <2>4. CASE size = 128
    <3>1. Fits(3)
      BY <1>1, <2>4
    <3> QED BY <3>1
  <2>5. CASE size = 256
    <3>1. Fits(4)
      BY <1>1, <2>5
    <3> QED BY <3>1
  <2>6. CASE size = 512
    <3>1. Fits(5)
      BY <1>1, <2>6
    <3> QED BY <3>1
  <2>7. CASE size = 1024
    <3>1. Fits(6)
      BY <1>1, <2>7
    <3> QED BY <3>1
  <2> HIDE DEF Fits
  <2> QED BY <2>1, <2>2, <2>3, <2>4, <2>5, <2>6, <2>7 DEF BlockSizeValues
<1>3. k = CHOOSE i \in 0..6 : Fits(i)
  BY DEF Szx
<1>4. k \in 0..6 /\ Fits(k)
  <2> HIDE DEF k, Fits
  <2> QED BY <1>2, <1>3
<1>5. 2^k <= size \div 16 /\ size \div 16 < 2^(k+1)
  BY <1>4
<1>6. k \in {0, 1, 2, 3, 4, 5, 6}
  BY <1>4
<1>7. size \in {16, 32, 64, 128, 256, 512, 1024}
  BY DEF BlockSizeValues
<1> HIDE DEF k
<1>8. ASSUME NEW n \in Nat, n <= size \div 16, size \div 16 < 2 * n,
             n \in {1, 2, 4, 8, 16, 32, 64}
      PROVE  size = 16 * n
  BY <1>7, <1>8
<1>9. 2^e = size /\ (size = 16 => k = 0)
  <2>1. CASE k = 0
    <3>1. 2^k = 1 /\ 2^(k+1) = 2 /\ 2^e = 16
      BY <1>1, <2>1
    <3> QED BY <1>5, <1>8, <2>1, <3>1
  <2>2. CASE k = 1
    <3>1. 2^k = 2 /\ 2^(k+1) = 4 /\ 2^e = 32
      BY <1>1, <2>2
    <3> QED BY <1>5, <1>8, <3>1
  <2>3. CASE k = 2
    <3>1. 2^k = 4 /\ 2^(k+1) = 8 /\ 2^e = 64
      BY <1>1, <2>3
    <3> QED BY <1>5, <1>8, <3>1
  <2>4. CASE k = 3
    <3>1. 2^k = 8 /\ 2^(k+1) = 16 /\ 2^e = 128
      BY <1>1, <2>4
    <3> QED BY <1>5, <1>8, <3>1
  <2>5. CASE k = 4
    <3>1. 2^k = 16 /\ 2^(k+1) = 32 /\ 2^e = 256
      BY <1>1, <2>5
    <3> QED BY <1>5, <1>8, <3>1
  <2>6. CASE k = 5
    <3>1. 2^k = 32 /\ 2^(k+1) = 64 /\ 2^e = 512
      BY <1>1, <2>6
    <3> QED BY <1>5, <1>8, <3>1
  <2>7. CASE k = 6
    <3>1. 2^k = 64 /\ 2^(k+1) = 128 /\ 2^e = 1024
      BY <1>1, <2>7
    <3> QED BY <1>5, <1>8, <3>1
  <2> QED BY <1>6, <2>1, <2>2, <2>3, <2>4, <2>5, <2>6, <2>7
<1> QED BY <1>4, <1>9 DEF k

\* The block numbers that fit twelve bits.
ShortNumbers == 0..4095

\* They are numbers.
LEMMA ShortNumber ==
  ASSUME NEW n \in ShortNumbers
  PROVE  n \in Nat /\ n < 4096
BY DEF ShortNumbers

\* A block whose number fits twelve bits.
ShortBlock(b) == b.num \in ShortNumbers /\ b.size \in BlockSizeValues /\ b.more \in BOOLEAN

\* What is read from the bytes of a block option.
LEMMA BlockReadsBack ==
  ASSUME NEW b, ShortBlock(b)
  PROVE  LET v == NumberIn(BlockBytes(b))
         IN  /\ v \in Nat /\ Len(BlockBytes(b)) <= 3 /\ v % 8 # 7
             /\ v \div 16 = b.num /\ ((v \div 8) % 2 = 1 <=> b.more)
             /\ 2^((v % 8) + 4) = b.size
<1> DEFINE k == Szx(b.size)
           v == BlockValue(b)
           m == IF b.more THEN 8 ELSE 0
           num == b.num
           w == NumberIn(BlockBytes(b))
<1>1. k \in 0..6 /\ 2^(k + 4) = b.size /\ (b.size = 16 => k = 0)
  BY SzxReadsBack DEF ShortBlock
<1>2. v = num * 16 + m + k /\ num \in ShortNumbers /\ m \in {0, 8} /\ (m = 8 <=> b.more)
  <2>1. v = num * 16 + m + k
    BY DEF BlockValue
  <2>2. num \in ShortNumbers
    BY DEF ShortBlock
  <2>3. m \in {0, 8} /\ (m = 8 <=> b.more)
    <3>1. CASE b.more
      BY <3>1
    <3>2. CASE ~b.more
      BY <3>2
    <3> QED BY <3>1, <3>2
  <2> HIDE DEF v, num, m, k
  <2> QED BY <2>1, <2>2, <2>3
<1> HIDE DEF k, v, m, num
<1>3. /\ v \in Nat /\ v < 65536 /\ v % 8 = k /\ v \div 16 = num
      /\ ((v \div 8) % 2 = 1 <=> m = 8) /\ (num < 16 => v < 256)
  <2>1. k \in Nat /\ k < 7 /\ num \in Nat /\ num < 4096
    BY <1>1, <1>2, ShortNumber
  <2>2. CASE m = 0
    <3>1. v = num * 16 + k
      BY <1>2, <2>1, <2>2
    <3> QED BY <2>1, <2>2, <3>1
  <2>3. CASE m = 8
    <3>1. v = num * 16 + 8 + k
      BY <1>2, <2>1, <2>3
    <3> QED BY <2>1, <2>3, <3>1
  <2> QED BY <1>2, <2>2, <2>3
<1>4. w = v /\ Len(BlockBytes(b)) <= 3
  <2> DEFINE h == v \div 256
             l == v % 256
  <2>1. h \in 0..255 /\ l \in 0..255 /\ h * 256 + l = v /\ (num < 16 => l = v)
        /\ h % 256 = h
    BY <1>3
  <2>2. \/ BlockBytes(b) = <<>> /\ num = 0 /\ b.size = 16 /\ ~b.more
        \/ BlockBytes(b) = <<l>> /\ num < 16
        \/ BlockBytes(b) = <<h, l>>
    <3> DEFINE size == b.size
               more == b.more
               none == <<>>
               one == <<l>>
               two == <<h % 256, l>>
               three == <<(v \div 65536) % 256, h % 256, l>>
               plain == num = 0 /\ size = 16 /\ ~more
               short == num < 16
               long == num \in 16..4095
    <3>1. BlockBytes(b) = CASE plain -> none [] short -> one [] long -> two
                            [] OTHER -> three
      BY DEF BlockBytes, num, v
    <3>2. plain => short
      BY DEF plain, short
    <3>3. num \in Int /\ 0 <= num /\ num <= 4095
      BY <1>2 DEF ShortNumbers
    <3>4. (short => ~long) /\ (short \/ long)
      <4>1. ASSUME short, long PROVE FALSE
        BY <3>3, <4>1 DEF short, long
      <4>2. ASSUME ~short PROVE long
        BY <3>3, <4>2 DEF short, long
      <4> HIDE DEF short, long
      <4> QED BY <4>1, <4>2
    <3>5. two = <<h, l>>
      BY <2>1
    <3> HIDE DEF size, more, none, one, two, three, h, l, plain, short, long
    <3>6. CASE plain
      <4>1. BlockBytes(b) = none \/ BlockBytes(b) = one
        BY <3>1, <3>2, <3>4, <3>6
      <4> QED BY <3>2, <3>6, <4>1 DEF none, one, plain, size, more, short
    <3>7. CASE ~plain /\ short
      <4>1. BlockBytes(b) = one
        BY <3>1, <3>4, <3>7
      <4> QED BY <3>7, <4>1 DEF one, short
    <3>8. CASE ~plain /\ ~short
      <4>1. BlockBytes(b) = two
        BY <3>1, <3>4, <3>8
      <4> QED BY <3>5, <4>1
    <3> QED BY <3>6, <3>7, <3>8
  <2> HIDE DEF h, l
  <2>3. CASE BlockBytes(b) = <<>> /\ num = 0 /\ b.size = 16 /\ ~b.more
    <3>1. k = 0
      BY <1>1, <2>3
    <3>2. v = 0
      BY <1>2, <2>3, <3>1
    <3>3. Len(<<>>) = 0
      OBVIOUS
    <3>4. NumberIn(<<>>) = 0
      BY <3>3 DEF NumberIn
    <3>5. w = 0 /\ Len(BlockBytes(b)) = 0
      BY <2>3, <3>3, <3>4, Zenon
    <3> QED BY <3>2, <3>5
  <2>4. CASE BlockBytes(b) = <<l>> /\ num < 16
    <3>1. NumberIn(<<l>>) = l /\ Len(<<l>>) = 1
      BY DEF NumberIn
    <3>2. w = l /\ Len(BlockBytes(b)) = 1
      BY <2>4, <3>1, Zenon
    <3> QED BY <2>1, <2>4, <3>2
  <2>5. CASE BlockBytes(b) = <<h, l>>
    <3>1. NumberIn(<<h, l>>) = h * 256 + l /\ Len(<<h, l>>) = 2
      BY DEF NumberIn
    <3>2. w = h * 256 + l /\ Len(BlockBytes(b)) = 2
      BY <2>5, <3>1, Zenon
    <3> QED BY <2>1, <3>2
  <2> QED BY <2>2, <2>3, <2>4, <2>5
<1> HIDE DEF w
<1>5. /\ w \in Nat /\ w % 8 = k /\ w \div 16 = num /\ ((w \div 8) % 2 = 1 <=> b.more)
  BY <1>2, <1>3, <1>4
<1>6. 2^((w % 8) + 4) = b.size
  BY <1>1, <1>5
<1>7. w % 8 # 7
  BY <1>1, <1>5
<1> QED BY <1>4, <1>5, <1>6, <1>7 DEF w, num

\* Without a block option none is read.
LEMMA NoBlockIsRead ==
  ASSUME NEW opts \in Seq(Option), Sorted(opts), OptionsWith(opts, OPT_BLOCK2) = <<>>
  PROVE  ~GetBlockOptionFromMsg(opts, OPT_BLOCK2).found
<1> DEFINE first == FirstPosition(opts, OPT_BLOCK2)
<1>1. \A j \in 1..Len(opts) : opts[j].num # OPT_BLOCK2
  BY WithNone, RequestNumbers
<1>2. Len(opts) \in Nat
  BY LenProperties
<1>3. /\ first \in 0..Len(opts)
      /\ first # 0 => opts[first].num = OPT_BLOCK2
  BY <1>2, FirstPositionIs
<1>4. first = 0
  <2> HIDE DEF first
  <2> QED BY <1>1, <1>2, <1>3
<1>5. GetBlockOptionFromMsg(opts, OPT_BLOCK2) = NoBlock
  BY <1>4 DEF GetBlockOptionFromMsg
<1>6. ~NoBlock.found
  BY DEF NoBlock
<1> QED BY <1>5, <1>6

\* With one, it is read as the block it was made for.
LEMMA BlockIsRead ==
  ASSUME NEW opts \in Seq(Option), Sorted(opts), NEW b, ShortBlock(b),
         OptionsWith(opts, OPT_BLOCK2) = <<CoAP_option_t(OPT_BLOCK2, BlockBytes(b))>>
  PROVE  LET r == GetBlockOptionFromMsg(opts, OPT_BLOCK2)
         IN  r.found /\ r.num = b.num /\ r.size = b.size /\ (r.more <=> b.more)
<1> DEFINE first == FirstPosition(opts, OPT_BLOCK2)
           e == CoAP_option_t(OPT_BLOCK2, BlockBytes(b))
           with == OptionsWith(opts, OPT_BLOCK2)
           val == opts[first].val
           v == NumberIn(val)
           more == (v \div 8) % 2 = 1
           r == GetBlockOptionFromMsg(opts, OPT_BLOCK2)
<1>1. /\ \A i \in 1..Len(with) :
           \E j \in 1..Len(opts) : opts[j] = with[i] /\ opts[j].num = OPT_BLOCK2
      /\ \A j \in 1..Len(opts) :
           opts[j].num = OPT_BLOCK2 => \E i \in 1..Len(with) : with[i] = opts[j]
  BY WithMembers, RequestNumbers
<1>2. with = <<e>>
  OBVIOUS
<1> HIDE DEF with, e
<1>3. Len(with) = 1 /\ with[1] = e
  BY <1>2
<1>4. Len(opts) \in Nat
  BY LenProperties
<1>5. /\ first \in 0..Len(opts)
      /\ first = 0 => \A j \in 1..Len(opts) : opts[j].num # OPT_BLOCK2
      /\ first # 0 => opts[first].num = OPT_BLOCK2
  BY <1>4, FirstPositionIs
<1> HIDE DEF first
<1>6. first # 0 /\ first \in 1..Len(opts)
  <2>1. PICK j \in 1..Len(opts) : opts[j].num = OPT_BLOCK2
    <3>1. 1 \in 1..Len(with)
      BY <1>3
    <3> QED BY <1>1, <3>1
  <2> QED BY <1>4, <1>5, <2>1
<1>7. opts[first] = e
  <2>1. PICK i \in 1..Len(with) : with[i] = opts[first]
    BY <1>1, <1>5, <1>6
  <2>2. i = 1
    BY <1>3
  <2> QED BY <1>3, <2>1, <2>2
<1>8. val = BlockBytes(b)
  BY <1>7 DEF e, CoAP_option_t
<1> HIDE DEF val
<1>9. /\ v \in Nat /\ Len(val) <= 3 /\ v % 8 # 7
      /\ v \div 16 = b.num /\ (more <=> b.more) /\ 2^((v % 8) + 4) = b.size
  BY <1>8, BlockReadsBack
<1>10. r = IF first = 0 \/ Len(val) > 3 \/ v % 8 = 7 THEN NoBlock
           ELSE [found |-> TRUE, num |-> v \div 16, more |-> more, size |-> 2^((v % 8) + 4)]
  BY DEF GetBlockOptionFromMsg, val, first
<1>11. Len(val) \in Nat
  <2>1. opts[first] \in Option
    BY <1>6, ElementOfSeq
  <2> DEFINE V == Seq(Byte)
  <2>2. Option = [num : OptNum, val : V]
    BY DEF Option
  <2> HIDE DEF V
  <2>3. val \in V
    BY <2>1, <2>2 DEF val
  <2> QED BY <2>3, LenProperties DEF V
<1>12. ~(first = 0 \/ Len(val) > 3 \/ v % 8 = 7)
  BY <1>6, <1>9, <1>11
<1>13. r = [found |-> TRUE, num |-> v \div 16, more |-> more, size |-> 2^((v % 8) + 4)]
  BY <1>10, <1>12, Zenon
<1> DEFINE n == v \div 16
           s == 2^((v % 8) + 4)
<1>14. r = [found |-> TRUE, num |-> n, more |-> more, size |-> s] /\ n = b.num /\ s = b.size
  BY <1>9, <1>13
<1> HIDE DEF n, s, more, r
<1>15. r.found /\ r.num = n /\ r.size = s /\ r.more = more
  BY <1>14
<1>16. more <=> b.more
  BY <1>9 DEF more
<1> QED BY <1>14, <1>15, <1>16 DEF r

(***************************************************************************)
(* A piece of a representation.                                            *)
(***************************************************************************)
\* What a request has its client ask for: the block behind the n bytes it has.
Wishes(reqOpts, n) ==
  LET b == GetBlockOptionFromMsg(reqOpts, OPT_BLOCK2)
  IN  IF b.found
      THEN /\ b.num \in ShortNumbers /\ b.size \in BlockSizeValues /\ ~b.more
           /\ b.num * b.size = n /\ (n # 0 => b.size <= MAX_PAYLOAD_SIZE)
      ELSE n = 0

\* A request that has a block option wishes its block.
LEMMA WishesOne ==
  ASSUME NEW reqOpts, NEW n, NEW b, b = GetBlockOptionFromMsg(reqOpts, OPT_BLOCK2),
         b.found, b.num \in ShortNumbers, b.size \in BlockSizeValues, ~b.more,
         b.num * b.size = n, n # 0 => b.size <= MAX_PAYLOAD_SIZE
  PROVE  Wishes(reqOpts, n)
BY DEF Wishes

\* A block behind the first n bytes of data, as its options say.
BlockBehind(c, payload, data, n) ==
  /\ ShortBlock(c) /\ c.size <= MAX_PAYLOAD_SIZE /\ c.num * c.size = n
  /\ n + Len(payload) <= Len(data)
  /\ payload = SubSeq(data, n + 1, n + Len(payload))
  /\ IF c.more THEN Len(payload) = c.size /\ n + Len(payload) < Len(data)
     ELSE n + Len(payload) = Len(data)

\* A piece of data: all of it, or a block behind its first n bytes.
Piece(opts, payload, data, n) ==
  \/ OptionsWith(opts, OPT_BLOCK2) = <<>> /\ payload = data
  \/ \E c : /\ OptionsWith(opts, OPT_BLOCK2) = <<CoAP_option_t(OPT_BLOCK2, BlockBytes(c))>>
            /\ BlockBehind(c, payload, data, n)

\* A block size is a positive number.
LEMMA SizeOfBlock ==
  ASSUME NEW s \in BlockSizeValues
  PROVE  s \in Nat \ {0}
BY DEF BlockSizeValues

\* A message that is filled with a part of data.
LEMMA FilledMessage ==
  ASSUME NEW m \in Message, NEW b, NEW data, NEW cut, NEW use, NEW opts
  PROVE  LET w == Filled(m, b, data, cut, use, opts).msg
         IN  /\ w.code = m.code /\ w.opts = opts
             /\ w.payload = SubSeq(data, cut.from + 1, cut.from + BytesToSend(cut))
<1> DEFINE f == Filled(m, b, data, cut, use, opts)
           w == f.msg
           p == SubSeq(data, cut.from + 1, cut.from + BytesToSend(cut))
<1>1. w = [m EXCEPT !.opts = opts, !.payload = p]
  BY DEF Filled
<1>2. m = [type |-> m.type, code |-> m.code, mid |-> m.mid, tok |-> m.tok,
           opts |-> m.opts, payload |-> m.payload]
  BY FieldsOfMessage
<1> HIDE DEF p, w
<1>3. w = [type |-> m.type, code |-> m.code, mid |-> m.mid, tok |-> m.tok,
           opts |-> opts, payload |-> p]
  BY <1>1, <1>2, Zenon
<1>4. w.code = m.code /\ w.opts = opts /\ w.payload = p
  BY <1>3
<1> QED BY <1>4 DEF w, p

\* The part a cut takes out of data.
LEMMA CutOut ==
  ASSUME NEW data \in Seq(Byte), NEW n \in Nat, NEW cut, cut.from = n,
         ProperCut(cut, Len(data))
  PROVE  LET k == BytesToSend(cut)
             p == SubSeq(data, n + 1, n + k)
         IN  /\ p \in Seq(Byte) /\ Len(p) = k /\ n + k <= Len(data) /\ k \in Nat
             /\ IF cut.left > cut.size THEN k = cut.size /\ n + k < Len(data)
                ELSE n + k = Len(data)
<1> DEFINE len == Len(data)
           left == cut.left
           size == cut.size
           k == BytesToSend(cut)
           p == SubSeq(data, n + 1, n + k)
<1>1. len \in Nat /\ left \in Nat \ {0} /\ n + left = len
  BY LenProperties DEF ProperCut
<1>2. size \in Nat \ {0}
  BY DEF ProperCut, BlockSizeValues
<1>3. k = IF left > size THEN size ELSE left
  BY DEF BytesToSend
<1> HIDE DEF len, left, size, k
<1>4. /\ k \in Nat /\ n + k <= len /\ n + 1 \in 1..len+1 /\ n + k \in (n+1)-1..len
      /\ (n + k) - (n + 1) + 1 = k
      /\ IF left > size THEN k = size /\ n + k < len ELSE n + k = len
  BY <1>1, <1>2, <1>3
<1>5. p \in Seq(Byte) /\ Len(p) = k
  BY <1>4, PartOfSeq DEF len
<1> QED BY <1>4, <1>5 DEF len, left, size, k

\* A response under construction that gets its only Block2 option.
LEMMA OnlyBlock ==
  ASSUME NEW c, ShortBlock(c)
  PROVE  LET opts == AddBlkOptionToMsg(<<>>, OPT_BLOCK2, c)
         IN  OptionsWith(opts, OPT_BLOCK2) = <<CoAP_option_t(OPT_BLOCK2, BlockBytes(c))>>
<1> DEFINE none == <<>>
           v == BlockBytes(c)
           o == CoAP_option_t(OPT_BLOCK2, v)
<1>1. v \in Seq(Byte)
  <2>1. c.num \in Nat /\ c.size \in BlockSizeValues
    <3>1. c.num \in ShortNumbers /\ c.size \in BlockSizeValues
      BY DEF ShortBlock
    <3> DEFINE num == c.num
    <3>2. num \in ShortNumbers
      BY <3>1
    <3> HIDE DEF num
    <3>3. num \in Nat
      BY <3>2, ShortNumber
    <3> QED BY <3>1, <3>3 DEF num
  <2> QED BY <2>1, BlockBytesType
<1>2. none \in Seq(Option) /\ Sorted(none)
  BY DEF Sorted
<1>3. OptionsWith(none, OPT_BLOCK2) = <<>>
  BY NoneOfNone, RequestNumbers
<1> HIDE DEF none, v
<1>4. OptionsWith(CoAP_AppendOptionToList(none, OPT_BLOCK2, v), OPT_BLOCK2)
        = Append(OptionsWith(none, OPT_BLOCK2), o)
  BY <1>1, <1>2, WithOneMore, RequestNumbers
<1> HIDE DEF o
<1>5. Append(<<>>, o) = <<o>>
  OBVIOUS
<1> QED BY <1>3, <1>4, <1>5 DEF none, v, o, AddBlkOptionToMsg

\* Nothing is removed from no options.
LEMMA NothingRemoved ==
  ASSUME NEW num
  PROVE  OptionsWithout(<<>>, num) = <<>>
<1> DEFINE none == <<>>
<1>1. none \in Seq(Option) /\ Len(none) = 0
  OBVIOUS
<1> HIDE DEF none
<1>2. PICK c : KeepsOneByOne(c, none, num)
  BY <1>1, WithoutChain
<1>3. c[0] = <<>> /\ c[Len(none)] = OptionsWithout(none, num)
  BY <1>2 DEF KeepsOneByOne
<1> QED BY <1>1, <1>3 DEF none

\* CoAP_SetPayload puts the piece the request wishes into a response without
\* options, or says that there is no such block.
LEMMA PayloadIsPiece ==
  ASSUME NEW reqOpts, NEW n \in Nat, Wishes(reqOpts, n),
         NEW m \in Message, m.opts = <<>>, NEW b, NEW use, NEW data \in Seq(Byte)
  PROVE  LET w == CoAP_SetPayload(reqOpts, m, b, data, use).msg
         IN  \/ w.code = RESP_BAD_OPTION /\ n # 0 /\ Len(data) <= n
             \/ w.code = m.code /\ Piece(w.opts, w.payload, data, n)
<1> DEFINE len == Len(data)
           block == GetBlockOptionFromMsg(reqOpts, OPT_BLOCK2)
           asked2 == BlockToSend(block, len)
           first == WholeOrFirst(len)
           f == CoAP_SetPayload(reqOpts, m, b, data, use)
           w == f.msg
<1>1. len \in Nat /\ (data = <<>> <=> len = 0)
  BY EmptySeq, LenProperties
<1>2. MAX_PAYLOAD_SIZE \in BlockSizeValues /\ MAX_PAYLOAD_SIZE \in Nat \ {0}
  BY BlockwiseAssumption, WireAssumption
<1>3. OptionsWith(<<>>, OPT_BLOCK2) = <<>>
  BY NoneOfNone, RequestNumbers
<1>4. CASE data = <<>>
  <2> DEFINE none == <<>>
  <2>1. w = [m EXCEPT !.payload = none]
    BY <1>4 DEF CoAP_SetPayload
  <2>2. m = [type |-> m.type, code |-> m.code, mid |-> m.mid, tok |-> m.tok,
             opts |-> m.opts, payload |-> m.payload]
    BY FieldsOfMessage
  <2> HIDE DEF none, w
  <2>3. w = [type |-> m.type, code |-> m.code, mid |-> m.mid, tok |-> m.tok,
             opts |-> m.opts, payload |-> none]
    BY <2>1, <2>2, Zenon
  <2>4. w.code = m.code /\ w.opts = <<>> /\ w.payload = data
    BY <1>4, <2>3 DEF none
  <2>5. Piece(w.opts, w.payload, data, n)
    BY <1>3, <2>4 DEF Piece
  <2> QED BY <2>4, <2>5 DEF w
<1>5. CASE data # <<>> /\ ~block.found
  <2> DEFINE add == AddBlkOptionToMsg(m.opts, OPT_BLOCK2, first)
             opts == IF first.more THEN add ELSE m.opts
             k == BytesToSend(first)
  <2>1. f = Filled(m, b, data, first, use, opts)
    <3> HIDE DEF block, first, add
    <3> QED BY <1>5 DEF CoAP_SetPayload, block, first, add
  <2>2. n = 0
    BY <1>5 DEF Wishes
  <2>3. ProperCut(first, len) /\ (first.more <=> len > MAX_PAYLOAD_SIZE)
    BY <1>1, <1>5, CutOfFirst DEF ProperCut
  <2>4. first.from = n /\ first.num = 0 /\ first.size = MAX_PAYLOAD_SIZE /\ first.left = len
        /\ first.more = (len > MAX_PAYLOAD_SIZE)
    BY <2>2 DEF WholeOrFirst
  <2>5. w.code = m.code /\ w.opts = opts /\ w.payload = SubSeq(data, n + 1, n + k)
    <3> HIDE DEF opts, first
    <3> QED BY <2>1, <2>4, FilledMessage
  <2>6. /\ Len(w.payload) = k /\ n + k <= len /\ k \in Nat
        /\ IF first.left > first.size THEN k = first.size /\ n + k < len ELSE n + k = len
    <3> HIDE DEF opts, first, w
    <3> QED BY <2>3, <2>4, <2>5, CutOut DEF k
  <2>7. CASE len > MAX_PAYLOAD_SIZE
    <3>1. ShortBlock(first)
      <4>1. first.num \in ShortNumbers
        <5>1. 0 \in ShortNumbers
          BY DEF ShortNumbers
        <5> QED BY <2>4, <5>1
      <4>2. first.size \in BlockSizeValues
        BY <1>2, <2>4
      <4>3. first.more \in BOOLEAN
        BY <2>4
      <4> HIDE DEF first
      <4> QED BY <4>1, <4>2, <4>3 DEF ShortBlock
    <3>2. opts = AddBlkOptionToMsg(<<>>, OPT_BLOCK2, first)
      BY <2>3, <2>7
    <3> HIDE DEF first, opts, w, f, k
    <3>3. OptionsWith(w.opts, OPT_BLOCK2) = <<CoAP_option_t(OPT_BLOCK2, BlockBytes(first))>>
      BY <2>5, <3>1, <3>2, OnlyBlock
    <3>4. BlockBehind(first, w.payload, data, n)
      <4>1. first.size <= MAX_PAYLOAD_SIZE /\ first.num * first.size = n
        BY <1>2, <2>2, <2>4
      <4>2. first.more /\ first.left > first.size
        BY <2>3, <2>4, <2>7
      <4> QED BY <2>5, <2>6, <3>1, <4>1, <4>2 DEF BlockBehind
    <3>5. Piece(w.opts, w.payload, data, n)
      BY <3>3, <3>4 DEF Piece
    <3> QED BY <2>5, <3>5 DEF w, f
  <2>8. CASE ~(len > MAX_PAYLOAD_SIZE)
    <3>1. opts = <<>>
      BY <2>3, <2>8
    <3>2. w.payload = data
      <4>1. n + k = len /\ k = len /\ n = 0
        BY <2>2, <2>4, <2>6, <2>8
      <4>2. w.payload = SubSeq(data, 1, Len(data))
        <5> HIDE DEF w
        <5> QED BY <2>5, <4>1 DEF k
      <4> HIDE DEF w
      <4> QED BY <4>2, SubSeqFull
    <3> HIDE DEF first, opts, w, f
    <3>3. Piece(w.opts, w.payload, data, n)
      BY <1>3, <2>5, <3>1, <3>2 DEF Piece
    <3> QED BY <2>5, <3>3 DEF w, f
  <2> QED BY <2>7, <2>8
<1>6. CASE data # <<>> /\ block.found
  <2>1. /\ block.num \in ShortNumbers /\ block.size \in BlockSizeValues /\ ~block.more
        /\ block.num * block.size = n /\ (n # 0 => block.size <= MAX_PAYLOAD_SIZE)
    BY <1>6 DEF Wishes
  <2> DEFINE num == block.num
             size == IF block.size > MAX_PAYLOAD_SIZE THEN MAX_PAYLOAD_SIZE ELSE block.size
             left == len - size * num
  <2>2. size \in BlockSizeValues /\ size <= MAX_PAYLOAD_SIZE /\ size \in Nat \ {0}
    BY <1>2, <2>1 DEF BlockSizeValues
  <2>3. num \in Nat /\ size * num = n /\ num * size = n
    <3>1. num \in Nat /\ block.size \in Nat /\ block.size > 0
      <4> HIDE DEF num, block
      <4>1. num \in ShortNumbers
        BY <2>1 DEF num
      <4>2. num \in Nat
        BY <4>1, ShortNumber
      <4>3. block.size \in Nat \ {0}
        BY <2>1, SizeOfBlock
      <4> QED BY <4>2, <4>3
    <3>2. CASE n = 0
      <4>1. num = 0
        <5>1. num > 0 => num * block.size > 0
          BY <3>1
        <5> QED BY <2>1, <3>1, <3>2, <5>1
      <4> HIDE DEF size
      <4> QED BY <2>2, <3>1, <3>2, <4>1
    <3>3. CASE n # 0
      <4>1. size = block.size
        BY <1>2, <2>1, <3>3 DEF BlockSizeValues
      <4>2. num * block.size = block.size * num
        BY <3>1
      <4> QED BY <2>1, <3>1, <4>1, <4>2
    <3> QED BY <3>2, <3>3
  <2>4. /\ asked2.num = num /\ asked2.size = size /\ asked2.left = left
        /\ asked2.from = n /\ asked2.more = (left > size \/ block.more)
    <3>1. asked2 = [num |-> num, size |-> size, left |-> left, from |-> size * num,
                   more |-> left > size \/ block.more]
      BY DEF BlockToSend
    <3> HIDE DEF size, left, num, block, asked2
    <3> QED BY <2>3, <3>1
  <2>5. left = len - n
    BY <2>3
  <2> HIDE DEF size, left, num, block
  <2>6. CASE left > 0
    <3> DEFINE opts == AddBlkOptionToMsg(RemoveAllBlockOptionsFromMsg(m.opts, OPT_BLOCK2),
                                         OPT_BLOCK2, asked2)
               k == BytesToSend(asked2)
    <3>1. f = Filled(m, b, data, asked2, use, opts)
      <4>1. asked2.left > 0 /\ ~(asked2.left <= 0)
        BY <1>1, <2>4, <2>5, <2>6
      <4> HIDE DEF asked2
      <4> QED BY <1>6, <4>1 DEF CoAP_SetPayload, asked2, block
    <3>2. ProperCut(asked2, len)
      <4>1. left \in Nat \ {0} /\ n + left = len
        BY <1>1, <2>5, <2>6
      <4>2. num \in Nat
        BY <2>3
      <4> HIDE DEF asked2
      <4> QED BY <2>2, <2>4, <4>1, <4>2 DEF ProperCut
    <3>3. w.code = m.code /\ w.opts = opts /\ w.payload = SubSeq(data, n + 1, n + k)
      <4> HIDE DEF opts, asked2
      <4> QED BY <2>4, <3>1, FilledMessage
    <3>4. /\ Len(w.payload) = k /\ n + k <= len /\ k \in Nat
          /\ IF left > size THEN k = size /\ n + k < len ELSE n + k = len
      <4>1. asked2.from = n /\ asked2.left = left /\ asked2.size = size
        BY <2>4
      <4> HIDE DEF opts, asked2, w, len
      <4>2. w.payload = SubSeq(data, n + 1, n + k)
        BY <3>3
      <4> HIDE DEF k
      <4>3. LET p == SubSeq(data, n + 1, n + k)
            IN  /\ Len(p) = k /\ n + k <= Len(data) /\ k \in Nat
                /\ IF asked2.left > asked2.size THEN k = asked2.size /\ n + k < Len(data)
                   ELSE n + k = Len(data)
        BY <3>2, <4>1, CutOut DEF k, len
      <4> QED BY <4>1, <4>2, <4>3 DEF len
    <3>5. ShortBlock(asked2)
      <4>1. asked2.more \in BOOLEAN
        BY <2>4
      <4> HIDE DEF asked2
      <4>2. asked2.num \in ShortNumbers
        BY <2>1, <2>4 DEF num
      <4>3. asked2.size \in BlockSizeValues
        BY <2>2, <2>4
      <4> QED BY <4>1, <4>2, <4>3 DEF ShortBlock
    <3>6. opts = AddBlkOptionToMsg(<<>>, OPT_BLOCK2, asked2)
      BY NothingRemoved DEF RemoveAllBlockOptionsFromMsg
    <3>7. asked2.more <=> left > size
      <4> DEFINE much == left > size
      <4>1. asked2.more = (much \/ block.more)
        BY <2>4
      <4> HIDE DEF asked2, much
      <4>2. asked2.more <=> much
        <5>1. CASE much
          BY <4>1, <5>1
        <5>2. CASE ~much
          <6>1. ~(much \/ block.more)
            BY <2>1, <5>2
          <6> DEFINE either == much \/ block.more
          <6>2. asked2.more = either /\ ~either
            BY <4>1, <6>1
          <6> HIDE DEF either
          <6>3. ~asked2.more
            BY <6>2, Zenon
          <6> QED BY <5>2, <6>3
        <5> QED BY <5>1, <5>2
      <4> QED BY <4>2 DEF much
    <3> HIDE DEF asked2, opts, w, f, k
    <3>8. OptionsWith(w.opts, OPT_BLOCK2) = <<CoAP_option_t(OPT_BLOCK2, BlockBytes(asked2))>>
      BY <3>3, <3>5, <3>6, OnlyBlock
    <3>9. BlockBehind(asked2, w.payload, data, n)
      <4>1. asked2.size <= MAX_PAYLOAD_SIZE /\ asked2.num * asked2.size = n
        BY <2>2, <2>3, <2>4
      <4> QED BY <2>4, <3>3, <3>4, <3>5, <3>7, <4>1 DEF BlockBehind
    <3>10. Piece(w.opts, w.payload, data, n)
      BY <3>8, <3>9 DEF Piece
    <3> QED BY <3>3, <3>10 DEF w, f
  <2>7. CASE ~(left > 0)
    <3>1. left <= 0 /\ len <= n /\ n # 0
      BY <1>1, <1>6, <2>5, <2>7
    <3>2. f = Refused(m, b)
      <4>1. asked2.left <= 0 /\ ~(asked2.left > 0)
        BY <2>4, <2>7, <3>1
      <4> HIDE DEF asked2
      <4> QED BY <1>6, <4>1 DEF CoAP_SetPayload, asked2, block, f
    <3>3. w.code = RESP_BAD_OPTION
      <4> DEFINE text == BlockNotExisting
                 code == RESP_BAD_OPTION
      <4>1. w = [m EXCEPT !.payload = text, !.code = code]
        BY <3>2 DEF Refused
      <4>2. m = [type |-> m.type, code |-> m.code, mid |-> m.mid, tok |-> m.tok,
                 opts |-> m.opts, payload |-> m.payload]
        BY FieldsOfMessage
      <4> HIDE DEF text, w, code
      <4>3. w = [type |-> m.type, code |-> code, mid |-> m.mid, tok |-> m.tok,
                 opts |-> m.opts, payload |-> text]
        BY <4>1, <4>2, Zenon
      <4> QED BY <4>3 DEF code
    <3> QED BY <3>1, <3>3
  <2> QED BY <2>6, <2>7
<1> QED BY <1>4, <1>5, <1>6

(***************************************************************************)
(* What is said of a representation: TalkInv says so while requests are    *)
(* answered (Asking) and while a resource is observed (Told).              *)
(***************************************************************************)
\* The block a message carries, as its reader finds it.
Block2(m) == GetBlockOptionFromMsg(m.opts, OPT_BLOCK2)

\* The client asks on with blocks of a size the server agreed to.
InBlocks ==
  client.state = "WAITING" /\ client.got # <<>> =>
    /\ client.size \in BlockSizeValues /\ client.size <= MAX_PAYLOAD_SIZE
    /\ Len(client.got) < 65536
    /\ \E k \in 0..Len(client.got) : Len(client.got) = k * client.size

\* What it has is the beginning of the representation, and not all of it.
SoFar ==
  client.state = "WAITING" /\ Unchanged =>
    /\ client.got = SubSeq(Data(rep), 1, Len(client.got))
    /\ client.got # <<>> => Len(client.got) < rep.len

\* A response leads on behind the first n bytes, whatever representation it is
\* cut out of.
LeadsOn(m, n) ==
  \/ m.code >= RESP_BAD_REQUEST
  \/ /\ m.code = RESP_CONTENT
     /\ Block2(m).found =>
          /\ Block2(m).num \in Nat /\ Block2(m).size \in BlockSizeValues
          /\ Block2(m).size <= MAX_PAYLOAD_SIZE
          /\ Block2(m).num * Block2(m).size = n
          /\ Block2(m).more => /\ Len(m.payload) = Block2(m).size
                               /\ n + Len(m.payload) < 65536

\* It tells what follows what the client got of a representation.
Tells(m, got, r) ==
  IF ~Block2(m).found THEN m.payload = Data(r)
  ELSE LET n == Len(got) + Len(m.payload)
       IN  /\ got \o m.payload = SubSeq(Data(r), 1, n)
           /\ IF Block2(m).more THEN n < r.len ELSE n = r.len

\* A request is answered before there is another one.
Asking ==
  /\ client.state \in {"IDLE", "WAITING", "DONE", "REFUSED"}
  /\ client.state = "IDLE" => client.got = <<>>
  /\ client.since <= rep.ver /\ rep.len \in Lengths
  /\ InBlocks /\ SoFar
  /\ toServer # NULL =>
       /\ client.state = "WAITING" /\ toClient = NULL /\ resp = NULL
       /\ sentReq = RequestMsg
  /\ resp # NULL =>
       /\ toServer = NULL /\ resp.kind = "REQUEST" /\ resp.res = asked.target
       /\ asked.refused \in {"NEVER", "BY_HANDLER"}
       /\ ~resp.sent => /\ client.state = "WAITING" /\ toClient = NULL
                        /\ resp.req = RequestMsg
  /\ toClient # NULL =>
       /\ client.state = "WAITING" /\ LeadsOn(sentResp, Len(client.got))
       /\ Unchanged => IF sentResp.code >= RESP_BAD_REQUEST THEN Refusable
                       ELSE Tells(sentResp, client.got, rep)
  /\ client.state = "DONE" /\ Unchanged => client.got = Data(rep)
  /\ client.state = "REFUSED" => Refusable \/ ~Unchanged

\* The first block of a representation.
FirstBlock(r) ==
  SubSeq(Data(r), 1, IF r.len > MAX_PAYLOAD_SIZE THEN MAX_PAYLOAD_SIZE ELSE r.len)

\* A notification tells the newest representation, or is going to.
Told ==
  /\ client.state = "OBSERVING" /\ toServer = NULL
  /\ rep.ver > 0 => rep.len \in NotifyLengths
  /\ resp # NULL => /\ resp.kind = "NOTIFICATION"
                    /\ resp.upd \/ resp.msg.payload = FirstBlock(rep)
  /\ toClient # NULL => resp # NULL /\ resp.sent /\ sentResp = resp.msg
  /\ resp = NULL /\ rep.ver > 0 => client.got = FirstBlock(rep)

\* Who observes makes no request, and who makes one is not notified.
TalkInv == IF asked.observe THEN Told ELSE Asking

\* The least block size and the largest length of a representation leave room
\* for no more than 4096 blocks.
LEMMA FewBlocks ==
  ASSUME NEW n \in Nat, n < 65536, NEW size \in BlockSizeValues, NEW k \in Nat,
         n = k * size
  PROVE  k \in ShortNumbers /\ n \div size = k
<1>1. size \in Nat /\ size >= 16
  BY DEF BlockSizeValues
<1>2. k * size >= k * 16
  BY <1>1
<1>3. k \in ShortNumbers
  BY <1>1, <1>2 DEF ShortNumbers
<1>4. n \div size = k
  <2>1. CASE size = 16 BY <2>1
  <2>2. CASE size = 32 BY <2>2
  <2>3. CASE size = 64 BY <2>3
  <2>4. CASE size = 128 BY <2>4
  <2>5. CASE size = 256 BY <2>5
  <2>6. CASE size = 512 BY <2>6
  <2>7. CASE size = 1024 BY <2>7
  <2> QED BY <2>1, <2>2, <2>3, <2>4, <2>5, <2>6, <2>7 DEF BlockSizeValues
<1> QED BY <1>3, <1>4

\* A request wishes the block behind what the client has.
LEMMA WishIsRead ==
  ASSUME asked \in Requests, ~asked.observe, client \in Client,
         client.state = "WAITING", InBlocks
  PROVE  Wishes(RequestOptions, Len(client.got))
<1> DEFINE R == RequestOptions
           n == Len(client.got)
           w == Block2Wish
<1>1. /\ R \in Seq(Option) /\ Sorted(R) /\ OptionsWith(R, OPT_BLOCK2) = WishOptions
  BY RequestPicked
<1>2. /\ client.size \in BlockSizeValues \cup {0} /\ n \in Nat
      /\ (client.got = <<>> <=> n = 0)
  BY FieldsOfClient, LenProperties, EmptySeq
<1>3. /\ w.num = IF client.size = 0 THEN 0 ELSE n \div client.size
      /\ w.size = client.size /\ ~w.more
  BY DEF Block2Wish
<1> HIDE DEF R, w
<1>4. CASE client.size = 0
  <2>1. n = 0
    BY <1>2, <1>4 DEF InBlocks, BlockSizeValues
  <2>2. OptionsWith(R, OPT_BLOCK2) = <<>>
    BY <1>1, <1>4 DEF WishOptions
  <2>3. ~GetBlockOptionFromMsg(R, OPT_BLOCK2).found
    BY <1>1, <2>2, NoBlockIsRead
  <2> QED BY <2>1, <2>3 DEF Wishes, R
<1>5. CASE client.size # 0
  <2> DEFINE size == client.size
  <2>1. size \in BlockSizeValues /\ (n # 0 => size <= MAX_PAYLOAD_SIZE)
    BY <1>2, <1>5 DEF InBlocks
  <2>2. n < 65536 /\ \E k \in Nat : n = k * size
    <3>1. CASE n = 0
      <4>1. n = 0 * size
        BY <2>1, <3>1, SizeOfBlock
      <4> QED BY <3>1, <4>1
    <3>2. CASE n # 0
      <4>1. /\ n < 65536 /\ \E k \in 0..n : n = k * size
        BY <1>2, <3>2 DEF InBlocks
      <4> HIDE DEF n, size
      <4>2. PICK k \in 0..n : n = k * size
        BY <4>1
      <4>3. k \in Nat
        BY <1>2
      <4> QED BY <4>1, <4>2, <4>3
    <3> QED BY <3>1, <3>2
  <2>3. w.num = n \div size /\ w.size = size
    BY <1>3, <1>5
  <2> HIDE DEF n, size
  <2>4. PICK k \in Nat : n = k * size
    BY <2>2
  <2>5. k \in ShortNumbers /\ n \div size = k
    BY <1>2, <2>1, <2>2, <2>4, FewBlocks
  <2>6. w.num \in ShortNumbers /\ w.num * w.size = n /\ w.size \in BlockSizeValues
        /\ (n # 0 => w.size <= MAX_PAYLOAD_SIZE)
    <3>1. w.num = k /\ w.size = size
      BY <2>3, <2>5
    <3>2. w.num \in ShortNumbers /\ w.num * w.size = n
      BY <2>4, <2>5, <3>1
    <3> QED BY <2>1, <3>1, <3>2
  <2>7. ShortBlock(w)
    <3>1. w.more \in BOOLEAN
      BY DEF w, Block2Wish
    <3> QED BY <2>6, <3>1 DEF ShortBlock
  <2>8. OptionsWith(R, OPT_BLOCK2) = <<CoAP_option_t(OPT_BLOCK2, BlockBytes(w))>>
    BY <1>1, <1>5 DEF WishOptions, w
  <2> DEFINE r == GetBlockOptionFromMsg(R, OPT_BLOCK2)
  <2>9. r.found /\ r.num = w.num /\ r.size = w.size /\ (r.more <=> w.more)
    BY <1>1, <2>7, <2>8, BlockIsRead
  <2> HIDE DEF r
  <2>10. /\ r.found /\ r.num \in ShortNumbers /\ r.size \in BlockSizeValues /\ ~r.more
         /\ r.num * r.size = n /\ (n # 0 => r.size <= MAX_PAYLOAD_SIZE)
    <3>1. r.found /\ r.num = w.num /\ r.size = w.size
      BY <2>9
    <3>2. ~r.more
      BY <1>3, <2>9
    <3>3. w.num \in ShortNumbers /\ w.size \in BlockSizeValues
      BY <2>6
    <3>4. w.num * w.size = n /\ (n # 0 => w.size <= MAX_PAYLOAD_SIZE)
      BY <2>6
    <3>5. r.num \in ShortNumbers /\ r.size \in BlockSizeValues
      BY <3>1, <3>3
    <3>6. r.num * r.size = n /\ (n # 0 => r.size <= MAX_PAYLOAD_SIZE)
      BY <3>1, <3>4
    <3> QED BY <3>1, <3>2, <3>5, <3>6
  <2>11. Wishes(R, n)
    <3>1. r = GetBlockOptionFromMsg(R, OPT_BLOCK2)
      BY DEF r
    <3> QED BY <2>10, <3>1, WishesOne
  <2> QED BY <2>11 DEF R, n
<1> QED BY <1>4, <1>5

\* A content format beside the block.
LEMMA FormatBeside ==
  ASSUME NEW opts \in Seq(Option), Sorted(opts)
  PROVE  OptionsWith(AddCfOptionToMsg(opts, COAP_CF_LINK_FORMAT), OPT_BLOCK2)
           = OptionsWith(opts, OPT_BLOCK2)
<1> DEFINE v == CfBytes(COAP_CF_LINK_FORMAT)
           b == COAP_CF_LINK_FORMAT
<1>1. v = <<b>> /\ b \in Byte
  BY DEF CfBytes, COAP_CF_LINK_FORMAT, Byte
<1>2. v \in Seq(Byte)
  <2> HIDE DEF b
  <2> QED BY <1>1
<1> HIDE DEF v
<1> QED BY <1>2, WithOneMore, RequestNumbers DEF AddCfOptionToMsg, v

\* Options that are changed in a filled message.
LEMMA OptionsChanged ==
  ASSUME NEW f, f \in [msg : Message, buf : Buffer], NEW new
  PROVE  LET w == [f EXCEPT !.msg.opts = new].msg
         IN  w.code = f.msg.code /\ w.opts = new /\ w.payload = f.msg.payload
<1> DEFINE v == [f.msg EXCEPT !.opts = new]
           w == [f EXCEPT !.msg.opts = new].msg
<1>1. w = v
  OBVIOUS
<1>2. f.msg = [type |-> f.msg.type, code |-> f.msg.code, mid |-> f.msg.mid,
               tok |-> f.msg.tok, opts |-> f.msg.opts, payload |-> f.msg.payload]
  <2>1. f.msg \in Message
    OBVIOUS
  <2> QED BY <2>1, FieldsOfMessage
<1>3. w = [f.msg EXCEPT !.opts = new]
  BY <1>1
<1> HIDE DEF w, v
<1>4. w = [type |-> f.msg.type, code |-> f.msg.code, mid |-> f.msg.mid,
           tok |-> f.msg.tok, opts |-> new, payload |-> f.msg.payload]
  BY <1>2, <1>3, Zenon
<1>5. w.code = f.msg.code /\ w.opts = new /\ w.payload = f.msg.payload
  BY <1>4
<1> QED BY <1>5 DEF w

\* The code that is changed.
LEMMA CodeChanged ==
  ASSUME NEW f, f \in [msg : Message, buf : Buffer], NEW new
  PROVE  [f EXCEPT !.msg.code = new].msg.code = new
<1> DEFINE w == [f EXCEPT !.msg.code = new].msg
<1>1. w = [f.msg EXCEPT !.code = new]
  OBVIOUS
<1>2. f.msg = [type |-> f.msg.type, code |-> f.msg.code, mid |-> f.msg.mid,
               tok |-> f.msg.tok, opts |-> f.msg.opts, payload |-> f.msg.payload]
  <2>1. f.msg \in Message
    OBVIOUS
  <2> QED BY <2>1, FieldsOfMessage
<1> HIDE DEF w
<1>3. w = [type |-> f.msg.type, code |-> new, mid |-> f.msg.mid,
           tok |-> f.msg.tok, opts |-> f.msg.opts, payload |-> f.msg.payload]
  BY <1>1, <1>2, Zenon
<1>4. w.code = new
  BY <1>3
<1> QED BY <1>4 DEF w

\* A message is filled with a piece of data, or says that there is none.
PieceOf(w, data, n) ==
  \/ w.code = RESP_BAD_OPTION /\ n # 0 /\ Len(data) <= n
  \/ w.code = EMPTY /\ Piece(w.opts, w.payload, data, n)

\* What a handler answers to a request that wishes the block behind n bytes.
LEMMA HandlerTells ==
  ASSUME rep \in Representation, NEW id \in HandlerIds,
         NEW req, req.opts \in Seq(Option), NEW n \in Nat, Wishes(req.opts, n),
         NEW m \in Message, m.opts = <<>>, m.code = EMPTY,
         NEW b, b = OwnBuffer(PREFERED_PAYLOAD_SIZE)
  PROVE  LET w == Handler(id, req, m, b).msg
         IN  \/ w.code = RESP_ERROR_UNAUTHORIZED /\ id = "config" /\ ~KeyOk(req.opts)
             \/ PieceOf(w, Data(rep), n)
<1> DEFINE data == Data(rep)
<1>1. data \in Seq(Byte) /\ Len(data) = rep.len /\ rep.len \in Nat
  BY DataIsBytes DEF Representation
<1>2. /\ b \in Buffer /\ HasRoom(b, 0) /\ b.at = "MSG"
      /\ Prepared(b, rep.len) \in Buffer /\ HasRoom(Prepared(b, rep.len), 0)
      /\ rep.len <= Prepared(b, rep.len).room
  BY <1>1, PreparedHasRoom
<1>3. Options(m.opts, 0)
  BY NoOptions
<1> HIDE DEF data
<1>4. ASSUME NEW c, NEW use
      PROVE  PieceOf(CoAP_SetPayload(req.opts, m, c, data, use).msg, data, n)
  BY <1>1, PayloadIsPiece DEF PieceOf
<1>5. CASE id = "core"
  <2> DEFINE f == CoAP_SetPayload(req.opts, m, b, data, "VOLATILE")
             new == AddCfOptionToMsg(f.msg.opts, COAP_CF_LINK_FORMAT)
             g == [f EXCEPT !.msg.opts = new]
  <2>1. Filled2(f, m, 0)
    BY <1>1, <1>2, <1>3, SetPayloadFills
  <2>2. Handler(id, req, m, b) = g
    BY <1>5 DEF Handler, WellKnown_GetHandler, data
  <2>3. PieceOf(f.msg, data, n)
    BY <1>4
  <2> HIDE DEF f, g, new
  <2>4. f \in [msg : Message, buf : Buffer] /\ f.msg.opts \in Seq(Option) /\ Sorted(f.msg.opts)
    BY <2>1 DEF Filled2, Filling, Options
  <2> DEFINE w == g.msg
  <2>5. w.code = f.msg.code /\ w.opts = new /\ w.payload = f.msg.payload
    BY <2>4, OptionsChanged DEF g
  <2>6. OptionsWith(new, OPT_BLOCK2) = OptionsWith(f.msg.opts, OPT_BLOCK2)
    BY <2>4, FormatBeside DEF new
  <2> HIDE DEF w
  <2>7. PieceOf(w, data, n)
    BY <2>3, <2>5, <2>6 DEF PieceOf, Piece
  <2> QED BY <2>2, <2>7 DEF w, data
<1>6. CASE id = "ipconfig"
  <2>1. Handler(id, req, m, b) = CoAP_SetPayload(req.opts, m, b, data, "VOLATILE")
    BY <1>6 DEF Handler, Ip_RequestHandler, data
  <2> QED BY <1>4, <2>1 DEF data
<1>7. CASE id = "about"
  <2>1. Handler(id, req, m, b) = CoAP_SetPayload(req.opts, m, b, data, "STATIC")
    BY <1>7 DEF Handler, About_RequestHandler, data
  <2> QED BY <1>4, <2>1 DEF data
<1>8. CASE id = "config" /\ KeyOk(req.opts)
  <2>1. Handler(id, req, m, b)
          = CoAP_SetPayload(req.opts, m, Prepared(b, rep.len), data, "IN_PLACE")
    BY <1>8 DEF Handler, ResWifi_ReqHandler, data
  <2> QED BY <1>4, <2>1 DEF data
<1>9. CASE id = "config" /\ ~KeyOk(req.opts)
  <2> DEFINE f == CoAP_SetPayload(req.opts, m, b, Usage, "VOLATILE")
             g == [f EXCEPT !.msg.code = RESP_ERROR_UNAUTHORIZED]
  <2>1. Filled2(f, m, 0)
    BY <1>2, <1>3, UsageIsBytes, SetPayloadFills
  <2>2. Handler(id, req, m, b) = g
    <3>1. Handler(id, req, m, b) = ResWifi_ReqHandler(req, m, b)
      BY <1>9 DEF Handler
    <3>2. ResWifi_ReqHandler(req, m, b) = g
      BY <1>9 DEF ResWifi_ReqHandler
    <3> HIDE DEF g
    <3> QED BY <3>1, <3>2
  <2> HIDE DEF f
  <2>3. f \in [msg : Message, buf : Buffer]
    BY <2>1 DEF Filled2, Filling
  <2>4. g.msg.code = RESP_ERROR_UNAUTHORIZED
    BY <2>3, CodeChanged
  <2> HIDE DEF g
  <2> QED BY <1>9, <2>2, <2>4
<1> QED BY <1>5, <1>6, <1>7, <1>8, <1>9 DEF HandlerIds

\* How a piece is read.
ReadAs(r, payload, data, n) ==
  IF ~r.found THEN payload = data
  ELSE /\ r.num \in Nat /\ r.size \in BlockSizeValues /\ r.size <= MAX_PAYLOAD_SIZE
       /\ r.num * r.size = n /\ n + Len(payload) <= Len(data)
       /\ payload = SubSeq(data, n + 1, n + Len(payload))
       /\ IF r.more THEN Len(payload) = r.size /\ n + Len(payload) < Len(data)
          ELSE n + Len(payload) = Len(data)

\* A client reads the piece as what it was cut out as.
LEMMA PieceIsRead ==
  ASSUME NEW opts \in Seq(Option), Sorted(opts), NEW payload, NEW data, NEW n,
         Piece(opts, payload, data, n)
  PROVE  ReadAs(GetBlockOptionFromMsg(opts, OPT_BLOCK2), payload, data, n)
<1> DEFINE r == GetBlockOptionFromMsg(opts, OPT_BLOCK2)
<1>1. CASE OptionsWith(opts, OPT_BLOCK2) = <<>> /\ payload = data
  <2>1. ~r.found
    BY <1>1, NoBlockIsRead
  <2> HIDE DEF r
  <2>2. ReadAs(r, payload, data, n)
    BY <1>1, <2>1 DEF ReadAs
  <2> QED BY <2>2 DEF r
<1>2. ASSUME NEW c,
             OptionsWith(opts, OPT_BLOCK2) = <<CoAP_option_t(OPT_BLOCK2, BlockBytes(c))>>,
             BlockBehind(c, payload, data, n)
      PROVE  ReadAs(r, payload, data, n)
  <2>1. ShortBlock(c)
    BY <1>2 DEF BlockBehind
  <2>2. r.found /\ r.num = c.num /\ r.size = c.size /\ (r.more <=> c.more)
    BY <1>2, <2>1, BlockIsRead
  <2>3. c.num \in Nat /\ c.size \in BlockSizeValues
    <3> DEFINE num == c.num
    <3>1. num \in ShortNumbers /\ c.size \in BlockSizeValues
      BY <2>1 DEF ShortBlock
    <3> HIDE DEF num
    <3>2. num \in Nat
      BY <3>1, ShortNumber
    <3> QED BY <3>1, <3>2 DEF num
  <2> HIDE DEF r
  <2> QED BY <1>2, <2>2, <2>3 DEF ReadAs, BlockBehind
<1> QED BY <1>1, <1>2 DEF Piece

(***************************************************************************)
(* The steps of an observation.                                            *)
(***************************************************************************)
\* A record with the fields of a message.
Shaped(m) ==
  m = [type |-> m.type, code |-> m.code, mid |-> m.mid, tok |-> m.tok,
       opts |-> m.opts, payload |-> m.payload]

\* A Notifier tells the first block of the representation, whatever options the
\* message has.
LEMMA NotifierTells ==
  ASSUME NEW r \in Representation, NEW m, Shaped(m), NEW b
  PROVE  \E opts : Notifier(m, b, r).msg
           = [type |-> m.type, code |-> m.code, mid |-> m.mid, tok |-> m.tok,
              opts |-> opts, payload |-> FirstBlock(r)]
<1> DEFINE data == Data(r)
           none == <<>>
           len == Len(data)
           first == WholeOrFirst(len)
           f == Notifier(m, b, r)
           w == f.msg
           all == FirstBlock(r)
<1>1. data \in Seq(Byte) /\ len = r.len /\ r.len \in Nat
  BY DataIsBytes DEF Representation
<1>2. ~GetBlockOptionFromMsg(none, OPT_BLOCK2).found
  <2>1. none \in Seq(Option) /\ Sorted(none)
    BY DEF Sorted
  <2>2. OptionsWith(none, OPT_BLOCK2) = <<>>
    BY RequestNumbers, NoneOfNone
  <2> HIDE DEF none
  <2> QED BY <2>1, <2>2, NoBlockIsRead
<1>3. f = CoAP_SetPayload(none, m, b, data, "VOLATILE")
  BY DEF Notifier
<1>4. MAX_PAYLOAD_SIZE \in Nat
  BY BlockwiseAssumption, WireAssumption
<1>5. CASE data = <<>>
  <2>1. w = [m EXCEPT !.payload = none]
    <3> HIDE DEF data
    <3> QED BY <1>3, <1>5 DEF CoAP_SetPayload
  <2>2. all = none
    <3>1. r.len = 0
      BY <1>1, <1>5
    <3>2. SubSeq(none, 1, 0) = none
      OBVIOUS
    <3> QED BY <1>4, <1>5, <3>1, <3>2 DEF FirstBlock
  <2>3. m = [type |-> m.type, code |-> m.code, mid |-> m.mid, tok |-> m.tok,
             opts |-> m.opts, payload |-> m.payload]
    BY DEF Shaped
  <2> HIDE DEF w, none, all
  <2>4. w = [type |-> m.type, code |-> m.code, mid |-> m.mid, tok |-> m.tok,
             opts |-> m.opts, payload |-> none]
    BY <2>1, <2>3, Zenon
  <2> QED BY <2>2, <2>4 DEF w, all
<1>6. CASE data # <<>>
  <2> DEFINE opts == IF first.more THEN AddBlkOptionToMsg(m.opts, OPT_BLOCK2, first)
                     ELSE m.opts
             k == BytesToSend(first)
             p == SubSeq(data, first.from + 1, first.from + k)
  <2>1. f = Filled(m, b, data, first, "VOLATILE", opts)
    <3> HIDE DEF data, none
    <3> QED BY <1>2, <1>3, <1>6 DEF CoAP_SetPayload, first, len
  <2>2. w = [m EXCEPT !.opts = opts, !.payload = p]
    <3> HIDE DEF opts, first, data
    <3> QED BY <2>1 DEF Filled
  <2>3. p = all
    <3>1. first.from = 0 /\ first.left = r.len /\ first.size = MAX_PAYLOAD_SIZE
      BY <1>1 DEF WholeOrFirst
    <3> HIDE DEF first
    <3>2. k = IF r.len > MAX_PAYLOAD_SIZE THEN MAX_PAYLOAD_SIZE ELSE r.len
      BY <3>1 DEF BytesToSend
    <3> HIDE DEF k
    <3>3. 0 + 1 = 1 /\ 0 + k = k
      BY <1>1, <1>4, <3>2
    <3> QED BY <3>1, <3>2, <3>3 DEF FirstBlock
  <2>4. m = [type |-> m.type, code |-> m.code, mid |-> m.mid, tok |-> m.tok,
             opts |-> m.opts, payload |-> m.payload]
    BY DEF Shaped
  <2> HIDE DEF w, p, opts, all
  <2>5. w = [type |-> m.type, code |-> m.code, mid |-> m.mid, tok |-> m.tok,
             opts |-> opts, payload |-> p]
    BY <2>2, <2>4, Zenon
  <2> QED BY <2>3, <2>5 DEF w, all
<1> QED BY <1>5, <1>6

\* The message of what a notifier returned, with other options.
WithOptions(f, new) == [f.msg EXCEPT !.opts = new]

\* The Observe option does not change what is told.
LEMMA NotificationTells ==
  ASSUME NEW r \in Representation, NEW m, Shaped(m), NEW b, NEW new
  PROVE  WithOptions(Notifier(m, b, r), new).payload = FirstBlock(r)
<1> DEFINE all == FirstBlock(r)
           v == Notifier(m, b, r).msg
           w == WithOptions(Notifier(m, b, r), new)
<1>1. PICK opts : v = [type |-> m.type, code |-> m.code, mid |-> m.mid,
                       tok |-> m.tok, opts |-> opts, payload |-> all]
  BY NotifierTells
<1>2. w = [v EXCEPT !.opts = new]
  BY DEF WithOptions
<1> HIDE DEF all, v, w
<1>3. w = [type |-> m.type, code |-> m.code, mid |-> m.mid, tok |-> m.tok,
           opts |-> new, payload |-> all]
  BY <1>1, <1>2, Zenon
<1>4. w.payload = all
  BY <1>3
<1> QED BY <1>4 DEF all, w

\* A datagram that carries a notification is lost.
LEMMA LoseTells ==
  ASSUME TransferInv, Told, Lose
  PROVE  Told'
BY DEF Told, Lose, FirstBlock, Data

\* A notification is sent.
LEMMA SendNotificationTells ==
  ASSUME TransferInv, Told, SendNotification
  PROVE  Told'
<1> DEFINE yes == TRUE
<1>1. /\ resp # NULL /\ SendResponse(resp.msg) /\ resp' = [resp EXCEPT !.sent = yes]
      /\ UNCHANGED <<rep, cnt, asked, client, toServer, sentReq>>
  BY DEF SendNotification
<1>2. resp \in Work
  BY <1>1 DEF TransferInv, ServerAtWork
<1>3. yes \in BOOLEAN
  OBVIOUS
<1>4. resp' = SentOnce(resp, yes)
  BY <1>1 DEF SentOnce
<1> HIDE DEF yes
<1>5. /\ resp'.kind = resp.kind /\ resp'.msg = resp.msg /\ resp'.upd = resp.upd
      /\ resp'.sent = yes
  BY <1>2, <1>3, <1>4, MarkedAsSent
<1>6. resp'.sent
  BY <1>5 DEF yes
<1>7. resp' # NULL
  BY SendNotificationStep, NullAssumption
<1>8. sentResp' = resp.msg
  BY <1>1 DEF SendResponse
<1>9. FirstBlock(rep)' = FirstBlock(rep)
  BY <1>1 DEF FirstBlock, Data
<1> QED BY <1>1, <1>5, <1>6, <1>7, <1>8, <1>9 DEF Told

\* The observer takes over what it is told.
LEMMA ReceiveNotificationTells ==
  ASSUME TransferInv, Told, ReceiveNotification
  PROVE  Told'
<1> DEFINE got == sentResp.payload
<1>1. /\ toClient # NULL /\ toClient' = NULL
      /\ client' = [client EXCEPT !.got = got]
      /\ resp' = IF resp.upd THEN resp ELSE NULL
      /\ UNCHANGED <<rep, cnt, asked, toServer, sentReq, sentResp>>
  BY DEF ReceiveNotification
<1>2. client = [state |-> client.state, size |-> client.size, got |-> client.got,
                since |-> client.since]
  BY FieldsOfClient DEF TransferInv, Taking
<1> HIDE DEF got
<1>3. client' = [state |-> client.state, size |-> client.size, got |-> got,
                 since |-> client.since]
  BY <1>1, <1>2, Zenon
<1>4. client'.state = client.state /\ client'.got = got
  BY <1>3
<1>5. FirstBlock(rep)' = FirstBlock(rep)
  BY <1>1 DEF FirstBlock, Data
<1>6. CASE resp.upd
  BY <1>1, <1>4, <1>5, <1>6 DEF Told
<1>7. CASE ~resp.upd
  <2>1. got = FirstBlock(rep)
    BY <1>1, <1>7 DEF Told, got
  <2> QED BY <1>1, <1>4, <1>5, <1>7, <2>1 DEF Told
<1> QED BY <1>6, <1>7

\* The message is used for the newer representation.
LEMMA RefreshNotificationTells ==
  ASSUME TransferInv, Told, RefreshNotification
  PROVE  Told'
<1> DEFINE mid == (resp.msg.mid + 1) % 65536
           m == [resp.msg EXCEPT !.mid = mid]
           done == Notifier(m, resp.buf, rep)
           new == UpdateObserveOptionInMsg(done.msg.opts, cnt)
           w == [done.msg EXCEPT !.opts = new]
           no == FALSE
           buf == done.buf
<1>1. /\ resp # NULL /\ toClient = NULL
      /\ resp' = [resp EXCEPT !.msg = w, !.buf = buf, !.cnt = cnt,
                              !.upd = no, !.sent = no]
      /\ UNCHANGED <<rep, cnt, asked, client, toServer, toClient, sentReq, sentResp>>
  BY DEF RefreshNotification
<1>2. /\ resp \in Work /\ rep \in Representation
  BY <1>1 DEF TransferInv, ServerAtWork, Taking
<1>3. /\ resp = [kind |-> resp.kind, req |-> resp.req, res |-> resp.res, msg |-> resp.msg,
                 buf |-> resp.buf, upd |-> resp.upd, sent |-> resp.sent, cnt |-> resp.cnt]
      /\ resp.msg \in Message
  BY <1>2, FieldsOfWork
<1>4. Shaped(m)
  <2> DEFINE v == resp.msg
  <2>1. v = [type |-> v.type, code |-> v.code, mid |-> v.mid, tok |-> v.tok,
             opts |-> v.opts, payload |-> v.payload]
    BY <1>3, FieldsOfMessage
  <2>2. m = [v EXCEPT !.mid = mid]
    OBVIOUS
  <2> HIDE DEF v, m, mid
  <2>3. m = [type |-> v.type, code |-> v.code, mid |-> mid, tok |-> v.tok,
             opts |-> v.opts, payload |-> v.payload]
    BY <2>1, <2>2, Zenon
  <2> QED BY <2>3 DEF Shaped
<1>5. w.payload = FirstBlock(rep)
  <2> HIDE DEF m, new
  <2>1. rep \in Representation
    BY <1>2
  <2>2. w = WithOptions(done, new)
    BY DEF WithOptions
  <2> HIDE DEF w
  <2>3. WithOptions(done, new).payload = FirstBlock(rep)
    BY ONLY <1>4, <2>1, NotificationTells
  <2> QED BY <2>2, <2>3
<1> HIDE DEF w, buf, no
<1>6. resp' = [kind |-> resp.kind, req |-> resp.req, res |-> resp.res, msg |-> w,
               buf |-> buf, upd |-> no, sent |-> no, cnt |-> cnt]
  BY <1>1, <1>3, Zenon
<1>7. resp'.kind = resp.kind /\ resp'.msg = w
  BY <1>6
<1>8. resp' # NULL
  BY RefreshNotificationStep, NullAssumption
<1>9. FirstBlock(rep)' = FirstBlock(rep)
  BY <1>1 DEF FirstBlock, Data
<1> QED BY <1>1, <1>5, <1>7, <1>8, <1>9 DEF Told

\* A change starts a notification, or flags the one under way.
LEMMA NotifyObserversTells ==
  ASSUME TransferInv, Told, NotifyObservers
  PROVE  Told'
<1>1. /\ client.state = "OBSERVING"
      /\ UNCHANGED <<asked, client, toServer, toClient, sentReq, sentResp>>
  BY DEF NotifyObservers
<1>2. PICK len \in NotifyLengths : rep' = [len |-> len, ver |-> rep.ver + 1]
  BY DEF NotifyObservers
<1>3. rep'.len \in NotifyLengths
  BY <1>2
<1>4. resp' # NULL /\ TransferInv'
  BY NotifyObserversStep, NullAssumption
<1>5. rep' \in Representation
  BY <1>4 DEF TransferInv, Taking
<1>6. CASE resp # NULL
  <2> DEFINE yes == TRUE
  <2>1. resp' = Flagged(resp, yes)
    BY <1>6 DEF NotifyObservers, Flagged
  <2>2. resp \in Work /\ yes \in BOOLEAN
    BY <1>6 DEF TransferInv, ServerAtWork
  <2> HIDE DEF yes
  <2>3. /\ resp'.kind = resp.kind /\ resp'.sent = resp.sent
        /\ resp'.msg = resp.msg /\ resp'.upd = yes
    BY <2>1, <2>2, FlagRaised
  <2>4. resp'.upd
    BY <2>3 DEF yes
  <2> QED BY <1>1, <1>3, <1>4, <1>6, <2>3, <2>4 DEF Told
<1>7. CASE resp = NULL
  <2> DEFINE m == CreateMessage(CON, RESP_CONTENT, ServerMid, asked.tok)
             b == OwnBuffer(PREFERED_PAYLOAD_SIZE)
             c == cnt'
             r == rep'
             done == Notifier(m, b, r)
             new == AddObserveOptionToMsg(done.msg.opts, c)
             w == [done.msg EXCEPT !.opts = new]
             kind == "NOTIFICATION"
             no == FALSE
             zero == 0
             work == Working(kind, m, NULL, m)
             buf == done.buf
  <2>1. resp' = [work EXCEPT !.msg = w, !.buf = buf, !.cnt = c]
    BY <1>7 DEF NotifyObservers
  <2>2. Shaped(m)
    BY DEF Shaped, CreateMessage
  <2>3. w.payload = FirstBlock(r)
    <3> HIDE DEF m, new, r, b
    <3>1. r \in Representation
      BY <1>5 DEF r
    <3>2. w = WithOptions(done, new)
      BY DEF WithOptions
    <3> HIDE DEF w
    <3>3. WithOptions(done, new).payload = FirstBlock(r)
      BY ONLY <2>2, <3>1, NotificationTells
    <3> QED BY <3>2, <3>3
  <2>4. work = [kind |-> kind, req |-> m, res |-> NULL, msg |-> m, buf |-> b,
                upd |-> no, sent |-> no, cnt |-> zero]
    BY DEF Working
  <2> HIDE DEF w, buf, m, b, c, kind, work, no, zero
  <2>5. resp' = [kind |-> kind, req |-> m, res |-> NULL, msg |-> w, buf |-> buf,
                 upd |-> no, sent |-> no, cnt |-> c]
    BY <2>1, <2>4, Zenon
  <2>6. resp'.kind = kind /\ resp'.msg = w
    BY <2>5
  <2>7. resp'.kind = "NOTIFICATION" /\ resp'.msg.payload = FirstBlock(rep)'
    <3>1. FirstBlock(r) = FirstBlock(rep)'
      BY DEF FirstBlock, Data, r
    <3> QED BY <2>3, <2>6, <3>1 DEF kind
  <2>8. toClient = NULL
    BY <1>7 DEF Told
  <2> QED BY <1>1, <1>3, <1>4, <2>7, <2>8 DEF Told
<1> QED BY <1>6, <1>7

\* No request is answered while a resource is observed.
LEMMA ToldSteps ==
  ASSUME TransferInv, Told, TransferNext
  PROVE  Told'
<1>1. ~SendRequest
  BY DEF Told, SendRequest
<1>2. ~ReceiveResponse
  BY DEF Told, ReceiveResponse
<1>3. ~ReceiveUnknownResource /\ ~ReceiveBadOption /\ ~ReceiveRequest
  BY DEF Told, ReceiveUnknownResource, ReceiveBadOption, ReceiveRequest
<1>4. ~Answer /\ ~FreeResponse
  BY DEF Told, Answer, FreeResponse
<1>5. ~ChangeRepresentation
  BY DEF Told, ChangeRepresentation
<1> QED BY <1>1, <1>2, <1>3, <1>4, <1>5, LoseTells, SendNotificationTells,
           ReceiveNotificationTells, RefreshNotificationTells, NotifyObserversTells
        DEF TransferNext

(***************************************************************************)
(* The steps of a request and its answer.                                  *)
(***************************************************************************)
\* A request is the same as long as what the client has is.
LEMMA SameRequest ==
  ASSUME UNCHANGED asked, client'.size = client.size, client'.got = client.got
  PROVE  RequestMsg' = RequestMsg
<1>1. RequestOptions' = RequestOptions
  BY DEF RequestOptions, Block2Wish
<1> QED BY <1>1 DEF RequestMsg

\* The options of a request.
LEMMA RequestOfOptions == RequestMsg.opts = RequestOptions
<1> DEFINE m == CreateMessage(CON, REQ_GET, 5, asked.tok)
           R == RequestOptions
<1>1. m = [type |-> CON, code |-> REQ_GET, mid |-> 5, tok |-> asked.tok,
           opts |-> <<>>, payload |-> <<>>]
  BY DEF CreateMessage
<1>2. RequestMsg = [m EXCEPT !.opts = R]
  BY DEF RequestMsg
<1> HIDE DEF m, R
<1> QED BY <1>1, <1>2 DEF R

\* A request on its way is what the client asks for.
LEMMA AskedRequest ==
  ASSUME TransferInv, Asking, ~asked.observe, toServer # NULL
  PROVE  /\ Incoming.msg = RequestMsg /\ Incoming.msg.opts = RequestOptions
         /\ asked \in Requests /\ client \in Client
         /\ asked.target = Meant(asked) /\ asked.refused = Refusal(asked)
<1>1. Incoming.msg = RequestMsg
  BY RequestArrives DEF Asking
<1>2. asked \in Requests /\ client \in Client
  BY DEF TransferInv, Taking
<1>3. RequestMsg.opts = RequestOptions
  BY RequestOfOptions
<1>4. asked.target = Meant(asked) /\ asked.refused = Refusal(asked)
  BY <1>2, RequestAssumption
<1> QED BY <1>1, <1>2, <1>3, <1>4

\* Only the resource a request means may refuse it: whom a handler refuses, or
\* nobody, means a resource and asks for nothing the server does not know.
LEMMA WhoRefuses ==
  ASSUME NEW r
  PROVE  /\ Meant(r) = NoResource => Refusal(r) = "NO_RESOURCE"
         /\ Meant(r) # NoResource /\ AsksUnknown(r) => Refusal(r) = "BAD_OPTION"
         /\ Meant(r) # NoResource /\ ~AsksUnknown(r)
              => Refusal(r) \in {"NEVER", "BY_HANDLER"}
         /\ Meant(r) = "config" /\ ~AsksUnknown(r) /\ ~HasKey(r)
              => Refusal(r) # "NEVER"
BY DEF Refusal, NoResource

\* The invariant of requests reads nothing but these variables.
LEMMA TransferStays ==
  ASSUME UNCHANGED <<rep, asked, client>>
  PROVE  /\ InBlocks' = InBlocks /\ SoFar' = SoFar /\ Unchanged' = Unchanged
         /\ Refusable' = Refusable /\ RequestMsg' = RequestMsg /\ Data(rep)' = Data(rep)
<1>1. RequestMsg' = RequestMsg
  BY SameRequest
<1>2. Unchanged' = Unchanged /\ Refusable' = Refusable /\ Data(rep)' = Data(rep)
  BY DEF Unchanged, Refusable
<1>3. InBlocks' = InBlocks
  BY DEF InBlocks
<1>4. SoFar' = SoFar
  BY <1>2 DEF SoFar
<1> QED BY <1>1, <1>2, <1>3, <1>4

\* A datagram is lost.
LEMMA LoseAsks ==
  ASSUME TransferInv, Asking, Lose
  PROVE  Asking'
<1>1. /\ UNCHANGED <<rep, cnt, asked, client, sentReq, sentResp, resp>>
      /\ UNCHANGED toServer \/ toServer' = NULL
      /\ UNCHANGED toClient \/ toClient' = NULL
  BY DEF Lose
<1> QED BY <1>1, TransferStays DEF Asking

\* A response is released.
LEMMA FreeResponseAsks ==
  ASSUME TransferInv, Asking, FreeResponse
  PROVE  Asking'
<1>1. /\ UNCHANGED <<rep, cnt, asked, client, toServer, toClient, sentReq, sentResp>>
      /\ resp' = NULL
  BY DEF FreeResponse
<1> QED BY <1>1, TransferStays DEF Asking

\* The representation changes: nothing is said about it any more.
LEMMA ChangeRepresentationAsks ==
  ASSUME TransferInv, Asking, ChangeRepresentation
  PROVE  Asking'
<1>1. /\ client.state = "WAITING"
      /\ UNCHANGED <<cnt, asked, client, toServer, toClient, sentReq, sentResp, resp>>
  BY DEF ChangeRepresentation
<1>2. PICK n \in Lengths : rep' = [len |-> n, ver |-> rep.ver + 1]
  BY DEF ChangeRepresentation
<1>3. rep'.len \in Lengths /\ rep'.ver = rep.ver + 1 /\ rep.ver \in Nat /\ client.since \in Nat
  BY <1>2 DEF TransferInv, Taking, Representation, Client
<1>4. client.since <= rep'.ver /\ client.since # rep'.ver
  BY <1>3 DEF Asking
<1>5. ~Unchanged'
  BY <1>1, <1>4 DEF Unchanged
<1>6. RequestMsg' = RequestMsg
  BY <1>1, SameRequest
<1>7. InBlocks' = InBlocks /\ SoFar'
  BY <1>1, <1>5 DEF InBlocks, SoFar
<1> QED BY <1>1, <1>3, <1>4, <1>5, <1>6, <1>7 DEF Asking

\* The client asks.
LEMMA SendRequestAsks ==
  ASSUME TransferInv, Asking, SendRequest
  PROVE  Asking'
<1> DEFINE v == IF client.state = "IDLE" THEN rep.ver ELSE client.since
           waiting == "WAITING"
<1>1. /\ client.state \in {"IDLE", "WAITING"}
      /\ toServer = NULL /\ toClient = NULL /\ resp = NULL
      /\ sentReq' = RequestMsg
      /\ client' = [client EXCEPT !.state = waiting, !.since = v]
      /\ UNCHANGED <<rep, cnt, asked, toClient, sentResp, resp>>
  BY DEF SendRequest
<1>2. /\ client = [state |-> client.state, size |-> client.size, got |-> client.got,
                   since |-> client.since]
      /\ client.got \in Seq(Byte) /\ client.since \in Nat /\ rep.ver \in Nat
  BY FieldsOfClient DEF TransferInv, Taking, Client, Representation
<1> HIDE DEF v, waiting
<1>3. client' = [state |-> waiting, size |-> client.size, got |-> client.got, since |-> v]
  BY <1>1, <1>2, Zenon
<1>4. /\ client'.state = "WAITING" /\ client'.size = client.size
      /\ client'.got = client.got /\ client'.since = v
  BY <1>3 DEF waiting
<1>5. v <= rep.ver
  BY <1>2 DEF v, Asking
<1>6. RequestMsg' = RequestMsg
  BY <1>1, <1>4, SameRequest
<1>7. Data(rep)' = Data(rep)
  BY <1>1
<1>8. CASE client.state = "IDLE"
  <2>1. client.got = <<>>
    BY <1>8 DEF Asking
  <2>2. InBlocks'
    BY <1>4, <2>1 DEF InBlocks
  <2>3. SubSeq(Data(rep), 1, Len(client.got)) = client.got
    <3>1. Len(client.got) = 0
      BY <2>1
    <3>2. SubSeq(Data(rep), 1, 0) = <<>>
      <4> DEFINE data == Data(rep)
      <4>1. data \in Seq(Byte)
        BY DataIsBytes DEF TransferInv, Taking
      <4> HIDE DEF data
      <4>2. SubSeq(data, 1, 0) = <<>>
        BY <4>1, SubSeqEmpty
      <4> QED BY <4>2 DEF data
    <3> QED BY <2>1, <3>1, <3>2
  <2>4. SoFar'
    BY <1>1, <1>4, <1>7, <2>1, <2>3 DEF SoFar
  <2> QED BY <1>1, <1>4, <1>5, <1>6, <2>2, <2>4 DEF Asking
<1>9. CASE client.state = "WAITING"
  <2>1. v = client.since
    BY <1>9 DEF v
  <2>2. InBlocks'
    BY <1>1, <1>4, <1>9 DEF InBlocks, Asking
  <2>3. SoFar'
    BY <1>1, <1>4, <1>7, <1>9, <2>1 DEF SoFar, Asking, Unchanged
  <2> QED BY <1>1, <1>4, <1>5, <1>6, <2>2, <2>3 DEF Asking
<1> QED BY <1>1, <1>8, <1>9

\* A refusal leads on.
LEMMA RefusalLeadsOn ==
  ASSUME NEW m, NEW n, m.code >= RESP_BAD_REQUEST
  PROVE  LeadsOn(m, n)
BY DEF LeadsOn

\* A short answer leads on, if the client may be refused.
LEMMA ShortAsks ==
  ASSUME TransferInv, Asking, toServer # NULL, Refusable,
         NEW code \in {RESP_NOT_FOUND, RESP_BAD_OPTION},
         CoAP_SendShortResp(ACK, code, Incoming.msg.mid, Incoming.msg.tok),
         toServer' = NULL, UNCHANGED <<rep, cnt, asked, client, sentReq, resp>>
  PROVE  Asking'
<1> DEFINE mid == Incoming.msg.mid
           tok == Incoming.msg.tok
           none == <<>>
           w == [EmptyResetMsg EXCEPT !.type = ACK, !.mid = mid, !.code = code,
                                      !.tok = tok]
<1>1. sentResp' = w
  BY DEF CoAP_SendShortResp, SendResponse
<1>2. EmptyResetMsg = [type |-> RST, code |-> EMPTY, mid |-> 0, tok |-> NoToken,
                       opts |-> none, payload |-> none]
  BY DEF EmptyResetMsg
<1> HIDE DEF none, mid, tok
<1>0. w = [EmptyResetMsg EXCEPT !.type = ACK, !.mid = mid, !.code = code, !.tok = tok]
  OBVIOUS
<1> HIDE DEF w
<1>3. w = [type |-> ACK, code |-> code, mid |-> mid, tok |-> tok,
           opts |-> none, payload |-> none]
  BY <1>0, <1>2, Zenon
<1>4. w.code >= RESP_BAD_REQUEST
  BY <1>3 DEF RESP_BAD_REQUEST, RESP_NOT_FOUND, RESP_BAD_OPTION
<1>5. LeadsOn(w, Len(client.got))
  BY <1>4, RefusalLeadsOn
<1>7. client.state = "WAITING" /\ resp = NULL
  BY DEF Asking
<1> QED BY <1>1, <1>4, <1>5, <1>7, TransferStays DEF Asking

\* There is no such resource.
LEMMA ReceiveUnknownResourceAsks ==
  ASSUME TransferInv, Asking, ~asked.observe, ReceiveUnknownResource
  PROVE  Asking'
<1>1. /\ toServer # NULL /\ toServer' = NULL
      /\ CoAP_FindResourceByUri(resources, Incoming.msg.opts) = NoResource
      /\ CoAP_SendShortResp(ACK, RESP_NOT_FOUND, Incoming.msg.mid, Incoming.msg.tok)
      /\ UNCHANGED <<rep, cnt, asked, client, sentReq, resp>>
  BY DEF ReceiveUnknownResource
<1>2. Meant(asked) = NoResource
  BY <1>1, AskedRequest, MeantIsFound
<1>3. Refusable
  BY <1>1, <1>2, AskedRequest, WhoRefuses DEF Refusable
<1> QED BY <1>1, <1>3, ShortAsks

\* There is a critical option the server does not know.
LEMMA ReceiveBadOptionAsks ==
  ASSUME TransferInv, Asking, ~asked.observe, ReceiveBadOption
  PROVE  Asking'
<1>1. /\ toServer # NULL /\ toServer' = NULL
      /\ CoAP_FindResourceByUri(resources, Incoming.msg.opts) # NoResource
      /\ CoAP_CheckForUnknownCriticalOption(Incoming.msg.opts) # 0
      /\ CoAP_SendShortResp(ACK, RESP_BAD_OPTION, Incoming.msg.mid, Incoming.msg.tok)
      /\ UNCHANGED <<rep, cnt, asked, client, sentReq, resp>>
  BY DEF ReceiveBadOption
<1>2. Meant(asked) # NoResource /\ AsksUnknown(asked)
  BY <1>1, AskedRequest, MeantIsFound, UnknownIsSeen
<1>3. Refusable
  BY <1>1, <1>2, AskedRequest, WhoRefuses DEF Refusable
<1> QED BY <1>1, <1>3, ShortAsks

\* The resource the client means gets to work.
LEMMA ReceiveRequestAsks ==
  ASSUME TransferInv, Asking, ~asked.observe, ReceiveRequest
  PROVE  Asking'
<1> DEFINE m == Incoming.msg
           res == CoAP_FindResourceByUri(resources, m.opts)
           new == CreateMessage(ACK, EMPTY, m.mid, m.tok)
           kind == "REQUEST"
           b == OwnBuffer(PREFERED_PAYLOAD_SIZE)
           no == FALSE
           zero == 0
<1>1. /\ toServer # NULL /\ toServer' = NULL /\ res # NoResource
      /\ CoAP_CheckForUnknownCriticalOption(m.opts) = 0
      /\ resp' = Working(kind, m, res, new)
      /\ UNCHANGED <<rep, cnt, asked, client, toClient, sentReq, sentResp>>
  BY DEF ReceiveRequest
<1>2. m = RequestMsg /\ res = Meant(asked) /\ ~AsksUnknown(asked)
  BY <1>1, AskedRequest, MeantIsFound, UnknownIsSeen
<1>3. resp' = [kind |-> kind, req |-> m, res |-> res, msg |-> new, buf |-> b,
               upd |-> no, sent |-> no, cnt |-> zero]
  BY <1>1 DEF Working
<1>4. asked.refused \in {"NEVER", "BY_HANDLER"} /\ asked.target = res
  BY <1>1, <1>2, AskedRequest, WhoRefuses
<1> HIDE DEF m, res, new, kind, b, no, zero
<1>5. resp'.kind = "REQUEST" /\ resp'.req = m /\ resp'.res = res
  BY <1>3 DEF kind
<1>6. client.state = "WAITING" /\ toClient = NULL
  BY <1>1 DEF Asking
<1> QED BY <1>1, <1>2, <1>4, <1>5, <1>6, TransferStays DEF Asking

\* What is read leads on.
LEMMA ReadLeadsOn ==
  ASSUME NEW m, m.code = RESP_CONTENT, NEW data, Len(data) \in Nat, Len(data) < 65536,
         NEW n \in Nat, Len(m.payload) \in Nat,
         ReadAs(Block2(m), m.payload, data, n)
  PROVE  LeadsOn(m, n)
<1> DEFINE b == Block2(m)
           payload == m.payload
<1>1. CASE ~b.found
  BY <1>1 DEF LeadsOn
<1>2. CASE b.found
  <2>1. /\ b.num \in Nat /\ b.size \in BlockSizeValues /\ b.size <= MAX_PAYLOAD_SIZE
        /\ b.num * b.size = n
        /\ b.more => Len(payload) = b.size /\ n + Len(payload) < Len(data)
    BY <1>2 DEF ReadAs
  <2>2. b.more => n + Len(payload) < 65536
    <3> DEFINE k == n + Len(payload)
               e == Len(data)
    <3>1. k \in Nat /\ e \in Nat /\ e < 65536 /\ (b.more => k < e)
      BY <2>1
    <3> HIDE DEF k, e, b
    <3>2. b.more => k < 65536
      BY <3>1
    <3> QED BY <3>2 DEF k
  <2> HIDE DEF b
  <2>3. m.code = RESP_CONTENT /\ (b.found =>
          /\ b.num \in Nat /\ b.size \in BlockSizeValues
          /\ b.size <= MAX_PAYLOAD_SIZE /\ b.num * b.size = n
          /\ b.more => Len(m.payload) = b.size /\ n + Len(m.payload) < 65536)
    BY <2>1, <2>2
  <2> QED BY <2>3 DEF LeadsOn, b
<1> QED BY <1>1, <1>2

\* Two parts of data, one behind the other.
LEMMA PartsJoin ==
  ASSUME NEW data \in Seq(Byte), NEW n \in Nat, NEW k \in Nat, n + k <= Len(data)
  PROVE  SubSeq(data, 1, n) \o SubSeq(data, n + 1, n + k) = SubSeq(data, 1, n + k)
<1> DEFINE e == Len(data)
           j == n + k
           one == 1
<1>1. e \in Nat
  BY LenProperties
<1>2. one \in 1..Len(data)+1 /\ n \in one-1..Len(data) /\ j \in n..Len(data)
  BY <1>1
<1> HIDE DEF e, j, one
<1>3. SubSeq(data, one, n) \o SubSeq(data, n+1, j) = SubSeq(data, one, j)
  BY <1>2, ConcatAdjacentSubSeq
<1> QED BY <1>3 DEF one, j

\* What is read tells what follows.
LEMMA ReadTells ==
  ASSUME NEW r \in Representation, NEW m, Len(m.payload) \in Nat,
         NEW got, NEW n \in Nat, n = Len(got), got = SubSeq(Data(r), 1, n),
         ReadAs(Block2(m), m.payload, Data(r), n)
  PROVE  Tells(m, got, r)
<1> DEFINE b == Block2(m)
           payload == m.payload
           data == Data(r)
<1>1. data \in Seq(Byte) /\ Len(data) = r.len
  BY DataIsBytes
<1>2. CASE ~b.found
  <2>1. payload = data
    BY <1>2 DEF ReadAs
  <2> QED BY <1>2, <2>1 DEF Tells
<1>3. CASE b.found
  <2> DEFINE k == Len(payload)
  <2>1. /\ n + k <= Len(data) /\ payload = SubSeq(data, n + 1, n + k)
        /\ IF b.more THEN n + k < Len(data) ELSE n + k = Len(data)
    BY <1>3 DEF ReadAs
  <2>2. k \in Nat
    OBVIOUS
  <2>3. got \o payload = SubSeq(data, 1, n + k)
    <3>1. got = SubSeq(data, 1, n)
      OBVIOUS
    <3> HIDE DEF k, payload, data, b
    <3> QED BY <1>1, <2>1, <2>2, <3>1, PartsJoin
  <2>4. /\ got \o payload = SubSeq(data, 1, Len(got) + Len(payload))
        /\ IF b.more THEN Len(got) + Len(payload) < r.len
           ELSE Len(got) + Len(payload) = r.len
    BY <1>1, <2>1, <2>3
  <2> HIDE DEF b
  <2> QED BY <1>3, <2>4 DEF Tells, b
<1> QED BY <1>2, <1>3

\* The code that a response without one gets.
LEMMA ContentCode ==
  ASSUME NEW w \in Message, NEW m, m = [w EXCEPT !.code = RESP_CONTENT]
  PROVE  m.code = RESP_CONTENT /\ m.opts = w.opts /\ m.payload = w.payload
<1> DEFINE code == RESP_CONTENT
<1>1. w = [type |-> w.type, code |-> w.code, mid |-> w.mid, tok |-> w.tok,
           opts |-> w.opts, payload |-> w.payload]
  BY FieldsOfMessage
<1>2. m = [w EXCEPT !.code = code]
  OBVIOUS
<1> HIDE DEF code
<1>3. m = [type |-> w.type, code |-> code, mid |-> w.mid, tok |-> w.tok,
           opts |-> w.opts, payload |-> w.payload]
  BY <1>1, <1>2, Zenon
<1> QED BY <1>3 DEF code

\* The handler answers: what it says is true of the representation.
LEMMA AnswerAsks ==
  ASSUME TransferInv, Asking, ~asked.observe, Answer
  PROVE  Asking'
<1> DEFINE done == Handler(resp.res, resp.req, resp.msg, resp.buf)
           m == IF done.msg.code # EMPTY THEN done.msg
                ELSE [done.msg EXCEPT !.code = RESP_CONTENT]
           yes == TRUE
           n == Len(client.got)
           data == Data(rep)
           buf == done.buf
<1>1. /\ resp # NULL /\ resp.kind = "REQUEST" /\ ~resp.sent /\ SendResponse(m)
      /\ resp' = [resp EXCEPT !.msg = m, !.buf = buf, !.sent = yes]
      /\ UNCHANGED <<rep, cnt, asked, client, toServer, sentReq>>
  BY DEF Answer
<1>2. resp \in Work /\ Answering(resp)
  BY <1>1 DEF TransferInv, ServerAtWork
<1>3. /\ resp.req \in Message /\ resp.req.opts \in Seq(Option)
      /\ resp.msg \in Message /\ resp.msg.opts = <<>> /\ resp.msg.code = EMPTY
      /\ resp.buf = OwnBuffer(PREFERED_PAYLOAD_SIZE) /\ resp.res \in HandlerIds
      /\ Sorted(resp.req.opts)
  BY <1>1, <1>2, FieldsOfWork, FieldsOfMessage DEF Answering
<1>4. /\ rep \in Representation /\ asked \in Requests /\ client \in Client
      /\ asked.target = Meant(asked) /\ asked.refused = Refusal(asked)
  BY RequestAssumption DEF TransferInv, Taking
<1>5. /\ client.state = "WAITING" /\ toServer = NULL /\ resp.req = RequestMsg
      /\ resp.res = asked.target /\ asked.refused \in {"NEVER", "BY_HANDLER"}
      /\ InBlocks /\ SoFar /\ rep.len \in Lengths
  BY <1>1 DEF Asking
<1>6. resp.req.opts = RequestOptions
  BY <1>5, RequestOfOptions
<1>7. Wishes(resp.req.opts, n) /\ n \in Nat /\ client.got \in Seq(Byte)
  BY <1>4, <1>5, <1>6, WishIsRead, FieldsOfClient, LenProperties
<1>8. \/ /\ done.msg.code = RESP_ERROR_UNAUTHORIZED /\ resp.res = "config"
         /\ ~KeyOk(resp.req.opts)
      \/ PieceOf(done.msg, data, n)
  <2> HIDE DEF n
  <2> QED BY <1>3, <1>4, <1>7, HandlerTells
<1>9. data \in Seq(Byte) /\ Len(data) = rep.len /\ rep.len \in Nat /\ rep.len < 65536
  BY <1>4, <1>5, DataIsBytes, TransferAssumption DEF Representation
<1>10. Handled(done, resp.msg)
  BY <1>3, <1>4, HandlerAnswers
<1> HIDE DEF done
<1>11. m = IF done.msg.code # EMPTY THEN done.msg
           ELSE [done.msg EXCEPT !.code = RESP_CONTENT]
  OBVIOUS
<1> HIDE DEF m
<1>12. m \in Message /\ Sorted(m.opts) /\ Len(m.payload) \in Nat
  <2>1. Sendable(m)
    BY <1>3, <1>4, <1>10, <1>11, AnswerIsSendable
  <2>2. m \in Message /\ Sorted(m.opts)
    BY <2>1 DEF Sendable, Packable
  <2> QED BY <2>2, FieldsOfMessage, LenProperties
<1>13. resp'.kind = resp.kind /\ resp'.res = resp.res /\ resp'.sent
  <2>1. /\ resp = [kind |-> resp.kind, req |-> resp.req, res |-> resp.res,
                   msg |-> resp.msg, buf |-> resp.buf, upd |-> resp.upd,
                   sent |-> resp.sent, cnt |-> resp.cnt]
    BY <1>2, FieldsOfWork
  <2> HIDE DEF yes, buf
  <2>2. resp' = [kind |-> resp.kind, req |-> resp.req, res |-> resp.res,
                 msg |-> m, buf |-> buf, upd |-> resp.upd,
                 sent |-> yes, cnt |-> resp.cnt]
    BY <1>1, <2>1, Zenon
  <2> QED BY <2>2 DEF yes
<1>14. LeadsOn(m, n) /\ (Unchanged => IF m.code >= RESP_BAD_REQUEST THEN Refusable
                                       ELSE Tells(m, client.got, rep))
  <2>1. CASE done.msg.code = RESP_ERROR_UNAUTHORIZED /\ resp.res = "config"
             /\ ~KeyOk(resp.req.opts)
    <3>1. m.code >= RESP_BAD_REQUEST
      BY <1>11, <2>1 DEF RESP_ERROR_UNAUTHORIZED, RESP_BAD_REQUEST, EMPTY
    <3>2. ~HasKey(asked)
      BY <1>4, <1>6, <2>1, KeyIsFound
    <3>3. Refusable
      BY <1>4, <1>5, <2>1, <3>2 DEF Refusable, Refusal
    <3> QED BY <3>1, <3>3, RefusalLeadsOn
  <2>2. CASE done.msg.code = RESP_BAD_OPTION /\ n # 0 /\ Len(data) <= n
    <3>1. m.code >= RESP_BAD_REQUEST
      BY <1>11, <2>2 DEF RESP_BAD_OPTION, RESP_BAD_REQUEST, EMPTY
    <3>2. ~Unchanged
      <4>1. client.got # <<>>
        BY <2>2
      <4>2. Unchanged => n < rep.len
        BY <1>5, <4>1 DEF SoFar
      <4> HIDE DEF n
      <4> QED BY <1>7, <1>9, <2>2, <4>2
    <3> QED BY <3>1, <3>2, RefusalLeadsOn
  <2>3. CASE done.msg.code = EMPTY /\ Piece(done.msg.opts, done.msg.payload, data, n)
    <3>1. done.msg \in Message
      BY <1>10 DEF Handled, Filling
    <3>2. m.code = RESP_CONTENT /\ m.opts = done.msg.opts /\ m.payload = done.msg.payload
      BY <1>11, <2>3, <3>1, ContentCode
    <3>3. ReadAs(Block2(m), m.payload, data, n)
      <4> HIDE DEF data, n
      <4>1. Piece(m.opts, m.payload, data, n) /\ m.opts \in Seq(Option)
        BY <1>12, <2>3, <3>2, FieldsOfMessage
      <4> QED BY <1>12, <4>1, PieceIsRead DEF Block2
    <3>4. LeadsOn(m, n)
      <4> HIDE DEF data, n
      <4> QED BY <1>7, <1>9, <1>12, <3>2, <3>3, ReadLeadsOn
    <3>5. ~(m.code >= RESP_BAD_REQUEST)
      BY <3>2 DEF RESP_CONTENT, RESP_BAD_REQUEST
    <3>6. Unchanged => Tells(m, client.got, rep)
      <4>1. Unchanged => client.got = SubSeq(Data(rep), 1, n)
        BY <1>5 DEF SoFar
      <4>2. n = Len(client.got)
        OBVIOUS
      <4> HIDE DEF n
      <4> QED BY <1>4, <1>7, <1>12, <3>3, <4>1, <4>2, ReadTells DEF data
    <3> QED BY <3>4, <3>5, <3>6
  <2> QED BY <1>8, <2>1, <2>2, <2>3 DEF PieceOf
<1>15. sentResp' = m
  BY <1>1 DEF SendResponse
<1> QED BY <1>1, <1>5, <1>13, <1>14, <1>15, TransferStays DEF Asking

\* A block size divides every larger one.
LEMMA SizesDivide ==
  ASSUME NEW s \in BlockSizeValues, NEW t \in BlockSizeValues, s <= t
  PROVE  \E k \in Nat : t = k * s
<1>1. t \div s \in Nat /\ t = (t \div s) * s
  <2>1. CASE s = 16 BY <2>1 DEF BlockSizeValues
  <2>2. CASE s = 32 BY <2>2 DEF BlockSizeValues
  <2>3. CASE s = 64 BY <2>3 DEF BlockSizeValues
  <2>4. CASE s = 128 BY <2>4 DEF BlockSizeValues
  <2>5. CASE s = 256 BY <2>5 DEF BlockSizeValues
  <2>6. CASE s = 512 BY <2>6 DEF BlockSizeValues
  <2>7. CASE s = 1024 BY <2>7 DEF BlockSizeValues
  <2> QED BY <2>1, <2>2, <2>3, <2>4, <2>5, <2>6, <2>7 DEF BlockSizeValues
<1> QED BY <1>1

\* Whole blocks are whole smaller blocks.
LEMMA InSmallerBlocks ==
  ASSUME NEW s \in BlockSizeValues, NEW t \in BlockSizeValues, s <= t,
         NEW num \in Nat, NEW n, n = num * t + t
  PROVE  n \in Nat /\ \E k \in 0..n : n = k * s
<1>1. PICK q \in Nat : t = q * s
  BY SizesDivide
<1>2. s \in Nat /\ s > 0 /\ t \in Nat
  BY SizeOfBlock
<1> DEFINE k == (num + 1) * q
<1>3. k \in Nat
  BY <1>1
<1>4. n = (num + 1) * t
  BY <1>2
<1>5. n = k * s
  <2>1. (num + 1) * (q * s) = ((num + 1) * q) * s
    BY <1>1, <1>2
  <2> QED BY <1>1, <1>4, <2>1
<1> HIDE DEF k
<1>6. k <= n
  BY <1>2, <1>3, <1>5
<1> QED BY <1>2, <1>3, <1>4, <1>5, <1>6

\* The block that leads on begins where the client ends.
LEMMA BlockThatLeadsOn ==
  ASSUME NEW m, NEW n, LeadsOn(m, n), ~(m.code >= RESP_BAD_REQUEST), Block2(m).found
  PROVE  /\ Block2(m).num \in Nat /\ Block2(m).size \in BlockSizeValues
         /\ Block2(m).size <= MAX_PAYLOAD_SIZE
         /\ Block2(m).num * Block2(m).size = n
         /\ Block2(m).more => Len(m.payload) = Block2(m).size /\ n + Len(m.payload) < 65536
BY DEF LeadsOn

\* The client takes over what it gets.
LEMMA ReceiveResponseAsks ==
  ASSUME TransferInv, Asking, ~asked.observe, ReceiveResponse
  PROVE  Asking'
<1> DEFINE m == sentResp
           b == Block2(m)
           n == Len(client.got)
           waiting == "WAITING"
           done == "DONE"
           refused == "REFUSED"
<1>1. /\ client.state = "WAITING" /\ toClient # NULL /\ toClient' = NULL
      /\ UNCHANGED <<rep, cnt, asked, toServer, sentReq, sentResp, resp>>
  BY DEF ReceiveResponse
<1>2. /\ client = [state |-> client.state, size |-> client.size, got |-> client.got,
                   since |-> client.since]
      /\ client.got \in Seq(Byte) /\ n \in Nat
  BY FieldsOfClient, LenProperties DEF TransferInv, Taking
<1>3. m.payload \in Seq(Byte) /\ Len(m.payload) \in Nat
  BY <1>1, FieldsOfMessage, LenProperties DEF TransferInv, ResponseUnderWay, Sendable
<1>4. /\ LeadsOn(m, n) /\ toServer = NULL /\ client.since <= rep.ver
      /\ rep.len \in Lengths
      /\ Unchanged => IF m.code >= RESP_BAD_REQUEST THEN Refusable
                      ELSE Tells(m, client.got, rep)
      /\ resp # NULL => resp.sent
  BY <1>1 DEF Asking
<1>5. Data(rep)' = Data(rep) /\ Refusable' = Refusable
  BY <1>1 DEF Refusable
<1>6. /\ resp' # NULL => /\ resp'.kind = "REQUEST" /\ resp'.res = asked'.target
                         /\ asked'.refused \in {"NEVER", "BY_HANDLER"} /\ resp'.sent
  BY <1>1, <1>4 DEF Asking
<1>7. CASE m.code >= RESP_BAD_REQUEST /\ client' = [client EXCEPT !.state = "REFUSED"]
  <2>1. client' = [client EXCEPT !.state = refused]
    BY <1>7
  <2> HIDE DEF refused, m, b, n
  <2>2. client' = [state |-> refused, size |-> client.size, got |-> client.got,
                   since |-> client.since]
    BY <1>2, <2>1, Zenon
  <2>3. client'.state = "REFUSED" /\ client'.since = client.since
    BY <2>2 DEF refused
  <2>4. Unchanged' => Unchanged
    BY <1>1, <2>3 DEF Unchanged
  <2>5. Refusable' \/ ~Unchanged'
    BY <1>4, <1>5, <1>7, <2>4
  <2>6. InBlocks' /\ SoFar'
    BY <2>3 DEF InBlocks, SoFar
  <2> QED BY <1>1, <1>4, <1>6, <2>3, <2>5, <2>6 DEF Asking
<1>8. CASE /\ m.code = RESP_CONTENT /\ ~b.found
           /\ client' = [client EXCEPT !.got = m.payload, !.state = "DONE"]
  <2> DEFINE payload == m.payload
  <2>1. client' = [client EXCEPT !.got = payload, !.state = done]
    BY <1>8
  <2> HIDE DEF done, payload
  <2>2. client' = [state |-> done, size |-> client.size, got |-> payload,
                   since |-> client.since]
    BY <1>2, <2>1, Zenon
  <2>3. client'.state = "DONE" /\ client'.since = client.since /\ client'.got = m.payload
    BY <2>2 DEF done, payload
  <2>4. Unchanged' => Unchanged
    BY <1>1, <2>3 DEF Unchanged
  <2>5. ~(m.code >= RESP_BAD_REQUEST)
    BY <1>8 DEF RESP_CONTENT, RESP_BAD_REQUEST
  <2>6. Unchanged => m.payload = Data(rep)
    BY <1>4, <1>8, <2>5 DEF Tells
  <2>7. InBlocks' /\ SoFar'
    BY <2>3 DEF InBlocks, SoFar
  <2> HIDE DEF m
  <2> QED BY <1>1, <1>4, <1>5, <1>6, <2>3, <2>4, <2>6, <2>7 DEF Asking
<1>9. CASE /\ m.code = RESP_CONTENT /\ b.found
           /\ \E size \in {s \in BlockSizes : s <= b.size} :
                client' = WithBlock(b, m.payload, size)
  <2>1. PICK size \in BlockSizes : size <= b.size /\ client' = WithBlock(b, m.payload, size)
    BY <1>9
  <2>2. size \in BlockSizeValues
    BY TransferAssumption
  <2>3. ~(m.code >= RESP_BAD_REQUEST)
    BY <1>9 DEF RESP_CONTENT, RESP_BAD_REQUEST
  <2>4. /\ b.num \in Nat /\ b.size \in BlockSizeValues /\ b.size <= MAX_PAYLOAD_SIZE
        /\ b.num * b.size = n
        /\ b.more => Len(m.payload) = b.size /\ n + Len(m.payload) < 65536
    <3> HIDE DEF m, n
    <3>1. LeadsOn(m, n) /\ Block2(m).found
      BY <1>4, <1>9
    <3> QED BY <2>3, <3>1, BlockThatLeadsOn
  <2> DEFINE payload == m.payload
             got == client.got \o payload
             state == IF b.more THEN waiting ELSE done
             k == Len(payload)
  <2>5. ~(b.num * b.size # Len(client.got) \/ (b.more /\ payload = <<>>))
    <3>1. b.size > 0
      BY <2>4, SizeOfBlock
    <3>2. b.more => payload # <<>>
      BY <2>4, <3>1
    <3> QED BY <2>4, <3>2
  <2>6. client' = [client EXCEPT !.got = got, !.size = size, !.state = state]
    <3> HIDE DEF b
    <3> QED BY <2>1, <2>5 DEF WithBlock
  <2>7. Len(got) = n + k /\ got \in Seq(Byte)
    BY <1>2, <1>3, ConcatProperties
  <2>8. Unchanged => got = SubSeq(Data(rep), 1, n + k)
                     /\ IF b.more THEN n + k < rep.len ELSE n + k = rep.len
    <3> HIDE DEF b
    <3> QED BY <1>4, <1>9, <2>3 DEF Tells, b
  <2> HIDE DEF state, got
  <2>9. client' = [state |-> state, size |-> size, got |-> got, since |-> client.since]
    BY <1>2, <2>6, Zenon
  <2>10. /\ client'.state = state /\ client'.size = size /\ client'.got = got
         /\ client'.since = client.since
    BY <2>9
  <2>11. Unchanged' => Unchanged
    BY <1>1, <2>10 DEF Unchanged
  <2>12. CASE b.more
    <3>1. state = "WAITING" /\ k = b.size /\ n + k < 65536
      <4> HIDE DEF b, m, n, waiting, done
      <4>1. k = b.size /\ n + k < 65536
        BY <2>4, <2>12
      <4>2. state = waiting
        BY <2>12 DEF state
      <4> QED BY <4>1, <4>2 DEF waiting
    <3>2. \E j \in 0..Len(got) : Len(got) = j * size
      <4> DEFINE t == b.size
                 num == b.num
                 all == Len(got)
      <4>1. t \in BlockSizeValues /\ num \in Nat /\ size <= t /\ all = num * t + t
        BY <2>1, <2>4, <2>7, <3>1
      <4> HIDE DEF t, num, all
      <4>2. \E j \in 0..all : all = j * size
        BY <2>2, <4>1, InSmallerBlocks
      <4> QED BY <4>2 DEF all
    <3>3. size <= MAX_PAYLOAD_SIZE
      <4> DEFINE t == b.size
      <4>1. size \in Nat /\ t \in Nat /\ MAX_PAYLOAD_SIZE \in Nat
            /\ size <= t /\ t <= MAX_PAYLOAD_SIZE
        BY <2>1, <2>2, <2>4, SizeOfBlock, WireAssumption
      <4> HIDE DEF t
      <4> QED BY <4>1
    <3>4. InBlocks'
      BY <2>2, <2>7, <2>10, <3>1, <3>2, <3>3 DEF InBlocks
    <3>5. SoFar'
      <4>1. Unchanged' => got = SubSeq(Data(rep), 1, Len(got)) /\ Len(got) < rep.len
        BY <2>7, <2>8, <2>11, <2>12
      <4> QED BY <1>1, <1>5, <2>10, <4>1 DEF SoFar
    <3>6. client'.state = "WAITING"
      BY <2>10, <3>1
    <3> QED BY <1>1, <1>4, <1>6, <2>10, <3>4, <3>5, <3>6 DEF Asking
  <2>13. CASE ~b.more
    <3>1. client'.state = "DONE"
      BY <2>10, <2>13 DEF state
    <3>2. Unchanged => got = Data(rep)
      <4> DEFINE data == Data(rep)
      <4>1. data \in Seq(Byte) /\ Len(data) = rep.len
        BY DataIsBytes DEF TransferInv, Taking
      <4>2. Unchanged => got = SubSeq(data, 1, Len(data))
        BY <2>8, <2>13, <4>1
      <4> HIDE DEF data
      <4>3. SubSeq(data, 1, Len(data)) = data
        BY <4>1, SubSeqFull
      <4> QED BY <4>2, <4>3 DEF data
    <3>3. InBlocks' /\ SoFar'
      BY <3>1 DEF InBlocks, SoFar
    <3> QED BY <1>1, <1>4, <1>5, <1>6, <2>10, <2>11, <3>1, <3>2, <3>3 DEF Asking
  <2> QED BY <2>12, <2>13
<1> QED BY <1>7, <1>8, <1>9 DEF ReceiveResponse, Block2

\* Nobody is notified while a request is answered.
LEMMA AskingSteps ==
  ASSUME TransferInv, Asking, ~asked.observe, TransferNext
  PROVE  Asking'
<1>1. ~NotifyObservers /\ ~ReceiveNotification
  BY DEF Asking, NotifyObservers, ReceiveNotification
<1>2. ~SendNotification /\ ~RefreshNotification
  BY DEF Asking, SendNotification, RefreshNotification
<1> QED BY <1>1, <1>2, SendRequestAsks, ReceiveResponseAsks, ReceiveUnknownResourceAsks,
           ReceiveBadOptionAsks, ReceiveRequestAsks, AnswerAsks, FreeResponseAsks,
           ChangeRepresentationAsks, LoseAsks
        DEF TransferNext

\* What is asked for does not change.
LEMMA AskedStays ==
  ASSUME TransferNext
  PROVE  UNCHANGED asked
BY DEF TransferNext, SendRequest, ReceiveResponse, ReceiveUnknownResource,
       ReceiveBadOption, ReceiveRequest, Answer, FreeResponse, NotifyObservers,
       SendNotification, RefreshNotification, ReceiveNotification,
       ChangeRepresentation, Lose

\* Nothing has been said at the beginning.
LEMMA TalkStarts == TransferInit => TalkInv
<1> SUFFICES ASSUME TransferInit PROVE TalkInv
  OBVIOUS
<1>1. /\ rep.len \in Lengths /\ rep.ver = 0 /\ asked \in Requests
      /\ toServer = NULL /\ toClient = NULL /\ resp = NULL
      /\ client.got = <<>> /\ client.since = 0
      /\ client.state = IF asked.observe THEN "OBSERVING" ELSE "IDLE"
  BY DEF TransferInit
<1>2. CASE asked.observe
  BY <1>1, <1>2 DEF TalkInv, Told
<1>3. CASE ~asked.observe
  <2>1. client.state = "IDLE"
    BY <1>1, <1>3
  <2>2. InBlocks /\ SoFar
    BY <2>1 DEF InBlocks, SoFar
  <2> QED BY <1>1, <1>3, <2>1, <2>2 DEF TalkInv, Asking
<1> QED BY <1>2, <1>3

\* No step makes what is said untrue.
LEMMA TalkStep == TransferInv /\ TalkInv /\ [TransferNext]_transferVars => TalkInv'
<1> SUFFICES ASSUME TransferInv, TalkInv, [TransferNext]_transferVars PROVE TalkInv'
  OBVIOUS
<1>1. CASE TransferNext
  <2>1. UNCHANGED asked
    BY <1>1, AskedStays
  <2>2. CASE asked.observe
    BY <1>1, <2>1, <2>2, ToldSteps DEF TalkInv
  <2>3. CASE ~asked.observe
    BY <1>1, <2>1, <2>3, AskingSteps DEF TalkInv
  <2> QED BY <2>2, <2>3
<1>2. CASE UNCHANGED transferVars
  <2>1. UNCHANGED <<rep, cnt, asked, client, toServer, toClient, sentReq, sentResp, resp>>
    BY <1>2 DEF transferVars
  <2>2. CASE asked.observe
    <3>1. FirstBlock(rep)' = FirstBlock(rep)
      BY <2>1 DEF FirstBlock
    <3> QED BY <2>1, <2>2, <3>1 DEF TalkInv, Told
  <2>3. CASE ~asked.observe
    BY <2>1, <2>3, TransferStays DEF TalkInv, Asking
  <2> QED BY <2>2, <2>3
<1> QED BY <1>1, <1>2

\* While a request is answered its options and the blocks say what the client
\* and the representation mean, and while a resource is observed the
\* notification under way tells its newest representation or is flagged to be
\* refreshed (CoAP_onNewPacketHandler, CoAP_SetPayload,
\* CoAP_NotifyResourceObservers).
THEOREM TalkInvariant == TransferSpec => []TalkInv
<1>1. TransferInit => TalkInv
  BY TalkStarts
<1>2. TransferInv /\ TalkInv /\ [TransferNext]_transferVars => TalkInv'
  BY TalkStep
<1> QED BY <1>1, <1>2, TransferInvariant, PTL DEF TransferSpec

\* A handler answers only for the resource whose URI string the client named,
\* and never a request with a critical option the server does not know: the
\* options a URI is taken apart into are compared as the strings are, and no
\* further option hides or stands in for one of them
\* (CoAP_AppendUriOptionsFromString, CoAP_FindResourceByUri,
\* CoAP_CheckForUnknownCriticalOption).
THEOREM RequestsHandledAsAsked == TransferSpec => []HandledAsAsked
<1>1. TalkInv => HandledAsAsked
  BY DEF TalkInv, Told, Asking, HandledAsAsked
<1> QED BY <1>1, TalkInvariant, PTL

\* No client is stuck with an answer that does not continue what it has, of
\* whatever block sizes it asks and however often the representation changes:
\* a block number reads back as it was written and begins where the client
\* ends (AddBlkOptionToMsg, GetBlockOptionFromMsg, CoAP_SetPayload).
THEOREM AnswersContinue == TransferSpec => []EveryAnswerContinues
<1>1. TalkInv => EveryAnswerContinues
  BY DEF TalkInv, Told, Asking, EveryAnswerContinues
<1> QED BY <1>1, TalkInvariant, PTL

\* What a client puts together out of blocks is the beginning of an unchanged
\* representation and at the end all of it, none of its blocks is refused, and
\* an observer nobody is notifying has the newest representation, provided that
\* this fits the one block a notification carries (CoAP_SetPayload,
\* CoAP_NotifyResourceObservers).
THEOREM ContentIsReceived ==
  ASSUME AllFit
  PROVE  TransferSpec => []ReceivedIsContent
<1>1. TransferInv /\ TalkInv => ReceivedIsContent
  <2> SUFFICES ASSUME TransferInv, TalkInv PROVE ReceivedIsContent
    OBVIOUS
  <2>1. CASE asked.observe
    <3>1. client.state = "OBSERVING"
      BY <2>1 DEF TalkInv, Told
    <3>2. ASSUME resp = NULL, rep.ver > 0
          PROVE  client.got = Data(rep)
      <4> DEFINE data == Data(rep)
      <4>1. client.got = FirstBlock(rep) /\ rep.len \in NotifyLengths
        BY <2>1, <3>2 DEF TalkInv, Told
      <4>2. data \in Seq(Byte) /\ Len(data) = rep.len /\ rep.len \in Nat
        BY DataIsBytes DEF TransferInv, Taking, Representation
      <4>3. rep.len <= MAX_PAYLOAD_SIZE /\ MAX_PAYLOAD_SIZE \in Nat
        BY <4>1, WireAssumption DEF AllFit
      <4>4. FirstBlock(rep) = SubSeq(data, 1, Len(data))
        BY <4>2, <4>3 DEF FirstBlock
      <4> HIDE DEF data
      <4>5. SubSeq(data, 1, Len(data)) = data
        BY <4>2, SubSeqFull
      <4> QED BY <4>1, <4>4, <4>5 DEF data
    <3> QED BY <3>1, <3>2 DEF ReceivedIsContent
  <2>2. CASE ~asked.observe
    BY <2>2 DEF TalkInv, Asking, SoFar, ReceivedIsContent
  <2> QED BY <2>1, <2>2
<1> QED BY <1>1, TransferInvariant, TalkInvariant, PTL
=============================================================================
