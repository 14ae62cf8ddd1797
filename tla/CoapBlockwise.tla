---------------------------- MODULE CoapBlockwise ----------------------------
(***************************************************************************)
(* Blockwise transfer (coap_option_blockwise.c): the block options, and    *)
(* CoAP_SetPayload, which cuts the block a request asks for out of a       *)
(* representation and decides who owns the bytes the response points to.   *)
(*                                                                         *)
(* A response under construction is a message plus the memory its payload  *)
(* pointer refers to: the buffer that comes with the message, a block of   *)
(* its own from the memory pool, or memory outside the pool.               *)
(***************************************************************************)
EXTENDS CoapWire

CONSTANT PREFERED_PAYLOAD_SIZE  \* of the buffer that comes with a response (64)

BlockSizeValues == {16, 32, 64, 128, 256, 512, 1024}

\* "should not exceed 1024 bytes, must be power of 2" (coap.h); the text of a
\* refusal has to fit.
ASSUME BlockwiseAssumption ==
  /\ MAX_PAYLOAD_SIZE \in BlockSizeValues \ {16}
  /\ PREFERED_PAYLOAD_SIZE \in 1..MAX_PAYLOAD_SIZE

\* at: where Payload points; size: PayloadBufSize; room: what is really there;
\* held: the blocks of the pool this response took and did not give back.
Buffer == [at : {"MSG", "HEAP", "STATIC"}, size : Nat, room : Nat,
           held : Int]
OwnBuffer(n) == [at |-> "MSG", size |-> n, room |-> n, held |-> 0]

RESP_CONTENT == 69
RESP_BAD_REQUEST == 128
RESP_BAD_OPTION == 130

(***************************************************************************)
(* The Block1 and Block2 options.                                          *)
(***************************************************************************)
\* szx is the exponent of the size: 16 * 2^szx bytes.
Szx(size) == CHOOSE i \in 0..6 : 2^i <= size \div 16 /\ size \div 16 < 2^(i+1)

BlockValue(b) == b.num * 16 + (IF b.more THEN 8 ELSE 0) + Szx(b.size)

BlockBytes(b) ==
  LET v == BlockValue(b) IN
  CASE b.num = 0 /\ b.size = 16 /\ ~b.more -> <<>>
    [] b.num < 16 -> <<v % 256>>
    [] b.num \in 16..4095 -> <<(v \div 256) % 256, v % 256>>
    [] OTHER -> <<(v \div 65536) % 256, (v \div 256) % 256, v % 256>>

\* Variant of AddBlkOptionToMsg: more than 15 blocks still in one byte.
AddShortBlkOption(opts, type, b) ==
  CoAP_AppendOptionToList(opts, type, <<BlockValue(b) % 256>>)

AddBlkOptionToMsg(opts, type, b) ==
  CoAP_AppendOptionToList(opts, type, BlockBytes(b))

NoBlock == [found |-> FALSE]

\* The first option of this type; none if its value is not one of a block.
GetBlockOptionFromMsg(opts, type) ==
  LET first == FirstPosition(opts, type)
      v == NumberIn(opts[first].val)
  IN  IF first = 0 \/ Len(opts[first].val) > 3 \/ v % 8 = 7 THEN NoBlock
      ELSE [found |-> TRUE, num |-> v \div 16, more |-> (v \div 8) % 2 = 1,
            size |-> 2^((v % 8) + 4)]

\* The search starts again after each option that is removed.
RemoveAllBlockOptionsFromMsg(opts, type) == OptionsWithout(opts, type)

(***************************************************************************)
(* CoAP_SetPayload.  m is the response, b its buffer.                      *)
(***************************************************************************)
\* CoAP_free_MsgPayload: only a block of its own goes back to the pool.
PayloadBlocks(b) == IF b.at = "HEAP" THEN 1 ELSE 0
HeldAfterFree(b) == b.held - PayloadBlocks(b)

NewBlock(held, n) == [at |-> "HEAP", size |-> n, room |-> n, held |-> held + 1]

\* Variant of Copied: the block that has become too small is not released.
CopiedUnfreed(b, n) ==
  IF b.size < n THEN NewBlock(b.held, n) ELSE [b EXCEPT !.size = n]

\* A volatile payload is copied, into a new block if the buffer is too small.
Copied(b, n) ==
  IF b.size < n THEN NewBlock(HeldAfterFree(b), n) ELSE [b EXCEPT !.size = n]

\* Memory that stays is pointed to, and protected by a buffer size of zero.
Pointed(b, n) == [b EXCEPT !.at = "STATIC", !.size = 0, !.room = n]

\* Variant of BlockToSend: a block that just reaches the end is not the last.
BlockNeverLast(block, len) ==
  LET size == IF block.size > MAX_PAYLOAD_SIZE THEN MAX_PAYLOAD_SIZE ELSE block.size
      left == len - size * block.num
  IN  [num |-> block.num, size |-> size, left |-> left,
       from |-> size * block.num, more |-> left >= size \/ block.more]

\* The block a request asks for, in blocks not larger than our maximum; the
\* more flag of the request stays when nothing is left behind the block.
BlockToSend(block, len) ==
  LET size == IF block.size > MAX_PAYLOAD_SIZE THEN MAX_PAYLOAD_SIZE ELSE block.size
      left == len - size * block.num
  IN  [num |-> block.num, size |-> size, left |-> left,
       from |-> size * block.num, more |-> left > size \/ block.more]

\* Without a Block2 option in the request: the first block, if one is needed.
WholeOrFirst(len) ==
  [num |-> 0, size |-> MAX_PAYLOAD_SIZE, left |-> len, from |-> 0,
   more |-> len > MAX_PAYLOAD_SIZE]

BytesToSend(cut) == IF cut.left > cut.size THEN cut.size ELSE cut.left

\* use is how the bytes get into the message: they are in it already (the
\* handler wrote them there), they are volatile, or they stay.
NewBuffer(b, use, n) ==
  CASE use = "IN_PLACE" -> b
    [] use = "VOLATILE" -> Copied(b, n)
    [] use = "STATIC" -> Pointed(b, n)

Filled(m, b, data, cut, use, opts) ==
  LET n == BytesToSend(cut) IN
  [msg |-> [m EXCEPT !.opts = opts,
                     !.payload = SubSeq(data, cut.from + 1, cut.from + n)],
   buf |-> NewBuffer(b, use, n)]

BlockNotExisting == [i \in 1..18 |-> 98]

\* CoAP_addTextPayload, as used for a block behind the end.
Refused(m, b) ==
  [msg |-> [m EXCEPT !.payload = BlockNotExisting, !.code = RESP_BAD_OPTION],
   buf |-> IF b.size >= Len(BlockNotExisting) THEN b
           ELSE NewBlock(HeldAfterFree(b), Len(BlockNotExisting))]

CoAP_SetPayload(reqOpts, m, b, data, use) ==
  LET block == GetBlockOptionFromMsg(reqOpts, OPT_BLOCK2)
      asked == BlockToSend(block, Len(data))
      cut == WholeOrFirst(Len(data))
  IN  CASE data = <<>> -> [msg |-> [m EXCEPT !.payload = <<>>], buf |-> b]
        [] data # <<>> /\ block.found /\ asked.left <= 0 -> Refused(m, b)
        [] data # <<>> /\ block.found /\ asked.left > 0 ->
             Filled(m, b, data, asked, use,
                    AddBlkOptionToMsg(RemoveAllBlockOptionsFromMsg(m.opts, OPT_BLOCK2),
                                      OPT_BLOCK2, asked))
        [] OTHER ->
             Filled(m, b, data, cut, use,
                    IF cut.more THEN AddBlkOptionToMsg(m.opts, OPT_BLOCK2, cut)
                    ELSE m.opts)
=============================================================================
