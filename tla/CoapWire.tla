------------------------------- MODULE CoapWire -------------------------------
(***************************************************************************)
(* Messages and datagrams (coap_message.c, coap_options.c): how a message  *)
(* is laid out in bytes, how large the buffer for it is made, and what a   *)
(* datagram is read as.                                                    *)
(*                                                                         *)
(* Datagrams that are read are complete: every field a length promises is  *)
(* there.  The token is the eight bytes of Token64, lowest first.          *)
(***************************************************************************)
EXTENDS CoapOptions

CONSTANTS
  MAX_OPTION_VALUE_SIZE,  \* 1034
  MAX_PAYLOAD_SIZE        \* 256

ASSUME WireAssumption ==
  /\ MAX_OPTION_VALUE_SIZE \in Nat
  /\ 3 <= MAX_OPTION_VALUE_SIZE /\ MAX_OPTION_VALUE_SIZE < 65536
  /\ MAX_PAYLOAD_SIZE \in Nat \ {0} /\ MAX_PAYLOAD_SIZE < 65536

CON == 0
NON == 1
ACK == 2
RST == 3
EMPTY == 0
PayloadMarker == 255
COAP_VERSION == 1

Token64 == [1..8 -> Byte]
Message == [type : 0..3, code : Byte, mid : OptNum, tok : Token64,
            opts : Seq(Option), payload : Seq(Byte)]

NoToken == [i \in 1..8 |-> 0]
EmptyResetMsg == [type |-> RST, code |-> EMPTY, mid |-> 0, tok |-> NoToken,
                  opts |-> <<>>, payload |-> <<>>]

\* The bytes of the token that are sent: up to the highest that is not zero.
getTokenByteCount(tok) ==
  LET used == {i \in 1..8 : tok[i] # 0}
  IN  IF used = {} THEN 0 ELSE CHOOSE i \in used : \A j \in used : j <= i

\* A token of fewer than eight bytes as it is stored.
StoredToken(bytes) ==
  [i \in 1..8 |-> IF i <= Len(bytes) THEN bytes[i] ELSE 0]

(***************************************************************************)
(* Packing.                                                                *)
(***************************************************************************)
\* Variant of Field: a two byte extension is used too late.
FieldTooLong(n) == IF n < 13 THEN n ELSE IF n < 270 THEN 13 ELSE 14

\* A number in four bits: itself, or that one or two bytes follow.
Field(n) == IF n < 13 THEN n ELSE IF n < 269 THEN 13 ELSE 14
Extension(n) ==
  CASE Field(n) = 13 -> <<(n - 13) % 256>>
    [] Field(n) = 14 -> <<((n - 269) \div 256) % 256, (n - 269) % 256>>
    [] OTHER -> <<>>

PackOption(delta, val) ==
  <<16 * Field(delta) + Field(Len(val))>>
    \o Extension(delta) \o Extension(Len(val)) \o val

Delta(opts, i) ==
  (opts[i].num - (IF i = 1 THEN 0 ELSE opts[i-1].num)) % 65536

pack_OptionsFromList(opts) ==
  FoldLeft(LAMBDA raw, i : raw \o PackOption(Delta(opts, i), opts[i].val),
           <<>>, [i \in 1..Len(opts) |-> i])

\* The size is worked out by a loop of its own, before anything is packed.
ExtensionSize(n) == IF n < 13 THEN 0 ELSE IF n < 269 THEN 1 ELSE 2
OptionSize(delta, len) == 1 + ExtensionSize(delta) + ExtensionSize(len) + len

CoAP_NeededMem4PackOptions(opts) ==
  FoldLeft(LAMBDA sum, i : (sum + OptionSize(Delta(opts, i), Len(opts[i].val))) % 65536,
           0, [i \in 1..Len(opts) |-> i])

CoAP_GetRawSizeOfMessage(m) ==
  4 + CoAP_NeededMem4PackOptions(m.opts)
    + IF m.code = EMPTY THEN 0
      ELSE (IF m.payload = <<>> THEN 0 ELSE Len(m.payload) + 1)
           + getTokenByteCount(m.tok)

\* An empty message is sent without token and payload.
CoAP_BuildDatagram(m) ==
  LET tkl == IF m.code = EMPTY THEN 0 ELSE getTokenByteCount(m.tok)
      payload == IF m.code = EMPTY THEN <<>> ELSE m.payload
  IN  <<64 * COAP_VERSION + 16 * m.type + tkl, m.code, m.mid \div 256, m.mid % 256>>
        \o [i \in 1..tkl |-> m.tok[i]]
        \o pack_OptionsFromList(m.opts)
        \o IF payload = <<>> THEN <<>> ELSE <<PayloadMarker>> \o payload

(***************************************************************************)
(* Parsing.  The outcome is a message or an error.                         *)
(***************************************************************************)
ParseError(res) == [res |-> res]

\* The number that starts at raw[off + 1], whose field in the header is f.
Extended(raw, off, f) ==
  CASE f = 13 -> raw[off + 1] + 13
    [] f = 14 -> (raw[off + 1] * 256 + raw[off + 2] + 269) % 65536
    [] OTHER -> f
ExtendedBy(f) == CASE f = 13 -> 1 [] f = 14 -> 2 [] OTHER -> 0

\* The option that starts at raw[off + 1]: its header, the bytes that extend it,
\* and what they say.
DeltaField(raw, off) == raw[off + 1] \div 16
LengthField(raw, off) == raw[off + 1] % 16
LengthAt(raw, off) == off + 1 + ExtendedBy(DeltaField(raw, off))
ValueAt(raw, off) == LengthAt(raw, off) + ExtendedBy(LengthField(raw, off))
OptionDelta(raw, off) == Extended(raw, off + 1, DeltaField(raw, off))
OptionLength(raw, off) == Extended(raw, LengthAt(raw, off), LengthField(raw, off))
OptionEnd(raw, off) == ValueAt(raw, off) + OptionLength(raw, off)

Malformed(raw, off) ==
  \/ DeltaField(raw, off) = 15 \/ LengthField(raw, off) = 15
  \/ ValueAt(raw, off) > Len(raw)
  \/ OptionLength(raw, off) > MAX_OPTION_VALUE_SIZE
  \/ OptionEnd(raw, off) > Len(raw)

\* Where options start, and at last where the loop stops: at the end, at the
\* marker of the payload, or at an option it cannot read.
OptionStarts(raw) ==
  LET from[off \in 0..Len(raw)] ==
        IF off = Len(raw) \/ raw[off + 1] = PayloadMarker \/ Malformed(raw, off)
        THEN <<off>> ELSE <<off>> \o from[OptionEnd(raw, off)]
  IN  from[0]

\* An option goes into the list, its number counted from the one before.
WithOption(acc, raw, off) ==
  LET number == (acc.last + OptionDelta(raw, off)) % 65536
      val == SubSeq(raw, ValueAt(raw, off) + 1, OptionEnd(raw, off))
  IN  [last |-> number, opts |-> CoAP_AppendOptionToList(acc.opts, number, val)]

OptionsAt(raw, starts) ==
  FoldLeft(LAMBDA acc, off : WithOption(acc, raw, off),
           [last |-> 0, opts |-> <<>>], starts)

parse_OptionsFromRaw(raw) ==
  LET starts == OptionStarts(raw)
      stop == Last(starts)
      read == OptionsAt(raw, Front(starts))
  IN  IF stop = Len(raw)
      THEN [res |-> "OK", opts |-> read.opts, payload |-> <<>>]
      ELSE IF raw[stop + 1] = PayloadMarker /\ stop > 0 /\ Len(raw) - stop > 1
      THEN [res |-> "OK", opts |-> read.opts,
            payload |-> SubSeq(raw, stop + 2, Len(raw))]
      ELSE ParseError("MESSAGE_FORMAT_ERROR")

IsReservedClass(code) == code \div 32 \in {1, 6, 7}

Parsed(raw) ==
  LET tkl == raw[1] % 16
      rest == parse_OptionsFromRaw(SubSeq(raw, 5 + tkl, Len(raw)))
  IN  IF raw[1] \div 64 # COAP_VERSION THEN ParseError("UNKNOWN_COAP_VERSION")
      ELSE IF tkl > 8 \/ IsReservedClass(raw[2])
      THEN ParseError("MESSAGE_FORMAT_ERROR")
      ELSE IF rest.res # "OK" THEN rest
      ELSE IF Len(rest.payload) > MAX_PAYLOAD_SIZE
      THEN ParseError("TOO_MUCH_PAYLOAD")
      ELSE [res |-> "OK",
            msg |-> [type |-> (raw[1] \div 16) % 4, code |-> raw[2],
                     mid |-> raw[3] * 256 + raw[4],
                     tok |-> IF Len(raw) = 4 THEN NoToken
                             ELSE StoredToken(SubSeq(raw, 5, 4 + tkl)),
                     opts |-> rest.opts, payload |-> rest.payload]]

CoAP_ParseMessageFromDatagram(raw) ==
  IF Len(raw) < 4 THEN ParseError("DATAGRAM_TOO_SHORT") ELSE Parsed(raw)
=============================================================================
