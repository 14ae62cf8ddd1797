----------------------------- MODULE CoapOptions -----------------------------
(***************************************************************************)
(* The option lists of the Lobaro stack (coap_options.c): a linked list of *)
(* options in ascending order of their numbers, as a sequence of records;  *)
(* the helpers that put URIs and content formats into such a list and look *)
(* them up (coap_option_uri.c, coap_option_cf.c); and the list of          *)
(* resources that requests are matched with (coap_resource.c).             *)
(*                                                                         *)
(* An option value is a sequence of bytes, a C string one without its      *)
(* terminator.  There is memory for every option.                          *)
(***************************************************************************)
EXTENDS Integers, Sequences, SequencesExt

Byte == 0..255
OptNum == {n \in Nat : n < 65536}
Option == [num : OptNum, val : Seq(Byte)]
CoAP_option_t(n, v) == [num |-> n, val |-> v]

OPT_NUM_OBSERVE == 6
OPT_NUM_URI_PATH == 11
OPT_NUM_CONTENT_FORMAT == 12
OPT_NUM_URI_QUERY == 15
OPT_BLOCK2 == 23
OPT_BLOCK1 == 27
KNOWN_OPTIONS == {OPT_NUM_URI_PATH, OPT_NUM_URI_QUERY, OPT_BLOCK2, OPT_BLOCK1,
                  OPT_NUM_CONTENT_FORMAT, 4}

Sorted(opts) ==
  \A i, j \in 1..Len(opts) : i < j => opts[i].num <= opts[j].num

(***************************************************************************)
(* Inserting, removing, freeing.                                           *)
(***************************************************************************)
\* The new option goes before the first one with a greater number.
Behind(opts, n) == {i \in 1..Len(opts) : opts[i].num > n}
InsertPos(opts, n) ==
  IF Behind(opts, n) = {} THEN Len(opts) + 1
  ELSE CHOOSE i \in Behind(opts, n) : \A j \in Behind(opts, n) : i <= j

\* Variant: an option is put behind the others, whatever its number.
append_OptionToListEnd(opts, n, v) == Append(opts, CoAP_option_t(n, v))

CoAP_AppendOptionToList(opts, n, v) ==
  InsertAt(opts, InsertPos(opts, n), CoAP_option_t(n, v))

CoAP_CopyOptionToList(opts, o) == CoAP_AppendOptionToList(opts, o.num, o.val)

CoAP_RemoveOptionFromList(opts, i) == RemoveAt(opts, i)

OptionsWithout(opts, n) ==
  FoldLeft(LAMBDA q, o : IF o.num = n THEN q ELSE Append(q, o), <<>>, opts)

(***************************************************************************)
(* Questions asked of a list.                                              *)
(***************************************************************************)
IsCritical(n) == n % 2 = 1

UnknownCritical(opts) ==
  {i \in 1..Len(opts) :
     opts[i].num \notin KNOWN_OPTIONS /\ IsCritical(opts[i].num)}

\* The first option that is critical and not known, 0 if there is none.
CoAP_CheckForUnknownCriticalOption(opts) ==
  IF UnknownCritical(opts) = {} THEN 0
  ELSE opts[CHOOSE i \in UnknownCritical(opts) :
              \A j \in UnknownCritical(opts) : i <= j].num

\* The options with this number, in the order of the list.
OptionsWith(opts, n) ==
  FoldLeft(LAMBDA q, o : IF o.num = n THEN Append(q, o) ELSE q, <<>>, opts)

\* The first position of an option with this number, 0 if there is none.
Positions(opts, n) == {i \in 1..Len(opts) : opts[i].num = n}
FirstPosition(opts, n) ==
  IF Positions(opts, n) = {} THEN 0
  ELSE CHOOSE i \in Positions(opts, n) : \A j \in Positions(opts, n) : i <= j

\* The number in a value of up to three bytes, the high one first.
NumberIn(val) ==
  IF Len(val) = 0 THEN 0
  ELSE IF Len(val) = 1 THEN val[1]
  ELSE IF Len(val) = 2 THEN val[1] * 256 + val[2]
  ELSE val[1] * 65536 + val[2] * 256 + val[3]

\* Variant of CoAP_UriOptionsAreEqual: a path that goes on is the same path.
UriOptionsBegin(a, b) ==
  IsPrefix(OptionsWith(b, OPT_NUM_URI_PATH), OptionsWith(a, OPT_NUM_URI_PATH))

\* Two lists of options name the same path; other options do not count.
CoAP_UriOptionsAreEqual(a, b) ==
  OptionsWith(a, OPT_NUM_URI_PATH) = OptionsWith(b, OPT_NUM_URI_PATH)

(***************************************************************************)
(* URI strings.                                                            *)
(***************************************************************************)
Slash == 47
Space == 32
QuestionMark == 63
Ampersand == 38

\* The parts of str between delimiters.
Parts(str, delims) ==
  FoldLeft(LAMBDA parts, c : IF c \in delims THEN Append(parts, <<>>)
                             ELSE [parts EXCEPT ![Len(parts)] = Append(@, c)],
           <<<<>>>>, str)

\* Where the path of a URI string ends: the first question mark, or its end.
PathEnd(str) ==
  LET marks == {i \in 1..Len(str) : str[i] = QuestionMark}
  IN  IF marks = {} THEN Len(str) + 1
      ELSE CHOOSE i \in marks : \A j \in marks : i <= j

\* An empty part is skipped.
AppendParts(opts, n, parts) ==
  FoldLeft(LAMBDA q, part : IF part = <<>> THEN q ELSE CoAP_AppendOptionToList(q, n, part),
           opts, parts)

ParseUriQueryFromStringToOption(opts, str) ==
  AppendParts(opts, OPT_NUM_URI_QUERY, Parts(str, {Ampersand}))

CoAP_AppendUriOptionsFromString(opts, str) ==
  LET path == SubSeq(str, 1, PathEnd(str) - 1)
      query == SubSeq(str, PathEnd(str) + 1, Len(str))
  IN  ParseUriQueryFromStringToOption(
        AppendParts(opts, OPT_NUM_URI_PATH, Parts(path, {Slash, Space})),
        query)

\* What follows the prefix of a query option, <<>> if it does not match.
CoAP_GetUriQueryVal(o, prefix) ==
  IF /\ o.num = OPT_NUM_URI_QUERY /\ Len(o.val) \in 1..255
     /\ Len(prefix) < Len(o.val) /\ IsPrefix(prefix, o.val)
  THEN SubSeq(o.val, Len(prefix) + 1, Len(o.val))
  ELSE <<>>

\* The number of the string the value of the query option equals, or 0.
CoAP_FindUriQueryVal(o, prefix, strs) ==
  LET val == CoAP_GetUriQueryVal(o, prefix)
      equal == {i \in 1..Len(strs) : val # <<>> /\ strs[i] = val}
  IN  IF equal = {} THEN 0 ELSE CHOOSE i \in equal : \A j \in equal : i <= j

(***************************************************************************)
(* Content format: no byte for 0, else one or two, the low one first.      *)
(***************************************************************************)
CfBytes(cf) ==
  IF cf = 0 THEN <<>> ELSE IF cf < 256 THEN <<cf>> ELSE <<cf % 256, cf \div 256>>

AddCfOptionToMsg(opts, cf) ==
  CoAP_AppendOptionToList(opts, OPT_NUM_CONTENT_FORMAT, CfBytes(cf))

(***************************************************************************)
(* Observe: a counter of up to three bytes, the high one first.            *)
(***************************************************************************)
ObserveBytes(val) ==
  IF val = 0 THEN <<>>
  ELSE IF val < 256 THEN <<val>>
  ELSE IF val < 65536 THEN <<val \div 256, val % 256>>
  ELSE <<(val \div 65536) % 256, (val \div 256) % 256, val % 256>>

AddObserveOptionToMsg(opts, val) ==
  CoAP_AppendOptionToList(opts, OPT_NUM_OBSERVE, ObserveBytes(val))

\* Only the first Observe option is removed.
RemoveObserveOptionFromMsg(opts) ==
  LET first == FirstPosition(opts, OPT_NUM_OBSERVE)
  IN  IF first = 0 THEN opts ELSE CoAP_RemoveOptionFromList(opts, first)

UpdateObserveOptionInMsg(opts, val) ==
  AddObserveOptionToMsg(RemoveObserveOptionFromMsg(opts), val)

\* -1 if there is no Observe option, or one that is too long.
GetObserveOptionFromMsg(opts) ==
  LET first == FirstPosition(opts, OPT_NUM_OBSERVE)
  IN  IF first = 0 \/ Len(opts[first].val) > 3 THEN -1 ELSE NumberIn(opts[first].val)

(***************************************************************************)
(* Resources: each has the path options of its URI; new ones go to the end *)
(* of the list, and a search stops at the first that fits.                 *)
(***************************************************************************)
CoAP_CreateResource(resources, id, uri) ==
  Append(resources, [id |-> id, uri |-> CoAP_AppendUriOptionsFromString(<<>>, uri)])

NoResource == "NO_RESOURCE"
CoAP_FindResourceByUri(resources, opts) ==
  LET fit == {i \in 1..Len(resources) :
                CoAP_UriOptionsAreEqual(resources[i].uri, opts)}
  IN  IF fit = {} THEN NoResource
      ELSE resources[CHOOSE i \in fit : \A j \in fit : i <= j].id
=============================================================================
