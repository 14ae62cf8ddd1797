------------------------------ MODULE MCTransfer ------------------------------
(***************************************************************************)
(* The inputs of the transfer run: four resources of init_done, asked for  *)
(* with every block size and with options around the boundaries of their   *)
(* encoding, and representations around the boundaries of blocks.  Payload *)
(* sizes are scaled down by four: 64 bytes are the most, 16 the preferred. *)
(***************************************************************************)
EXTENDS CoapTransfer, TLC

\* "/.well-known/core", "wifi/ipconfig", "about/coap" and "wifi/config", the
\* parts abbreviated to "/.w/c", "wi/ip", "ab" and "wi/cf".
Wi == <<119, 105>>
Config == Wi \o <<47, 99, 102>>
MCTable ==
  <<[id |-> "core", uri |-> <<47, 46, 119, 47, 99>>],
    [id |-> "ipconfig", uri |-> Wi \o <<47, 105, 112>>],
    [id |-> "about", uri |-> <<97, 98>>],
    [id |-> "config", uri |-> Config]>>

MCRequest(uri, target, extra, size, refused) ==
  [uri |-> uri, target |-> target, extra |-> extra, size |-> size,
   tok |-> StoredToken(<<0, 7>>), observe |-> FALSE, refused |-> refused]

Sizes == {0, 16, 32, 64, 128}
Opt(num, len) == CoAP_option_t(num, [i \in 1..len |-> i % 256])

\* Every resource, its URI in the form it was created with; the last one with
\* the key its handler asks for, "?k=1".
Plain ==
  {MCRequest(MCTable[i].uri, MCTable[i].id, <<>>, size, "NEVER") :
     i \in 1..3, size \in Sizes}
  \cup {MCRequest(Config \o <<63, 107, 61, 49>>, "config", <<>>, size, "NEVER") :
          size \in Sizes}

\* "//wi/cf/?s&&k=1" with options around 12, 13, 268 and 269, and tokens of no
\* and of eight bytes.
Odd ==
  {[MCRequest(<<47, 47>> \o Config \o <<47, 63, 115, 38, 38, 107, 61, 49>>,
              "config", extra, size, "NEVER") EXCEPT !.tok = StoredToken(tok)] :
     size \in {0, 16}, tok \in {<<>>, <<1, 2, 3, 4, 5, 6, 7, 8>>},
     extra \in {<<Opt(284, 12), Opt(28, 13)>>, <<Opt(292, 268)>>,
                <<Opt(36, 269), Opt(304, 0)>>}}

\* A path no resource has, a critical option nobody knows, and a wrong key.
Refusals ==
  {MCRequest(Wi, NoResource, <<>>, 16, "NO_RESOURCE"),
   MCRequest(<<97, 98>>, "about", <<Opt(35, 1)>>, 16, "BAD_OPTION"),
   MCRequest(Config \o <<63, 107, 61, 50>>, "config", <<>>, 16, "BY_HANDLER")}

Observing ==
  {[MCRequest(<<>>, "rtc", <<>>, 0, "NEVER") EXCEPT !.observe = TRUE]}

MCRequests == Plain \cup Odd \cup Refusals \cup Observing
=============================================================================
