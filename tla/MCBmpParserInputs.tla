-------------------------- MODULE MCBmpParserInputs --------------------------
(***************************************************************************)
(* The octets after the headers of a route monitoring message with an      *)
(* update; small sets of prefixes and attributes: prefixes of 0, 9 and 32  *)
(* bits, attributes of every kind, in the short and in the extended form,  *)
(* and one that may stand twice in a message.  The BGP message is to end   *)
(* with the update's seventh octet: messages are cut short, whole, or have *)
(* one more octet than that.                                               *)
(***************************************************************************)
EXTENDS BmpParserInputs

UpdateLength == 7
HeadersLength == CommonHeaderLength + PeerHeaderLength + BgpHeaderLength

UpdateFollows ==
  CommonHeader(HeadersLength + UpdateLength, MSG_ROUTE_MONITORING) \o PeerHeader
    \o BgpHeader(BgpHeaderLength + UpdateLength)

SomePrefixes == {[bits |-> 0, octets |-> <<>>], [bits |-> 9, octets |-> <<10, 128>>],
                 [bits |-> 32, octets |-> <<10, 0, 0, 1>>]}

SomeAttributes ==
  {[name |-> "origin", value |-> <<2>>, extended |-> FALSE],
   [name |-> "next_hop", value |-> <<10, 0, 0, 2>>, extended |-> FALSE],
   [name |-> "med", value |-> <<70000>>, extended |-> TRUE],
   [name |-> "med", value |-> <<1>>, extended |-> FALSE],
   [name |-> "local_pref", value |-> <<100>>, extended |-> FALSE],
   [name |-> "community", value |-> <<65000, 1, 65001, 2>>, extended |-> TRUE],
   [name |-> "unknown", value |-> <<1, 2, 3>>, extended |-> FALSE]}

=============================================================================
