------------------------------ MODULE BmpParser ------------------------------
(***************************************************************************)
(* BMPParser (src/core/bmp_parser.py): from the octets of one BMP message  *)
(* to the prefixes it withdraws and announces and their path attributes.   *)
(*                                                                         *)
(* Octets are numbers and messages sequences of them.  A parse has a set   *)
(* of results: empty where the code raises, and one element otherwise, so  *)
(* that an error anywhere in a message leaves the message without result.  *)
(* An address or a prefix stays the octets it is printed from.             *)
(***************************************************************************)
EXTENDS Integers, Sequences, FiniteSets

CONSTANTS
  CommonHeaderLength, \* BMP_HEADER_LENGTH, 6
  PeerHeaderLength,   \* 42
  BgpHeaderLength     \* 19

ASSUME LengthAssumption ==
  /\ CommonHeaderLength \in Nat \ {0, 1}
  /\ PeerHeaderLength \in Nat \ {0} /\ BgpHeaderLength \in Nat \ {0}

BMP_VERSION == 3
MSG_ROUTE_MONITORING == 0
PEER_HEADER_TYPES == {0, 2, 3, 6}
BGP_UPDATE == 2

ATTR_ORIGIN == 1
ATTR_AS_PATH == 2
ATTR_NEXT_HOP == 3
ATTR_MED == 4
ATTR_LOCAL_PREF == 5
ATTR_COMMUNITY == 8

AS_SEQUENCE == 2

-----------------------------------------------------------------------------
\* data[offset] and data[offset : end]; a slice stops at the end of the data.
At(data, offset) == data[offset + 1]
Slice(data, offset, end) ==
  SubSeq(data, offset + 1, IF end < Len(data) THEN end ELSE Len(data))

\* struct.unpack of a big-endian unsigned number.
Number(octets) ==
  LET number[n \in 0..Len(octets)] ==
        IF n = 0 THEN 0 ELSE number[n - 1] * 256 + octets[n]
  IN  number[Len(octets)]

-----------------------------------------------------------------------------
\* Prefixes.

PrefixOctets(bits) == (bits + 7) \div 8

\* Mutant: a prefix that does not fit is read all the same.
Nlri_NoBound(data, start, end) ==
  LET next(offset) == offset + 1 + PrefixOctets(At(data, offset))
      raw(offset) == Slice(data, offset + 1, next(offset))
      from[offset \in Nat] ==
        IF offset >= end THEN {<<>>}
        ELSE IF offset >= Len(data) \/ Len(raw(offset)) > 4 THEN {}
        ELSE {<<[bits |-> At(data, offset), octets |-> raw(offset)]>> \o rest :
                rest \in from[next(offset)]}
  IN  from[start]

\* _parse_nlri: a prefix that does not fit ends the list, an octet beyond the
\* message raises, and so does a prefix longer than an IPv4 address.
Nlri(data, start, end) ==
  LET next(offset) == offset + 1 + PrefixOctets(At(data, offset))
      raw(offset) == Slice(data, offset + 1, next(offset))
      from[offset \in Nat] ==
        IF offset >= end THEN {<<>>}
        ELSE IF offset >= Len(data) THEN {}
        ELSE IF next(offset) > end THEN {<<>>}
        ELSE IF Len(raw(offset)) > 4 THEN {}
        ELSE {<<[bits |-> At(data, offset), octets |-> raw(offset)]>> \o rest :
                rest \in from[next(offset)]}
  IN  from[start]

-----------------------------------------------------------------------------
\* Path attributes.

\* Mutant: two octets are tried before four.
AsnSize_ShortFirst(remaining, count) ==
  IF remaining >= count * 2 THEN 2 ELSE IF remaining >= count * 4 THEN 4 ELSE 0

\* The size of an AS number is guessed from the octets that are left.
AsnSize(remaining, count) ==
  IF remaining >= count * 4 THEN 4 ELSE IF remaining >= count * 2 THEN 2 ELSE 0

\* _parse_as_path
AsPath(value) ==
  LET from[offset \in Nat] ==
        IF offset + 2 > Len(value) THEN <<>>
        ELSE
          LET count == At(value, offset + 1)
              first == offset + 2
              size == AsnSize(Len(value) - first, count)
              asn(i) == Number(Slice(value, first + (i - 1) * size, first + i * size))
          IN  IF count = 0 THEN from[first]
              ELSE IF size = 0 THEN <<>>
              ELSE (IF At(value, offset) = AS_SEQUENCE THEN [i \in 1..count |-> asn(i)]
                    ELSE <<>>)
                     \o from[first + count * size]
  IN  from[0]

\* _parse_communities: whole pairs of two-octet numbers, one after the other.
Communities(value) ==
  [i \in 1..(2 * (Len(value) \div 4)) |-> Number(Slice(value, 2 * i - 2, 2 * i))]

\* What attrs gets for one attribute, each value as a sequence; a value too short
\* is left out.
Decoded(type, value) ==
  CASE type = ATTR_ORIGIN /\ Len(value) >= 1 ->
         {[name |-> "origin", value |-> <<IF value[1] <= 2 THEN value[1] ELSE 3>>]}
    [] type = ATTR_AS_PATH -> {[name |-> "as_path", value |-> AsPath(value)]}
    [] type = ATTR_NEXT_HOP /\ Len(value) >= 4 ->
         {[name |-> "next_hop", value |-> Slice(value, 0, 4)]}
    [] type = ATTR_MED /\ Len(value) >= 4 ->
         {[name |-> "med", value |-> <<Number(Slice(value, 0, 4))>>]}
    [] type = ATTR_LOCAL_PREF /\ Len(value) >= 4 ->
         {[name |-> "local_pref", value |-> <<Number(Slice(value, 0, 4))>>]}
    [] type = ATTR_COMMUNITY -> {[name |-> "community", value |-> Communities(value)]}
    [] OTHER -> {}

\* attrs[...] = value: the later of two attributes of a name wins.
Overridden(attrs, later) ==
  {a \in attrs : \A b \in later : b.name # a.name} \cup later

\* _parse_path_attributes: only the loop is held to the attributes' end; a value
\* may reach beyond it, and a type or length beyond the message raises.
PathAttributes(data, first, end) ==
  LET from[offset \in Nat] ==
        IF offset + 2 > end THEN {{}}
        ELSE IF offset + 2 > Len(data) THEN {}
        ELSE
          LET extended == (At(data, offset) \div 16) % 2 = 1
              start == offset + (IF extended THEN 4 ELSE 3)
              next == start + Number(Slice(data, offset + 2, start))
          IN  IF extended /\ start > end THEN {{}}
              ELSE IF start > Len(data) THEN {}
              ELSE {Overridden(Decoded(At(data, offset + 1), Slice(data, start, next)), rest) :
                      rest \in from[next]}
  IN  from[first]

-----------------------------------------------------------------------------
\* Messages.

\* Mutant: the announced prefixes are looked for where the attributes begin.
Update_NlriFromAttributes(data, offset) ==
  IF Len(data) < offset + 2 THEN {}
  ELSE
    LET attributes == offset + 2 + Number(Slice(data, offset, offset + 2))
        start == attributes + 2
        end == start + Number(Slice(data, attributes, start))
    IN  IF Len(data) < start THEN {}
        ELSE {[withdrawn |-> w, attributes |-> a, nlri |-> n] :
                w \in Nlri(data, offset + 2, attributes),
                a \in PathAttributes(data, start, end),
                n \in Nlri(data, start, Len(data))}

\* _parse_bgp_update
Update(data, offset) ==
  IF Len(data) < offset + 2 THEN {}
  ELSE
    LET attributes == offset + 2 + Number(Slice(data, offset, offset + 2))
        start == attributes + 2
        end == start + Number(Slice(data, attributes, start))
    IN  IF Len(data) < start THEN {}
        ELSE {[withdrawn |-> w, attributes |-> a, nlri |-> n] :
                w \in Nlri(data, offset + 2, attributes),
                a \in PathAttributes(data, start, end),
                n \in Nlri(data, end, Len(data))}

NoUpdate == [withdrawn |-> <<>>, attributes |-> {}, nlri |-> <<>>]

\* _parse_route_monitoring
RouteMonitoring(data, offset) ==
  IF Len(data) < offset + BgpHeaderLength THEN {}
  ELSE IF At(data, offset + BgpHeaderLength - 1) # BGP_UPDATE THEN {}
  ELSE Update(data, offset + BgpHeaderLength)

\* parse_message and parsed_message_to_dict: anything but a route monitoring
\* message has the empty update.
ParseMessage(data) ==
  IF Len(data) < CommonHeaderLength \/ At(data, 0) # BMP_VERSION THEN {}
  ELSE
    LET type == At(data, CommonHeaderLength - 1)
        offset == CommonHeaderLength +
                  (IF type \in PEER_HEADER_TYPES THEN PeerHeaderLength ELSE 0)
        peer == Slice(data, CommonHeaderLength, offset)
    IN  IF Len(data) < offset THEN {}
        ELSE {[type |-> type, peer |-> peer, update |-> u] :
                u \in IF type = MSG_ROUTE_MONITORING THEN RouteMonitoring(data, offset)
                      ELSE {NoUpdate}}
=============================================================================
