--------------------------- MODULE BmpParserInputs ---------------------------
(***************************************************************************)
(* What BMPParser is given: either octets that arrive one by one after a   *)
(* fixed start, so that every sequence is some router's message, or an     *)
(* update put together piece by piece and written the way RFC 7854 and     *)
(* RFC 4271 say.  Each state is one message to parse.                      *)
(***************************************************************************)
EXTENDS BmpParser, SequencesExt

CONSTANTS
  Start,        \* the octets every message of octets begins with
  Octet,        \* the octets it continues with
  MaxLength,    \* bound: octets after the start
  PrefixPool,   \* prefixes: bits and octets
  AttributePool,\* attributes but AS_PATH: name, value, and with extended length
  Asns,         \* AS numbers
  MaxPrefixes,  \* bound: prefixes of a list
  MaxAttributes,\* bound: attributes but AS_PATH
  MaxSegments,  \* bound: segments of the AS path
  MaxAsns       \* bound: AS numbers of a segment

\* The headers the RFCs describe have room for the lengths they state.
ASSUME HeaderAssumption == CommonHeaderLength = 6 /\ BgpHeaderLength >= 3

ASSUME OctetAssumption ==
  /\ Start \in Seq(0..255) /\ Octet \subseteq 0..255 /\ MaxLength \in Nat

\* What the RFCs have as the value of an attribute, and a value of some other
\* attribute, which may be anything.
AttributeName == {"origin", "next_hop", "med", "local_pref", "community", "unknown"}

IsFourOctets(n) == n \in Nat /\ n \div 16777216 < 256

WellFormed(name, value) ==
  CASE name = "origin" -> Len(value) = 1 /\ value[1] \in 0..2
    [] name = "next_hop" -> Len(value) = 4 /\ value \in Seq(0..255)
    [] name \in {"med", "local_pref"} -> Len(value) = 1 /\ IsFourOctets(value[1])
    [] name = "community" ->
         Len(value) % 2 = 0 /\ \A i \in 1..Len(value) : value[i] < 65536
    [] OTHER -> value \in Seq(0..255)

ASSUME PrefixAssumption ==
  /\ PrefixPool \subseteq [bits : 0..32, octets : Seq(0..255)]
  /\ \A p \in PrefixPool : Len(p.octets) = (p.bits + 7) \div 8

ASSUME AttributeAssumption ==
  /\ AttributePool \subseteq [name : AttributeName, value : Seq(Nat), extended : BOOLEAN]
  /\ \A a \in AttributePool : WellFormed(a.name, a.value)

ASSUME AsnAssumption ==
  /\ \A n \in Asns : IsFourOctets(n)
  /\ MaxAsns \in Nat /\ MaxAsns < 256

ASSUME BoundAssumption ==
  MaxPrefixes \in Nat /\ MaxAttributes \in Nat /\ MaxSegments \in Nat

VARIABLES
  data,                               \* the octets
  withdrawn, attributes, path, nlri   \* the update

update == <<withdrawn, attributes, path, nlri>>
vars == <<data, withdrawn, attributes, path, nlri>>

Segment == [type : {1, AS_SEQUENCE}, asns : UNION {[1..n -> Asns] : n \in 0..MaxAsns}]

NoPieces == <<<<>>, <<>>, <<>>, <<>>>>

Init ==
  /\ data = Start
  /\ withdrawn = <<>> /\ attributes = <<>> /\ path = <<>> /\ nlri = <<>>

Arrives(octet) ==
  /\ update = NoPieces /\ Len(data) < Len(Start) + MaxLength
  /\ data' = Append(data, octet)
  /\ UNCHANGED update

Withdraw(p) ==
  /\ data = Start /\ Len(withdrawn) < MaxPrefixes
  /\ withdrawn' = Append(withdrawn, p)
  /\ UNCHANGED <<data, attributes, path, nlri>>

AddAttribute(a) ==
  /\ data = Start /\ Len(attributes) < MaxAttributes
  /\ attributes' = Append(attributes, a)
  /\ UNCHANGED <<data, withdrawn, path, nlri>>

AddSegment(s) ==
  /\ data = Start /\ Len(path) < MaxSegments
  /\ path' = Append(path, s)
  /\ UNCHANGED <<data, withdrawn, attributes, nlri>>

Announce(p) ==
  /\ data = Start /\ Len(nlri) < MaxPrefixes
  /\ nlri' = Append(nlri, p)
  /\ UNCHANGED <<data, withdrawn, attributes, path>>

Next ==
  \/ \E octet \in Octet : Arrives(octet)
  \/ \E p \in PrefixPool : Withdraw(p)
  \/ \E a \in AttributePool : AddAttribute(a)
  \/ \E s \in Segment : AddSegment(s)
  \/ \E p \in PrefixPool : Announce(p)

Spec == Init /\ [][Next]_vars

-----------------------------------------------------------------------------
\* The encoding of the RFCs.

\* A number in so many octets, the highest first.
Place == <<1, 256, 65536, 16777216>>
Octets(n, size) == [i \in 1..size |-> (n \div Place[size - i + 1]) % 256]

EncodedNumbers(numbers, size) ==
  FlattenSeq([i \in 1..Len(numbers) |-> Octets(numbers[i], size)])

EncodedPrefixes(prefixes) ==
  FlattenSeq([i \in 1..Len(prefixes) |-> <<prefixes[i].bits>> \o prefixes[i].octets])

EncodedSegment(s, size) == <<s.type, Len(s.asns)>> \o EncodedNumbers(s.asns, size)
EncodedPath(size) == FlattenSeq([i \in 1..Len(path) |-> EncodedSegment(path[i], size)])

TypeCode == [origin |-> ATTR_ORIGIN, next_hop |-> ATTR_NEXT_HOP, med |-> ATTR_MED,
             local_pref |-> ATTR_LOCAL_PREF, community |-> ATTR_COMMUNITY,
             unknown |-> 32]

EncodedValue(a) ==
  CASE a.name \in {"med", "local_pref"} -> Octets(a.value[1], 4)
    [] a.name = "community" -> EncodedNumbers(a.value, 2)
    [] OTHER -> a.value

Attribute(type, extended, value) ==
  <<IF extended THEN 80 ELSE 64, type>>
    \o Octets(Len(value), IF extended THEN 2 ELSE 1) \o value

EncodedAttribute(a) == Attribute(TypeCode[a.name], a.extended, EncodedValue(a))

EncodedAttributes(size) ==
  Attribute(ATTR_AS_PATH, FALSE, EncodedPath(size))
    \o FlattenSeq([i \in 1..Len(attributes) |-> EncodedAttribute(attributes[i])])

NumbersFit(numbers, size) == size = 4 \/ \A i \in 1..Len(numbers) : numbers[i] < 65536

EncodedUpdate(size) ==
  LET w == EncodedPrefixes(withdrawn)
      a == EncodedAttributes(size)
  IN  Octets(Len(w), 2) \o w \o Octets(Len(a), 2) \o a \o EncodedPrefixes(nlri)

\* The lengths of the BGP message and of the BMP message around it.
BgpLength(size) == BgpHeaderLength + Len(EncodedUpdate(size))
BmpLength(size) == CommonHeaderLength + PeerHeaderLength + BgpLength(size)

\* An update that can be written so: its lengths and its AS numbers have room.
Fits(size) ==
  /\ BgpLength(size) < 65536 /\ IsFourOctets(BmpLength(size))
  /\ Len(EncodedPrefixes(withdrawn)) < 65536 /\ Len(EncodedAttributes(size)) < 65536
  /\ Len(EncodedPath(size)) < 256 /\ \A i \in 1..Len(path) : NumbersFit(path[i].asns, size)
  /\ \A i \in 1..Len(attributes) :
       Len(EncodedValue(attributes[i])) < IF attributes[i].extended THEN 65536 ELSE 256

PeerHeader == [i \in 1..PeerHeaderLength |-> i % 256]

\* The marker, the length of the BGP message and its type.
BgpHeader(length) ==
  [i \in 1..(BgpHeaderLength - 3) |-> 255] \o Octets(length, 2) \o <<BGP_UPDATE>>

\* Version, the length of the BMP message and its type.
CommonHeader(length, type) == <<BMP_VERSION>> \o Octets(length, 4) \o <<type>>

Message(size) ==
  CommonHeader(BmpLength(size), MSG_ROUTE_MONITORING) \o PeerHeader
    \o BgpHeader(BgpLength(size)) \o EncodedUpdate(size)

-----------------------------------------------------------------------------
\* What a parse should find.

Expected ==
  LET asns == FlattenSeq([i \in 1..Len(path) |->
                IF path[i].type = AS_SEQUENCE THEN path[i].asns ELSE <<>>])
      last(i) == \A j \in (i + 1)..Len(attributes) : attributes[j].name # attributes[i].name
  IN  [withdrawn |-> withdrawn, nlri |-> nlri,
       attributes |-> {[name |-> "as_path", value |-> asns]} \cup
         {[name |-> attributes[i].name, value |-> attributes[i].value] :
            i \in {k \in 1..Len(attributes) : last(k) /\ attributes[k].name # "unknown"}}]

-----------------------------------------------------------------------------
\* Properties.

\* A prefix is reported with all its octets and no more, and is one of IPv4.
WholePrefix(p) ==
  p.bits <= 32 /\ 8 * Len(p.octets) >= p.bits /\ 8 * Len(p.octets) < p.bits + 8

\* The two fields of an update that hold prefixes, by the RFC's lengths: the second
\* ends where the BGP message does.
UpdateStart == CommonHeaderLength + PeerHeaderLength + BgpHeaderLength
WithdrawnLength == Number(Slice(data, UpdateStart, UpdateStart + 2))
AttributesStart == UpdateStart + 2 + WithdrawnLength
AttributesLength == Number(Slice(data, AttributesStart, AttributesStart + 2))
BgpEnd == CommonHeaderLength + PeerHeaderLength
            + Number(Slice(data, UpdateStart - 3, UpdateStart - 1))
WithdrawnField == Slice(data, UpdateStart + 2, AttributesStart)
NlriField == Slice(data, AttributesStart + 2 + AttributesLength, BgpEnd)

\* Whatever a router sends, if nothing follows the BGP message, every prefix that is
\* reported stands in its field, one after the other from the first octet on, with all
\* the octets it needs: none is made up from octets of another field or beyond the
\* message.  The parser never reads the BGP message's length (bmp_parser.py:178): it
\* takes octets that do follow for announced prefixes.
NothingInvented ==
  \A m \in ParseMessage(data) :
    m.type = MSG_ROUTE_MONITORING /\ Len(data) <= BgpEnd =>
      /\ AttributesStart + 2 <= Len(data)
      /\ IsPrefix(EncodedPrefixes(m.update.withdrawn), WithdrawnField)
      /\ IsPrefix(EncodedPrefixes(m.update.nlri), NlriField)
      /\ \A p \in ToSet(m.update.withdrawn) \cup ToSet(m.update.nlri) : WholePrefix(p)

\* A message that is accepted although its end is missing withdraws the same
\* prefixes as the whole message and announces none that the whole does not.
TruncationOnlyLoses ==
  [][\A m \in ParseMessage(data), n \in ParseMessage(data') :
       /\ m.update.withdrawn = n.update.withdrawn
       /\ IsPrefix(m.update.nlri, n.update.nlri)]_data

\* What a router writes is what the parser reports, for every mix of prefixes,
\* attributes and AS path segments that can be written, if AS numbers have four octets,
\* and for paths of one segment if they have two: the guess of their size misses
\* nothing else.
RoundTrip ==
  \A size \in {2, 4} : Fits(size) /\ (size = 4 \/ Len(path) <= 1) =>
    ParseMessage(Message(size)) =
      {[type |-> MSG_ROUTE_MONITORING, peer |-> PeerHeader, update |-> Expected]}
=============================================================================
