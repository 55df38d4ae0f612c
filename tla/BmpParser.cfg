SPECIFICATION Spec
CONSTANTS
  CommonHeaderLength = 6
  PeerHeaderLength = 42
  BgpHeaderLength = 19
  Start <- UpdateFollows
  Octet = {0, 2, 16, 40}
  MaxLength = 8
  PrefixPool <- SomePrefixes
  AttributePool <- SomeAttributes
  Asns = {65001, 70000}
  MaxPrefixes = 1
  MaxAttributes = 2
  MaxSegments = 2
  MaxAsns = 2
CHECK_DEADLOCK FALSE
INVARIANTS
  NothingInvented
  RoundTrip
PROPERTIES
  TruncationOnlyLoses
