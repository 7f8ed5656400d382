SPECIFICATION NSpec

CONSTANTS
  exampleCom = exampleCom
  localhostDot = localhostDot
  localhost = localhost
  hexPublic = hexPublic
  plain = plain
  dotted = dotted
  wide = wide
  encoded = encoded
  Schemes <- MCSchemes
  LowerCase <- MCLowerCase
  Hosts <- MCHosts
  HostOf <- MCHostOf
  WithoutDot <- MCWithoutDot
  LocalhostNames = {localhost}
  Addresses <- MCAddresses
  RangeOf <- MCRangeOf
  Paths <- MCPaths
  PathOf <- MCPathOf
  Ports <- MCPorts
  Fragments = {0, 3}
  SchemeLength <- MCSchemeLength
  HostLength <- MCHostLength
  PortLength <- MCPortLength
  PathLength <- MCPathLength
  MAX_URL_LENGTH = 10
  Malformed = Malformed
  InvalidUrlError = InvalidUrlError
  BlockedHostError = BlockedHostError

INVARIANTS
  SpellingsAgree
  ValuesAreStable
  EmbeddingsAreSeen

\* A refused string is not submitted again.
CHECK_DEADLOCK FALSE
