SPECIFICATION ASpec

CONSTANTS
  exampleCom = exampleCom
  exampleOrg = exampleOrg
  localhost = localhost
  plain = plain
  Schemes <- MCSchemes
  LowerCase <- MCLowerCase
  Hosts <- MCHosts
  HostOf <- MCHostOf
  WithoutDot <- MCHostOf
  LocalhostNames = {localhost}
  Addresses = {}
  RangeOf = {}
  Paths <- MCPaths
  PathOf <- MCPathOf
  Ports <- MCPorts
  Fragments = {0, 1}
  SchemeLength <- MCSchemeLength
  HostLength <- MCHostLength
  PortLength <- MCPortLength
  PathLength <- MCPathLength
  MAX_URL_LENGTH = 10
  Malformed = Malformed
  InvalidUrlError = InvalidUrlError
  BlockedHostError = BlockedHostError
  Keys = {k1, k2}
  Capacity = 1
  TokenCost = 1
  MaxKeys = 2
  MaxTime = 1
  Absent = Absent
  Posts = 2
  Forms <- MCForms
  NoIp = NoIp
  NoForm = NoForm
  empty = empty
  one = one
  two = two
  list = list
  proxy = proxy
  Lists = {list}
  Listed <- MCListed
  ProxyAddresses = {proxy}
  Forwarders = {k2}
  Codes = {empty, one, two}
  LengthOf <- MCLengthOf
  Environments <- MCEnvironments
  Unset = Unset
  Blank = Blank
  NoInteger = NoInteger
  DEFAULT_CACHE_MAX_ENTRIES = 1000
  DEFAULT_CACHE_TTL_MS = 300000
  DEFAULT_LENGTH = 2
  Uncached = Uncached
  NoCode = NoCode
  NoUrl = NoUrl

INVARIANTS
  AInv
  SpellingsShareACode
  QuotaHolds
  RowsHaveSponsors

PROPERTIES
  CallsAreSettled

\* Every call may be settled and every code assigned, and the clock at rest.
CHECK_DEADLOCK FALSE
