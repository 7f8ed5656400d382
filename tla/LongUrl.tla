------------------------------ MODULE LongUrl -------------------------------
(***************************************************************************)
(* LongUrl.create of libs/engine/src/domain/long-url.ts: what a submitted  *)
(* string is normalised to before it is hashed and stored, or why it is    *)
(* refused.                                                                *)
(*                                                                         *)
(* A URL is a record of its parts as they are written.  One part may be    *)
(* written in several ways (capitals, 0x7f.1, dot segments, characters     *)
(* that get percent-encoded); the functions LowerCase, HostOf and PathOf   *)
(* are what the WHATWG parser makes of them.  An IP address is the         *)
(* sequence of its bytes.                                                  *)
(***************************************************************************)
EXTENDS Integers, Sequences

CONSTANTS
  Schemes, LowerCase, \* schemes as written, and their lower case
  Hosts, HostOf,      \* hosts as written, and as the parser serialises them
  WithoutDot,         \* a host without the dot that ends a fully qualified name
  LocalhostNames,     \* localhost and the names below it
  Addresses,          \* the hosts that are IP addresses
  RangeOf,            \* the name ipaddr.js gives an address's range
  Paths, PathOf,      \* path and query as written, and as the parser encodes them
  Ports,              \* port numbers, 0 for a URL that has none
  Fragments,          \* the lengths of fragments, 0 for a URL that has none
  SchemeLength, HostLength, PortLength, PathLength,
  MAX_URL_LENGTH,
  Malformed,          \* a string that is no URL
  InvalidUrlError, BlockedHostError

(* The parser's output, parsed again, stays as it is.                      *)
ASSUME ParserAssumption ==
  /\ LowerCase \in [Schemes -> Schemes]
  /\ HostOf \in [Hosts -> Hosts]
  /\ PathOf \in [Paths -> Paths]
  /\ \A s \in Schemes : LowerCase[LowerCase[s]] = LowerCase[s]
  /\ \A h \in Hosts : HostOf[HostOf[h]] = HostOf[h]
  /\ \A p \in Paths : PathOf[PathOf[p]] = PathOf[p]
  /\ 0 \in Ports /\ 0 \in Fragments

ASSUME LengthAssumption ==
  /\ MAX_URL_LENGTH \in Nat
  /\ SchemeLength \in [Schemes -> Nat] /\ HostLength \in [Hosts -> Nat]
  /\ PortLength \in [Ports -> Nat] /\ PathLength \in [Paths -> Nat]
  /\ Ports \subseteq Nat /\ Fragments \subseteq Nat

Url(scheme, host, port, path, fragment) ==
  [scheme |-> scheme, host |-> host, port |-> port, path |-> path,
   fragment |-> fragment]

Urls == [scheme : Schemes, host : Hosts, port : Ports, path : Paths,
         fragment : Fragments]

ASSUME ErrorAssumption ==
  /\ Malformed \notin Urls
  /\ InvalidUrlError \notin Urls /\ BlockedHostError \notin Urls
  /\ InvalidUrlError # BlockedHostError

RawUrls == Urls \cup {Malformed}

StringLength(u) ==
  SchemeLength[u.scheme] + HostLength[u.host] + PortLength[u.port]
    + PathLength[u.path] + u.fragment

ALLOWED_SCHEMES == {"http", "https"}

DEFAULT_PORTS == [http |-> 80, https |-> 443]

IsDefault(port, scheme) == scheme \in ALLOWED_SCHEMES /\ port = DEFAULT_PORTS[scheme]

Stripped(port, scheme) == IF IsDefault(port, scheme) THEN 0 ELSE port

(***************************************************************************)
(* isBlockedHost                                                           *)
(***************************************************************************)
BLOCKED_IPV4_RANGES == {"private", "loopback", "linkLocal", "carrierGradeNat",
                        "reserved", "unspecified", "broadcast"}

BLOCKED_IPV6_RANGES == {"loopback", "linkLocal", "uniqueLocal", "unspecified",
                        "reserved"}

IPV4_EMBEDDING_RANGES == {"ipv4Mapped", "rfc6052", "rfc6145", "6to4"}

(* The bytes that by its RFC stand before the IPv4 address in each form.   *)
EmbeddingPrefix ==
  [form \in IPV4_EMBEDDING_RANGES |->
     IF form = "6to4" THEN <<32, 2>>
     ELSE IF form = "ipv4Mapped" THEN <<0, 0, 0, 0, 0, 0, 0, 0, 0, 0, 255, 255>>
     ELSE IF form = "rfc6145" THEN <<0, 0, 0, 0, 0, 0, 0, 0, 255, 255, 0, 0>>
     ELSE <<0, 100, 255, 155, 0, 0, 0, 0, 0, 0, 0, 0>>]

HasForm(address, form) ==
  LET size == Len(EmbeddingPrefix[form])
  IN  Len(address) = 16 /\ SubSeq(address, 1, size) = EmbeddingPrefix[form]

(* The prefix of an IPv6 address is what ipaddr.js names its range by; an  *)
(* address as the parser serialises it has no dot at its end.              *)
ASSUME AddressAssumption ==
  \A address \in Addresses :
    /\ WithoutDot[address] = address /\ address \notin LocalhostNames
    /\ \A form \in IPV4_EMBEDDING_RANGES :
         HasForm(address, form) => RangeOf[address] = form

\* Mutant: the last four bytes, whatever the form.
LastFourBytes(address) == SubSeq(address, 13, 16)

(* 6to4 has the IPv4 address after its prefix, the others at their end.    *)
ExtractEmbeddedIpv4(address) ==
  IF RangeOf[address] = "6to4" THEN SubSeq(address, 3, 6)
  ELSE SubSeq(address, 13, 16)

IsBlockedIp(address) ==
  IF Len(address) = 4 THEN RangeOf[address] \in BLOCKED_IPV4_RANGES
  ELSE \/ RangeOf[address] \in BLOCKED_IPV6_RANGES
       \/ /\ RangeOf[address] \in IPV4_EMBEDDING_RANGES
          /\ RangeOf[ExtractEmbeddedIpv4(address)] \in BLOCKED_IPV4_RANGES

IsBlockedHost(host) ==
  \/ WithoutDot[host] \in LocalhostNames
  \/ WithoutDot[host] \in Addresses /\ IsBlockedIp(WithoutDot[host])

(***************************************************************************)
(* normalize                                                               *)
(***************************************************************************)
(* new URL(raw)                                                            *)
Parsed(raw) ==
  Url(LowerCase[raw.scheme], HostOf[raw.host],
      Stripped(raw.port, LowerCase[raw.scheme]), PathOf[raw.path], raw.fragment)

\* Mutant: the fragment is kept.
FragmentKept(raw) ==
  LET parsed == Parsed(raw)
  IN  Url(parsed.scheme, parsed.host, Stripped(parsed.port, parsed.scheme),
          parsed.path, parsed.fragment)

(* parsed.toString() once its fragment and default port are removed.       *)
Normalized(raw) ==
  LET parsed == Parsed(raw)
  IN  Url(parsed.scheme, parsed.host, Stripped(parsed.port, parsed.scheme),
          parsed.path, 0)

TooLong(u) == StringLength(u) > MAX_URL_LENGTH

(* The checks before the host is looked at.                                *)
FailsEarly(raw) ==
  \/ raw = Malformed
  \/ TooLong(raw)
  \/ Parsed(raw).scheme \notin ALLOWED_SCHEMES

\* Mutant: only the raw string is measured.
CreateRawCapOnly(raw) ==
  IF FailsEarly(raw) THEN InvalidUrlError
  ELSE IF IsBlockedHost(Parsed(raw).host) THEN BlockedHostError
  ELSE Normalized(raw)

(* The value of LongUrl.create(raw), or the error it throws.               *)
Create(raw) ==
  IF FailsEarly(raw) THEN InvalidUrlError
  ELSE IF IsBlockedHost(Parsed(raw).host) THEN BlockedHostError
  ELSE IF TooLong(Normalized(raw)) THEN InvalidUrlError
  ELSE Normalized(raw)

Accepts(raw) == Create(raw) \notin {InvalidUrlError, BlockedHostError}

(* What a URL stands for: scheme and host without regard to case, the port *)
(* it reaches, its path and query; no fragment.                            *)
EffectivePort(u) ==
  IF u.port = 0 /\ LowerCase[u.scheme] \in ALLOWED_SCHEMES
  THEN DEFAULT_PORTS[LowerCase[u.scheme]] ELSE u.port

Meaning(u) == <<LowerCase[u.scheme], HostOf[u.host], EffectivePort(u), PathOf[u.path]>>
=============================================================================
