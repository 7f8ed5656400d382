------------------------ MODULE NormalizationProofs -------------------------
(***************************************************************************)
(* Proofs about LongUrl.create for every set of schemes, hosts, ports and  *)
(* paths, every parser that leaves its own output alone, and every cap.    *)
(***************************************************************************)
EXTENDS Normalization, TLAPS

USE ParserAssumption, LengthAssumption, ErrorAssumption

LEMMA DefaultPorts ==
  ASSUME NEW scheme \in ALLOWED_SCHEMES
  PROVE  DEFAULT_PORTS[scheme] \in Nat \ {0}
<1>1. CASE scheme = "http"
  BY <1>1 DEF DEFAULT_PORTS
<1>2. CASE scheme = "https"
  BY <1>2 DEF DEFAULT_PORTS
<1>3. QED
  BY <1>1, <1>2 DEF ALLOWED_SCHEMES

LEMMA StrippedTwice ==
  ASSUME NEW port \in Ports, NEW scheme
  PROVE  /\ Stripped(port, scheme) \in Ports
         /\ Stripped(Stripped(port, scheme), scheme) = Stripped(port, scheme)
BY DEF Stripped

(* The parts of a URL that was parsed, and of one that was normalised.     *)
LEMMA ParsedParts ==
  ASSUME NEW u \in Urls
  PROVE  /\ Parsed(u) \in Urls
         /\ Parsed(u).scheme = LowerCase[u.scheme]
         /\ Parsed(u).host = HostOf[u.host]
         /\ Parsed(u).port = Stripped(u.port, LowerCase[u.scheme])
         /\ Parsed(u).path = PathOf[u.path]
<1>1. /\ LowerCase[u.scheme] \in Schemes /\ HostOf[u.host] \in Hosts
      /\ PathOf[u.path] \in Paths /\ u.fragment \in Fragments
  BY DEF Urls
<1>2. Stripped(u.port, LowerCase[u.scheme]) \in Ports
  BY StrippedTwice DEF Urls
<1>3. QED
  BY <1>1, <1>2 DEF Parsed, Url, Urls

LEMMA NormalizedParts ==
  ASSUME NEW u \in Urls
  PROVE  /\ Normalized(u) \in Urls
         /\ Normalized(u) = Url(LowerCase[u.scheme], HostOf[u.host],
                                Stripped(u.port, LowerCase[u.scheme]),
                                PathOf[u.path], 0)
<1>1. Normalized(u) = Url(LowerCase[u.scheme], HostOf[u.host],
                          Stripped(u.port, LowerCase[u.scheme]),
                          PathOf[u.path], 0)
  <2>1. Normalized(u) = Url(Parsed(u).scheme, Parsed(u).host,
                            Stripped(Parsed(u).port, Parsed(u).scheme),
                            Parsed(u).path, 0)
    BY DEF Normalized
  <2>2. u.port \in Ports
    BY DEF Urls
  <2>3. Stripped(Stripped(u.port, LowerCase[u.scheme]), LowerCase[u.scheme])
          = Stripped(u.port, LowerCase[u.scheme])
    BY <2>2, StrippedTwice
  <2>4. QED
    BY <2>1, <2>3, ParsedParts
<1>2. /\ LowerCase[u.scheme] \in Schemes /\ HostOf[u.host] \in Hosts
      /\ PathOf[u.path] \in Paths
  BY DEF Urls
<1>3. Stripped(u.port, LowerCase[u.scheme]) \in Ports
  BY StrippedTwice DEF Urls
<1>4. QED
  BY <1>1, <1>2, <1>3 DEF Url, Urls

(* A URL once normalised does not change.                                  *)
LEMMA NormalizedTwice ==
  ASSUME NEW u \in Urls
  PROVE  Normalized(Normalized(u)) = Normalized(u)
<1> DEFINE v == Normalized(u)
<1>1. /\ v \in Urls
      /\ v.scheme = LowerCase[u.scheme] /\ v.host = HostOf[u.host]
      /\ v.port = Stripped(u.port, LowerCase[u.scheme])
      /\ v.path = PathOf[u.path]
  BY NormalizedParts DEF Url
<1>2. /\ LowerCase[v.scheme] = LowerCase[u.scheme]
      /\ HostOf[v.host] = HostOf[u.host]
      /\ PathOf[v.path] = PathOf[u.path]
  BY <1>1 DEF Urls
<1>3. Stripped(v.port, LowerCase[u.scheme]) = v.port
  <2>1. u.port \in Ports
    BY DEF Urls
  <2>2. Stripped(Stripped(u.port, LowerCase[u.scheme]), LowerCase[u.scheme])
          = Stripped(u.port, LowerCase[u.scheme])
    BY <2>1, StrippedTwice
  <2>3. QED
    BY <1>1, <2>2
<1> HIDE DEF v
<1>4. Normalized(v) = Url(LowerCase[u.scheme], HostOf[u.host],
                          Stripped(u.port, LowerCase[u.scheme]), PathOf[u.path], 0)
  <2>1. Normalized(v) = Url(LowerCase[v.scheme], HostOf[v.host],
                            Stripped(v.port, LowerCase[v.scheme]), PathOf[v.path], 0)
    BY <1>1, NormalizedParts
  <2>2. QED
    BY <1>1, <1>2, <1>3, <2>1
<1>5. QED
  BY <1>4, NormalizedParts DEF v

LEMMA AcceptedValue ==
  ASSUME NEW u \in RawUrls
  PROVE  /\ Accepts(u) <=> /\ ~FailsEarly(u)
                           /\ ~IsBlockedHost(Parsed(u).host)
                           /\ ~TooLong(Normalized(u))
         /\ Accepts(u) => /\ u \in Urls
                          /\ Create(u) = Normalized(u)
                          /\ Create(u) \in Urls
<1>1. CASE u = Malformed
  BY <1>1 DEF Accepts, Create, FailsEarly
<1>2. CASE u \in Urls
  <2>1. Normalized(u) \in Urls
    BY <1>2, NormalizedParts
  <2>2. Normalized(u) \notin {InvalidUrlError, BlockedHostError}
    BY <2>1
  <2>3. QED
    BY <1>2, <2>1, <2>2 DEF Accepts, Create
<1>3. QED
  BY <1>1, <1>2 DEF RawUrls

SubmissionsOK == raw \in RawUrls /\ other \in RawUrls

LEMMA SubmissionsAreRaw == NSpec => []SubmissionsOK
<1>1. NInit => SubmissionsOK
  BY DEF NInit, SubmissionsOK
<1>2. SubmissionsOK /\ [NNext]_nvars => SubmissionsOK'
  <2>1. ASSUME SubmissionsOK, Resubmit PROVE SubmissionsOK'
    BY <2>1, AcceptedValue DEF SubmissionsOK, Resubmit, RawUrls
  <2>2. ASSUME SubmissionsOK, SubmitAnother PROVE SubmissionsOK'
    BY <2>2 DEF SubmissionsOK, SubmitAnother
  <2>3. QED
    BY <2>1, <2>2 DEF NNext, nvars, SubmissionsOK
<1>3. QED
  BY <1>1, <1>2, PTL DEF NSpec

(* Whatever is stored is accepted as it is when it is submitted again.     *)
LEMMA StableValue ==
  ASSUME NEW u \in RawUrls, Accepts(u)
  PROVE  Create(Create(u)) = Create(u)
<1> DEFINE v == Create(u)
<1>1. u \in Urls /\ v \in Urls /\ v = Normalized(u)
  BY AcceptedValue
<1>2. Normalized(v) = v
  BY <1>1, NormalizedTwice
<1>3. ~TooLong(v)
  BY <1>1, AcceptedValue
<1>4. Parsed(v).scheme = Parsed(u).scheme /\ Parsed(v).host = Parsed(u).host
  <2>1. v.scheme = LowerCase[u.scheme] /\ v.host = HostOf[u.host]
    BY <1>1, NormalizedParts DEF Url
  <2>2. QED
    BY <1>1, <2>1, ParsedParts DEF Urls
<1>5. ~FailsEarly(v)
  BY <1>1, <1>3, <1>4, AcceptedValue DEF FailsEarly
<1>6. ~IsBlockedHost(Parsed(v).host)
  BY <1>4, AcceptedValue
<1> HIDE DEF v
<1>7. Create(v) = v
  BY <1>2, <1>3, <1>5, <1>6 DEF Create
<1>8. QED
  BY <1>7 DEF v

(* The port a URL of an allowed scheme reaches.                            *)
Reached(port, scheme) == IF port = 0 THEN DEFAULT_PORTS[scheme] ELSE port

LEMMA PortReached ==
  ASSUME NEW u \in Urls, LowerCase[u.scheme] \in ALLOWED_SCHEMES
  PROVE  EffectivePort(u) = Reached(u.port, LowerCase[u.scheme])
BY DEF EffectivePort, Reached

(* Normalising the port loses nothing but whether the default was written. *)
LEMMA PortsAgree ==
  ASSUME NEW p \in Ports, NEW q \in Ports, NEW scheme \in ALLOWED_SCHEMES
  PROVE  Stripped(p, scheme) = Stripped(q, scheme)
           <=> Reached(p, scheme) = Reached(q, scheme)
BY DefaultPorts DEF Stripped, IsDefault, Reached

LEMMA SameMeaningSameValue ==
  ASSUME NEW u \in Urls, NEW w \in Urls, ~TooLong(u), ~TooLong(w),
         Meaning(u) = Meaning(w)
  PROVE  Create(u) = Create(w)
<1>1. /\ LowerCase[u.scheme] = LowerCase[w.scheme]
      /\ HostOf[u.host] = HostOf[w.host]
      /\ PathOf[u.path] = PathOf[w.path]
      /\ EffectivePort(u) = EffectivePort(w)
  BY DEF Meaning
<1>2. Parsed(u).scheme = Parsed(w).scheme /\ Parsed(u).host = Parsed(w).host
  BY <1>1, ParsedParts
<1>3. FailsEarly(u) <=> FailsEarly(w)
  BY <1>2 DEF FailsEarly
<1>4. CASE Parsed(u).scheme \notin ALLOWED_SCHEMES
  BY <1>3, <1>4 DEF FailsEarly, Create
<1>5. CASE Parsed(u).scheme \in ALLOWED_SCHEMES
  <2>1. LowerCase[u.scheme] \in ALLOWED_SCHEMES
    BY <1>5, ParsedParts
  <2>2. Stripped(u.port, LowerCase[u.scheme]) = Stripped(w.port, LowerCase[u.scheme])
    <3>1. u.port \in Ports /\ w.port \in Ports
      BY DEF Urls
    <3>2. Reached(u.port, LowerCase[u.scheme]) = Reached(w.port, LowerCase[u.scheme])
      BY <1>1, <2>1, PortReached
    <3>3. QED
      BY <1>1, <2>1, <3>1, <3>2, PortsAgree
  <2>3. Normalized(u) = Normalized(w)
    BY <1>1, <2>2, NormalizedParts
  <2>4. QED
    BY <1>2, <1>3, <2>3 DEF Create
<1>6. QED
  BY <1>4, <1>5

LEMMA SameValueSameMeaning ==
  ASSUME NEW u \in Urls, NEW w \in Urls, Accepts(u), Create(u) = Create(w)
  PROVE  Meaning(u) = Meaning(w)
<1>1. Accepts(w)
  BY DEF Accepts
<1>2. Normalized(u) = Normalized(w)
  BY <1>1, AcceptedValue DEF RawUrls
<1>3. /\ LowerCase[u.scheme] = LowerCase[w.scheme]
      /\ HostOf[u.host] = HostOf[w.host]
      /\ PathOf[u.path] = PathOf[w.path]
      /\ Stripped(u.port, LowerCase[u.scheme]) = Stripped(w.port, LowerCase[w.scheme])
  BY <1>2, NormalizedParts DEF Url
<1>4. LowerCase[u.scheme] \in ALLOWED_SCHEMES
  BY AcceptedValue, ParsedParts DEF FailsEarly, RawUrls
<1>5. EffectivePort(u) = EffectivePort(w)
  <2>1. u.port \in Ports /\ w.port \in Ports
    BY DEF Urls
  <2>2. Stripped(u.port, LowerCase[u.scheme]) = Stripped(w.port, LowerCase[u.scheme])
    BY <1>3
  <2>3. Reached(u.port, LowerCase[u.scheme]) = Reached(w.port, LowerCase[u.scheme])
    BY <1>4, <2>1, <2>2, PortsAgree
  <2>4. /\ EffectivePort(u) = Reached(u.port, LowerCase[u.scheme])
        /\ EffectivePort(w) = Reached(w.port, LowerCase[w.scheme])
    BY <1>3, <1>4, PortReached
  <2>5. QED
    BY <1>3, <2>3, <2>4
<1>6. QED
  BY <1>3, <1>5 DEF Meaning

(* Two strings are stored as one value exactly when they mean the same.    *)
THEOREM Spellings == NSpec => []SpellingsAgree
<1>1. SubmissionsOK => SpellingsAgree
  BY SameMeaningSameValue, SameValueSameMeaning DEF SubmissionsOK, SpellingsAgree, RawUrls
<1>2. QED
  BY <1>1, SubmissionsAreRaw, PTL

(* A stored value normalises to itself.                                    *)
THEOREM Stability == NSpec => []ValuesAreStable
<1>1. SubmissionsOK => ValuesAreStable
  BY StableValue DEF SubmissionsOK, ValuesAreStable
<1>2. QED
  BY <1>1, SubmissionsAreRaw, PTL

(* The IPv4 address is taken from where its form has it.                   *)
LEMMA ExtractedIpv4 ==
  ASSUME NEW address \in Addresses, NEW form \in IPV4_EMBEDDING_RANGES,
         NEW ipv4, Embeds(address, form, ipv4)
  PROVE  RangeOf[address] = form /\ ExtractEmbeddedIpv4(address) = ipv4
<1>1. RangeOf[address] = form
  BY AddressAssumption DEF Embeds
<1>2. Len(EmbeddingPrefix[form]) = IF form = "6to4" THEN 2 ELSE 12
  BY DEF EmbeddingPrefix, IPV4_EMBEDDING_RANGES
<1>3. SubSeq(address, Len(EmbeddingPrefix[form]) + 1, Len(EmbeddingPrefix[form]) + 4) = ipv4
  BY DEF Embeds
<1>4. CASE form = "6to4"
  BY <1>1, <1>2, <1>3, <1>4 DEF ExtractEmbeddedIpv4
<1>5. CASE form # "6to4"
  BY <1>1, <1>2, <1>3, <1>5 DEF ExtractEmbeddedIpv4
<1>6. QED
  BY <1>1, <1>4, <1>5

(* Of an address only the range decides.                                   *)
LEMMA BlockedAddress ==
  ASSUME NEW address \in Addresses
  PROVE  IsBlockedHost(address) <=> IsBlockedIp(address)
BY AddressAssumption DEF IsBlockedHost

LEMMA SeenThrough ==
  ASSUME NEW address \in Addresses, NEW form \in IPV4_EMBEDDING_RANGES,
         NEW ipv4 \in Addresses, Embeds(address, form, ipv4)
  PROVE  IsBlockedHost(address) = IsBlockedHost(ipv4)
<1>1. RangeOf[address] = form /\ ExtractEmbeddedIpv4(address) = ipv4
  BY ExtractedIpv4
<1>2. Len(address) = 16 /\ Len(ipv4) = 4
  BY DEF Embeds, HasForm
<1>3. form \notin BLOCKED_IPV6_RANGES
  BY DEF IPV4_EMBEDDING_RANGES, BLOCKED_IPV6_RANGES
<1>4. IsBlockedIp(address) <=> RangeOf[ipv4] \in BLOCKED_IPV4_RANGES
  BY <1>1, <1>2, <1>3 DEF IsBlockedIp
<1>5. IsBlockedIp(ipv4) <=> RangeOf[ipv4] \in BLOCKED_IPV4_RANGES
  BY <1>2 DEF IsBlockedIp
<1>6. IsBlockedHost(address) \in BOOLEAN /\ IsBlockedHost(ipv4) \in BOOLEAN
  BY DEF IsBlockedHost, IsBlockedIp
<1>7. QED
  BY <1>4, <1>5, <1>6, BlockedAddress

(* An IPv4 address is refused in whatever IPv6 form it is written.         *)
THEOREM EmbeddedAddresses == NSpec => []EmbeddingsAreSeen
<1>1. EmbeddingsAreSeen
  BY SeenThrough DEF EmbeddingsAreSeen
<1>2. QED
  BY <1>1, PTL
=============================================================================
