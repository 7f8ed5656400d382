--------------------------- MODULE Normalization ----------------------------
(***************************************************************************)
(* Submissions to LongUrl.create: any two strings side by side, and stored *)
(* values that are copied from the list of URLs and submitted again.       *)
(***************************************************************************)
EXTENDS LongUrl

VARIABLES raw, other

nvars == <<raw, other>>

NInit == raw \in RawUrls /\ other = raw

(* A second string is submitted beside the first.                          *)
SubmitAnother ==
  /\ other = raw
  /\ other' \in RawUrls
  /\ UNCHANGED raw

(* What was stored for raw is submitted in its turn.                       *)
Resubmit ==
  /\ Accepts(raw)
  /\ raw' = Create(raw)
  /\ UNCHANGED other

NNext == SubmitAnother \/ Resubmit

NSpec == NInit /\ [][NNext]_nvars

(***************************************************************************)
(* Properties                                                              *)
(***************************************************************************)
(* normalize merges all spellings of a URL and nothing else: two strings   *)
(* short enough to be parsed are stored as one value, or refused for one   *)
(* reason, when they mean the same, and stored as two when they do not.    *)
SpellingsAgree ==
  raw # Malformed /\ other # Malformed /\ ~TooLong(raw) /\ ~TooLong(other) =>
    /\ Meaning(raw) = Meaning(other) => Create(raw) = Create(other)
    /\ Accepts(raw) /\ Create(raw) = Create(other) => Meaning(raw) = Meaning(other)

(* A stored value is accepted when it is submitted, and normalises to      *)
(* itself, so that a copied long URL gets the code it already has.         *)
ValuesAreStable == Accepts(raw) => Create(Create(raw)) = Create(raw)

(* What follows the prefix of an IPv6 address is an IPv4 address.          *)
Embeds(address, form, ipv4) ==
  LET size == Len(EmbeddingPrefix[form])
  IN  HasForm(address, form) /\ Len(ipv4) = 4 /\ SubSeq(address, size + 1, size + 4) = ipv4

(* An IPv6 literal that embeds an IPv4 address is refused exactly when the *)
(* IPv4 address is, whatever the form and whatever else it holds.          *)
EmbeddingsAreSeen ==
  raw # Malformed /\ Parsed(raw).host \in Addresses =>
    \A form \in IPV4_EMBEDDING_RANGES, ipv4 \in Addresses :
      Embeds(Parsed(raw).host, form, ipv4) =>
        IsBlockedHost(Parsed(raw).host) = IsBlockedHost(ipv4)
=============================================================================
