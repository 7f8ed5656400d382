---------------------------- MODULE MCShortenUrl ----------------------------
(***************************************************************************)
(* Three URLs, one more than there are codes, and an input that is none.   *)
(***************************************************************************)
EXTENDS ShortenUrl

CONSTANT bad

MCNormalizedOf == [u \in RawUrls |-> IF u = bad THEN Invalid ELSE u]

MCHashOf == [u \in LongUrls |-> u]
=============================================================================
