----------------------------- MODULE MCLongUrl ------------------------------
(***************************************************************************)
(* A public and a private IPv4 address, each embedded in IPv6 in all four  *)
(* forms, a public name, localhost with the root dot, two ways to write    *)
(* most parts, a port that is https's default and not http's, and lengths  *)
(* on both sides of a cap of ten.                                          *)
(***************************************************************************)
EXTENDS Normalization, TLC

CONSTANTS exampleCom, localhostDot, localhost, hexPublic,
          plain, dotted, wide, encoded

Public   == <<93, 184, 216, 34>>
Loopback == <<127, 0, 0, 1>>

(* A 6to4 address goes on; here, with a public address at its end.         *)
Embedded(form, ipv4) ==
  EmbeddingPrefix[form] \o ipv4
    \o (IF form = "6to4" THEN <<0, 0, 0, 0, 0, 0>> \o Public ELSE <<>>)

Embeddings == {Embedded(f, a) : f \in IPV4_EMBEDDING_RANGES, a \in {Public, Loopback}}

MCAddresses == {Public, Loopback} \cup Embeddings

MCRangeOf == [a \in MCAddresses |->
                IF a = Public THEN "unicast"
                ELSE IF a = Loopback THEN "loopback"
                ELSE CHOOSE f \in IPV4_EMBEDDING_RANGES :
                       \E b \in {Public, Loopback} : a = Embedded(f, b)]

MCHosts == {exampleCom, localhostDot, hexPublic} \cup MCAddresses

MCHostOf == (hexPublic :> Public) @@ [h \in MCHosts |-> h]

MCWithoutDot == (localhostDot :> localhost) @@ [h \in MCHosts |-> h]

MCSchemes == {"http", "HTTPS", "https", "ftp"}

MCLowerCase == ("HTTPS" :> "https") @@ [s \in MCSchemes |-> s]

MCPaths == {plain, dotted, wide, encoded}

MCPathOf == (dotted :> plain) @@ (wide :> encoded) @@ [p \in MCPaths |-> p]

MCPathLength == (plain :> 2) @@ (dotted :> 6) @@ (wide :> 1) @@ (encoded :> 8)

MCPorts == {0, 443}

MCPortLength == [p \in MCPorts |-> IF p = 0 THEN 0 ELSE 1]

MCSchemeLength == [s \in MCSchemes |-> 1]

MCHostLength == [h \in MCHosts |-> 1]
=============================================================================
