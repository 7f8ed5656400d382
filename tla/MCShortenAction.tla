-------------------------- MODULE MCShortenAction ---------------------------
(***************************************************************************)
(* Two public hosts and localhost; two spellings of one URL, a second one, *)
(* one that is blocked and one that is malformed, submitted by two clients *)
(* with buckets of one token, or by nobody known, directly or through a    *)
(* proxy that TRUST_PROXY counts or lists; codes of no, one and two        *)
(* characters.                                                             *)
(***************************************************************************)
EXTENDS ShortenAction, TLC

CONSTANTS exampleCom, exampleOrg, localhost, plain,
          empty, one, two, list, proxy

MCHosts == {exampleCom, exampleOrg, localhost}

MCSchemes == {"http", "HTTP"}

MCLowerCase == [s \in MCSchemes |-> "http"]

MCSame(set) == [x \in set |-> x]

MCOne(set) == [x \in set |-> 1]

MCHostOf == MCSame(MCHosts)

MCPaths == {plain}

MCPathOf == MCSame(MCPaths)

MCPorts == {0, 80}

MCSchemeLength == MCOne(MCSchemes)

MCHostLength == MCOne(MCHosts)

MCPortLength == MCOne(MCPorts)

MCPathLength == MCOne(MCPaths)

MCForms == {Url("HTTP", exampleCom, 80, plain, 1),
            Url("http", exampleCom, 0, plain, 0),
            Url("http", exampleOrg, 0, plain, 0),
            Url("http", localhost, 0, plain, 0),
            Malformed}

MCLengthOf == (empty :> 0) @@ (one :> 1) @@ (two :> 2)

Environment(raw, value, before) ==
  [SHORT_CODE_LENGTH |-> raw, TRUST_PROXY |-> value, proxies |-> before]

MCEnvironments ==
  {Environment(Unset, Unset, <<>>), Environment(Blank, Blank, <<>>),
   Environment(NoInteger, list, <<proxy>>), Environment(-1, list, <<proxy>>),
   Environment(1, 1, <<proxy>>)}

MCListed == [l \in {list} |-> {proxy}]
=============================================================================
