----------------------------- MODULE TrustProxy -----------------------------
(***************************************************************************)
(* Whose request it is: parseTrustProxy of applications/web/app/lib/       *)
(* trust-proxy.server.ts, and req.ip under the setting createApp makes of  *)
(* it.  TRUST_PROXY is Unset, Blank, the integer it spells or one of the   *)
(* Lists of addresses.                                                     *)
(***************************************************************************)
EXTENDS EngineConfig, Sequences

CONSTANTS Lists, Listed \* Listed[list]: the addresses it names

ASSUME ListAssumption ==
  Lists \cap (Int \cup {Unset, Blank}) = {} /\ DOMAIN Listed = Lists

\* Mutant: anything that is set trusts every hop.
ParseTrustProxyTrue(raw) == IF raw \in {Unset, Blank} THEN 0 ELSE 99

(* false trusts as many hops as 0 does: none.                              *)
ParseTrustProxy(raw) == IF raw \in {Unset, Blank} THEN 0 ELSE raw

(* Express: trust proxy as a number of hops or a list of addresses.  hop   *)
(* counts from 0, the socket's end.                                        *)
Trusts(setting, address, hop) ==
  IF setting \in Lists THEN address \in Listed[setting] ELSE hop < setting

(* req.ip: of the addresses a request came by, the socket's first and then *)
(* those of X-Forwarded-For from its end, the first that is not trusted,   *)
(* or the last.                                                            *)
ReqIp(setting, chain) ==
  LET ends == {i \in 1..Len(chain) :
                 i = Len(chain) \/ ~Trusts(setting, chain[i], i - 1)}
  IN  chain[CHOOSE i \in ends : \A j \in ends : i <= j]
=============================================================================
