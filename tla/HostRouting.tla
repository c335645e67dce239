---------------------------- MODULE HostRouting ----------------------------
(***************************************************************************)
(* How the interceptor derives the key of a request - the host under which *)
(* it is counted and routed - from the Host header and from the reverse    *)
(* DNS name of the caller.  A dotted name is the sequence of its labels; a *)
(* port follows them after a ":", as in <<"app", "ns", ":", "81">>.  Every *)
(* name has a first label, if only the empty one.  A key is a pair         *)
(* <<service, namespace>>.                                                 *)
(***************************************************************************)
EXTENDS Naturals, Sequences

CONSTANTS UserNamespaces   \* the namespaces whose name starts with "dp-"

NoHost == <<"", "">>

\* strings.Index(host, ":")
Colons(host) == {i \in 1..Len(host) : host[i] = ":"}
Colon(host) == CHOOSE i \in Colons(host) : \A j \in Colons(host) : i <= j

\* A Host header without its port.
removePort(host) ==
  IF Colons(host) = {} THEN host ELSE SubSeq(host, 1, Colon(host) - 1)

\* $SVC.$NAMESPACE.svc.cluster.local, of which all but $SVC may be left out
extractServiceInfo(labels) ==
  <<labels[1], IF Len(labels) >= 2 THEN labels[2] ELSE "">>

\* $POD_IP.$DEPLOYMENT_NAME.$NAMESPACE.svc.cluster.local
extractPodInfo(labels) == IF Len(labels) >= 3 THEN labels[3] ELSE ""

\* The address of the peer without its port: cut at the first colon, which
\* leaves no address of an IPv6 peer, whose lookup then fails.
LookupAddr(addr, names) == IF addr = "v4" THEN names ELSE << >>

(***************************************************************************)
(* getHost.  r.addr is "" if the request has no remote address, r.host is  *)
(* the empty sequence if it has no Host header; names are the labels of    *)
(* the first name of the caller, the empty sequence if it has none.        *)
(***************************************************************************)
getHost(r, names) ==
  LET caller == extractPodInfo(LookupAddr(r.addr, names))
      dest   == extractServiceInfo(removePort(r.host))
  IN IF r.addr = "" \/ r.host = << >> \/ caller = "" THEN NoHost
     ELSE IF caller \in UserNamespaces \/ dest[2] = ""
          THEN <<dest[1], caller>> ELSE dest

\* Table.Lookup: the key as it is (it has no port left to cut off).
Lookup(table, key) == {table[k] : k \in DOMAIN table \cap {key}}

\* ServiceURL, or the same service at the port that the Host header gives.
TargetURL(target, host) ==
  [service |-> target.service, namespace |-> target.namespace,
   port    |-> IF Colons(host) = {} THEN target.port
               ELSE SubSeq(host, Colon(host) + 1, Len(host))]
=============================================================================
