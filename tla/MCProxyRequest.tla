--------------------------- MODULE MCProxyRequest ---------------------------
(***************************************************************************)
(* ProxyRequest with one service in a user's and in a system namespace,    *)
(* Host headers with and without namespace, cluster suffix and port,       *)
(* callers of both kinds of namespace and one whose name is not a pod's.   *)
(* (A caller at an IPv6 address is the one without a name.)                *)
(***************************************************************************)
EXTENDS ProxyRequest

MCUserNamespaces == {"dp-a"}

Pod(ns) == <<"10-0-0-1", "caller", ns, "svc", "cluster", "local", "">>
MCNames == {Pod("dp-a"), Pod("sys"), <<"node", "">>}

MCHeaders == {<<"app">>, <<"app", "dp-a">>, <<"app", "sys", ":", "81">>,
              <<"app", "sys", "svc", "cluster", "local">>}

MCTargets == {[service |-> "app", namespace |-> "dp-a", port |-> <<"80">>],
              [service |-> "app", namespace |-> "sys", port |-> <<"80">>]}
=============================================================================
