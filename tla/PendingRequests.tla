--------------------------- MODULE PendingRequests ---------------------------
(***************************************************************************)
(* What an interceptor promises the scaler (docs/design.md): for every     *)
(* host, the size it reports is the number of requests that are pending.   *)
(***************************************************************************)
EXTENDS FiniteSets

CONSTANTS Host, Request

VARIABLES pending,   \* the pending requests of each host
          size       \* the size reported for each host

SizeOf(p) == [h \in Host |-> Cardinality(p[h])]

Init ==
  /\ pending = [h \in Host |-> {}]
  /\ size = SizeOf(pending)

Begin(r, h) ==
  /\ \A g \in Host : r \notin pending[g]
  /\ pending' = [pending EXCEPT ![h] = pending[h] \cup {r}]
  /\ size' = SizeOf(pending')

End(r, h) ==
  /\ r \in pending[h]
  /\ pending' = [pending EXCEPT ![h] = pending[h] \ {r}]
  /\ size' = SizeOf(pending')

\* The interceptor ends, and with it everything it was serving.
Crash ==
  /\ pending' = [h \in Host |-> {}]
  /\ size' = SizeOf(pending')

Next ==
  \/ \E r \in Request, h \in Host : Begin(r, h) \/ End(r, h)
  \/ Crash

Spec == Init /\ [][Next]_<<pending, size>>
=============================================================================
