------------------------------ MODULE MCOperator ------------------------------
(***************************************************************************)
(* Operator for TLC: two names, and several choices of what users write.   *)
(***************************************************************************)
EXTENDS Operator, TLC

CONSTANTS n1, n2, h1, h2, h3, t1, t2

MCName == {n1, n2}
MCHost == {h1, h2, h3}
MCTarget == {t1, t2}
MCReplicas == {1, 2}

HostsSpec(hs, d, t, r) == [host |-> {}, hosts |-> hs, depl |-> d, target |-> t, replicas |-> r]

\* Objects named like their deployments, each with its own hosts; users change
\* only what ends up in the ScaledObject.
PlainChoices ==
  n1 :> {HostsSpec({h1}, n1, t1, r) : r \in MCReplicas}
  @@ n2 :> {HostsSpec({h2, h3}, n2, t1, 1)}

\* An object that is not named like its deployment.
RenamedChoices == n1 :> {HostsSpec({h1}, n2, t1, 1)} @@ n2 :> {}

\* An object that uses the deprecated host field.
DeprecatedChoices ==
  n1 :> {[host |-> {h1}, hosts |-> {}, depl |-> n1, target |-> t1, replicas |-> 1]}
  @@ n2 :> {}

\* An object whose hosts are edited.
RehostedChoices ==
  n1 :> {HostsSpec({h1}, n1, t1, 1), HostsSpec({h2}, n1, t1, 1)} @@ n2 :> {}

\* An object whose replicas are given first and left out later.
UnsetChoices == n1 :> {HostsSpec({h1}, n1, t1, r) : r \in {1, Unset}} @@ n2 :> {}

\* An object whose target is edited.
RetargetedChoices == n1 :> {HostsSpec({h1}, n1, t, 1) : t \in MCTarget} @@ n2 :> {}
=============================================================================
