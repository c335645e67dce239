---------------------------- MODULE MCRoutingSync ----------------------------
(***************************************************************************)
(* RoutingSync for TLC.                                                    *)
(***************************************************************************)
EXTENDS RoutingSync, TLC

CONSTANTS h1, h2

MCHost == {h1, h2}

\* A host is added, the ConfigMap is damaged and repaired.
DamagedTables == <<{}, {h1}, Undecodable, {h1, h2}>>
=============================================================================
