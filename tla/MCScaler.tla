------------------------------- MODULE MCScaler -------------------------------
(***************************************************************************)
(* Scaler for TLC.                                                         *)
(***************************************************************************)
EXTENDS Scaler

CONSTANTS h1, h2

MCHost == {h1, h2}

\* One host is always routed once the table is there, the other comes and goes.
MCTables == {{h1}, {h1, h2}}

\* No hosts, two hosts, and what the interceptors' own ScaledObject says.
MCRefs == {<< >>, <<h1, h2>>, <<Interceptor>>}
=============================================================================
