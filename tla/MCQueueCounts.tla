---------------------------- MODULE MCQueueCounts ----------------------------
(***************************************************************************)
(* QueueCounts for TLC.  Requests and hosts are interchangeable.           *)
(***************************************************************************)
EXTENDS QueueCounts, TLC

Symmetry == Permutations(Request) \cup Permutations(Host)
=============================================================================
