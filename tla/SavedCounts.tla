----------------------------- MODULE SavedCounts -----------------------------
(***************************************************************************)
(* What the queuePinger promises to those who read its counts: under       *)
(* pingMut, a fetch replaces the counts and their aggregate together, by   *)
(* what it has added up, or leaves both alone.                             *)
(***************************************************************************)
EXTENDS Integers, FiniteSetsExt

CONSTANTS Host,
          Sizes          \* the sums a fetch can find for a host

VARIABLES allCounts,     \* count of every host some interceptor has counted
          aggregateCount,
          fetching       \* pingMut is locked

savedVars == <<allCounts, aggregateCount, fetching>>

\* A fetch finds counts for the hosts that the interceptors have seen.
CountMaps == UNION {[S -> Sizes] : S \in SUBSET Host}
NoCounts == [h \in {} |-> 0]
Sum(c) == SumFunction(c)

InitCounts ==
  /\ allCounts = NoCounts
  /\ aggregateCount = 0
  /\ fetching = FALSE

Lock ==
  /\ ~fetching
  /\ fetching' = TRUE
  /\ UNCHANGED <<allCounts, aggregateCount>>

\* q.allCounts = counts, q.aggregateCount = agg, and the deferred Unlock.
Save ==
  /\ fetching
  /\ fetching' = FALSE
  /\ allCounts' \in CountMaps
  /\ aggregateCount' = Sum(allCounts')

Unlock ==
  /\ fetching
  /\ fetching' = FALSE
  /\ UNCHANGED <<allCounts, aggregateCount>>

\* The scaler's process is gone, and with it the counts.
Forget ==
  /\ allCounts' = NoCounts
  /\ aggregateCount' = 0
  /\ fetching' = FALSE

CountsSpec == InitCounts /\ [][Lock \/ Save \/ Unlock \/ Forget]_savedVars
=============================================================================
