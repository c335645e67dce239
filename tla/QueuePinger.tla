----------------------------- MODULE QueuePinger -----------------------------
(***************************************************************************)
(* The scaler's queuePinger (scaler/queue_pinger.go): it asks every        *)
(* interceptor for its counts, adds them up, and keeps the sums for the    *)
(* scaler's RPCs.                                                          *)
(*                                                                         *)
(* fetchCounts runs two goroutines per interceptor.  A worker asks for the *)
(* counts and hands them over a private channel to a forwarder, which      *)
(* hands them over countsCh to fetchCounts; another goroutine closes       *)
(* countsCh when all forwarders are done.  The channels have no buffer.    *)
(* pingMut is held for the whole fetch, so there is one at a time; those   *)
(* who ask for one are the constructor, the loop of start (on a tick or on *)
(* a change of the interceptors' deployment), the updater of the routing   *)
(* table, and /queue_ping.                                                 *)
(***************************************************************************)
EXTENDS Integers, FiniteSetsExt

CONSTANTS Endpoint,      \* interceptors
          Host,
          MaxDeficit,    \* bound: how far below zero a count is that an interceptor answers
          MaxCount,      \* bound: the largest count an interceptor answers
          MaxFetches     \* bound: fetches in a behaviour

ASSUME FiniteAssumption == IsFiniteSet(Endpoint) /\ IsFiniteSet(Host)
ASSUME BoundsAssumption == MaxDeficit \in Nat /\ MaxCount \in Nat /\ MaxFetches \in Nat

\* An interceptor answers with the hosts it has counted; a size is below zero
\* when the cooldown has taken a request back twice.
Counts == UNION {[S -> -MaxDeficit..MaxCount] : S \in SUBSET Host}
NoCounts == [h \in {} |-> 0]
Caller == {"new", "tick", "event", "callback", "ping"}

VARIABLES process,       \* "new" until the first fetch succeeds, "up", or "down"
          caller,        \* who asked for the fetch under way
          main,          \* fetchCounts: "idle", "wait" (fetchGrp.Wait), "range"
          endpoints,     \* the interceptors of the fetch
          worker,        \* "fetch", "send", "done", "failed"
          forwarder,     \* "receive", "send", "done"
          answer,        \* what each interceptor answered
          closed,        \* countsCh is closed
          total,         \* totalCounts
          agg,           \* agg
          allCounts, aggregateCount,
          result,        \* how the last fetch ended: "none", "ok", "error"
          fetches

fetchVars == <<endpoints, worker, forwarder, answer, closed, total, agg>>
savedVars == <<allCounts, aggregateCount>>
vars == <<process, caller, main, fetchVars, savedVars, result, fetches>>

\* A map's value, or Go's zero value for a key that is not there.
Get(c, h) == IF h \in DOMAIN c THEN c[h] ELSE 0

Plus(c, d) == [h \in DOMAIN c \cup DOMAIN d |-> Get(c, h) + Get(d, h)]
SumHosts(c) == SumFunction(c)

\* What adding up the answers c of the interceptors S should give.
SumOver(S, c) == [h \in UNION {DOMAIN c[e] : e \in S} |->
                    SumFunction([e \in S |-> Get(c[e], h)])]

NoFetch ==
  /\ endpoints = {}
  /\ worker = [e \in Endpoint |-> "done"]
  /\ forwarder = [e \in Endpoint |-> "done"]
  /\ answer = [e \in Endpoint |-> NoCounts]
  /\ closed = FALSE
  /\ total = NoCounts
  /\ agg = 0

Init ==
  /\ process = "new"
  /\ caller = "new"
  /\ main = "idle"
  /\ NoFetch
  /\ allCounts = NoCounts
  /\ aggregateCount = 0
  /\ result = "none"
  /\ fetches = 0

-----------------------------------------------------------------------------
\* fetchAndSaveCounts returns an error: the constructor's caller exits, the loop
\* of start returns on a tick (and with it the process ends), the others go on.
ReturnError(c) ==
  /\ main' = "idle"
  /\ result' = "error"
  /\ process' = IF c \in {"new", "tick"} THEN "down" ELSE process
  /\ UNCHANGED savedVars

\* A fetch begins with the list of endpoints, which may fail or be empty.
StartFetch(c, E) ==
  /\ main = "idle"
  /\ fetches < MaxFetches
  /\ IF c = "new" THEN process = "new" ELSE process = "up"
  /\ caller' = c
  /\ fetches' = fetches + 1
  /\ main' = "wait"
  /\ endpoints' = E
  /\ worker' = [e \in Endpoint |-> IF e \in E THEN "fetch" ELSE "done"]
  /\ forwarder' = [e \in Endpoint |-> IF e \in E THEN "receive" ELSE "done"]
  /\ answer' = [e \in Endpoint |-> NoCounts]
  /\ closed' = FALSE
  /\ total' = NoCounts
  /\ agg' = 0
  /\ result' = "none"
  /\ UNCHANGED <<process, savedVars>>

NoEndpoints(c) ==
  /\ main = "idle"
  /\ fetches < MaxFetches
  /\ IF c = "new" THEN process = "new" ELSE process = "up"
  /\ caller' = c
  /\ fetches' = fetches + 1
  /\ ReturnError(c)
  /\ UNCHANGED fetchVars

\* queue.GetCounts: an answer that can be decoded, or an error.  It has no timeout
\* and does not use the errgroup's context.
GetCounts(e, c) ==
  /\ worker[e] = "fetch"
  /\ worker' = [worker EXCEPT ![e] = "send"]
  /\ answer' = [answer EXCEPT ![e] = c]
  /\ UNCHANGED <<process, caller, main, endpoints, forwarder, closed, total, agg,
                 savedVars, result, fetches>>

\* Mutant of GetCountsFails: an error message is decoded like counts.
GetCountsUndecoded(e) ==
  /\ worker[e] = "fetch"
  /\ worker' = [worker EXCEPT ![e] = "send"]
  /\ answer' = [answer EXCEPT ![e] = [h \in {"message"} |-> 0]]
  /\ UNCHANGED <<process, caller, main, endpoints, forwarder, closed, total, agg,
                 savedVars, result, fetches>>

GetCountsFails(e) ==
  /\ worker[e] = "fetch"
  /\ worker' = [worker EXCEPT ![e] = "failed"]
  /\ UNCHANGED <<process, caller, main, endpoints, forwarder, answer, closed, total,
                 agg, savedVars, result, fetches>>

\* Mutant of HandOver: the worker sends to countsCh itself.
HandOverDirectly(e) ==
  /\ main = "range"
  /\ worker[e] = "send"
  /\ forwarder[e] = "receive"
  /\ worker' = [worker EXCEPT ![e] = "done"]
  /\ forwarder' = [forwarder EXCEPT ![e] = "send"]
  /\ UNCHANGED <<process, caller, main, endpoints, answer, closed, total, agg,
                 savedVars, result, fetches>>

\* ch <- counts meets res := <-ch.
HandOver(e) ==
  /\ worker[e] = "send"
  /\ forwarder[e] = "receive"
  /\ worker' = [worker EXCEPT ![e] = "done"]
  /\ forwarder' = [forwarder EXCEPT ![e] = "send"]
  /\ UNCHANGED <<process, caller, main, endpoints, answer, closed, total, agg,
                 savedVars, result, fetches>>

\* Mutant of CloseCounts: it waits for the workers only.
CloseCountsEarly ==
  /\ main # "idle"
  /\ ~closed
  /\ \A e \in endpoints : worker[e] = "done"
  /\ closed' = TRUE
  /\ UNCHANGED <<process, caller, main, endpoints, worker, forwarder, answer, total,
                 agg, savedVars, result, fetches>>

\* wg.Wait, then close(countsCh).
CloseCounts ==
  /\ main # "idle"
  /\ ~closed
  /\ \A e \in endpoints : forwarder[e] = "done"
  /\ closed' = TRUE
  /\ UNCHANGED <<process, caller, main, endpoints, worker, forwarder, answer, total,
                 agg, savedVars, result, fetches>>

\* Mutant of WaitGroup: an error of a worker is not looked at.
WaitGroupIgnoresErrors ==
  /\ main = "wait"
  /\ \A e \in endpoints : worker[e] \in {"done", "failed"}
  /\ main' = "range"
  /\ forwarder' = [e \in Endpoint |-> IF worker[e] = "failed" THEN "done" ELSE forwarder[e]]
  /\ UNCHANGED <<process, caller, endpoints, worker, answer, closed, total, agg,
                 savedVars, result, fetches>>

\* fetchGrp.Wait: all workers have returned; an error of one of them is returned,
\* and leaves every forwarder behind that has not been received from.
WaitGroup ==
  /\ main = "wait"
  /\ \A e \in endpoints : worker[e] \in {"done", "failed"}
  /\ IF \E e \in endpoints : worker[e] = "failed"
     THEN ReturnError(caller)
     ELSE main' = "range" /\ UNCHANGED <<process, savedVars, result>>
  /\ UNCHANGED <<caller, fetchVars, fetches>>

\* One round of the range over countsCh.
Receive(e) ==
  /\ main = "range"
  /\ forwarder[e] = "send"
  /\ forwarder' = [forwarder EXCEPT ![e] = "done"]
  /\ total' = Plus(total, answer[e])
  /\ agg' = agg + SumHosts(answer[e])
  /\ UNCHANGED <<process, caller, main, endpoints, worker, answer, closed, savedVars,
                 result, fetches>>

\* Mutant of SaveCounts: the aggregate of the fetch before is kept.
SaveCountsOnly ==
  /\ main = "range"
  /\ closed
  /\ main' = "idle"
  /\ allCounts' = total
  /\ result' = "ok"
  /\ process' = "up"
  /\ UNCHANGED <<caller, fetchVars, aggregateCount, fetches>>

\* The range ends when countsCh is closed, and the sums are saved.
SaveCounts ==
  /\ main = "range"
  /\ closed
  /\ main' = "idle"
  /\ allCounts' = total
  /\ aggregateCount' = agg
  /\ result' = "ok"
  /\ process' = "up"
  /\ UNCHANGED <<caller, fetchVars, fetches>>

\* The kubelet starts the scaler again.
Restart ==
  /\ process = "down"
  /\ process' = "new"
  /\ caller' = "new"
  /\ endpoints' = {}
  /\ worker' = [e \in Endpoint |-> "done"]
  /\ forwarder' = [e \in Endpoint |-> "done"]
  /\ answer' = [e \in Endpoint |-> NoCounts]
  /\ closed' = FALSE
  /\ total' = NoCounts
  /\ agg' = 0
  /\ allCounts' = NoCounts
  /\ aggregateCount' = 0
  /\ result' = "none"
  /\ UNCHANGED <<main, fetches>>

-----------------------------------------------------------------------------
Goroutines ==
  \/ \E e \in Endpoint : HandOver(e) \/ Receive(e)
  \/ CloseCounts
  \/ WaitGroup
  \/ SaveCounts

Next ==
  \/ \E c \in Caller : \E E \in SUBSET Endpoint : StartFetch(c, E)
  \/ \E c \in Caller : NoEndpoints(c)
  \/ \E e \in Endpoint : \E c \in Counts : GetCounts(e, c)
  \/ \E e \in Endpoint : GetCountsFails(e)
  \/ Goroutines
  \/ Restart

Spec == Init /\ [][Next]_vars

\* Runnable goroutines run.  Nothing is assumed of the interceptors.
FairSpec == Spec /\ WF_vars(Goroutines)

-----------------------------------------------------------------------------
\* Types of the pinger's state and of its goroutines.
TypeOK ==
  /\ process \in {"new", "up", "down"}
  /\ caller \in Caller
  /\ main \in {"idle", "wait", "range"}
  /\ endpoints \subseteq Endpoint
  /\ worker \in [Endpoint -> {"fetch", "send", "done", "failed"}]
  /\ forwarder \in [Endpoint -> {"receive", "send", "done"}]
  /\ answer \in [Endpoint -> Counts]
  /\ closed \in BOOLEAN
  /\ DOMAIN allCounts \subseteq Host
  /\ \A h \in DOMAIN allCounts : allCounts[h] \in Int
  /\ aggregateCount \in Int
  /\ result \in {"none", "ok", "error"}

\* "aggregated when all requests return successfully" (queue_pinger.go): the counts
\* a fetch saves are the sums of what every interceptor of that fetch answered,
\* each answer once, in whatever order the goroutines run; the aggregate that
\* scales the interceptors is the sum of the counts that scale the applications.
SavedIsSum ==
  result = "ok" => /\ \A e \in endpoints : worker[e] = "done"
                   /\ allCounts = SumOver(endpoints, answer)
                   /\ aggregateCount = SumHosts(allCounts)

\* A fetch that succeeds leaves no goroutine behind, so nobody is left to send on
\* the closed countsCh, which would panic.
SuccessLeavesNoGoroutine ==
  /\ result = "ok" => closed /\ \A e \in endpoints : forwarder[e] = "done"
  /\ closed => \A e \in endpoints : forwarder[e] = "done"

\* Counts that were saved change only when another fetch succeeds, never to
\* partial sums, unless the scaler restarts.
FailureKeepsCounts ==
  [][allCounts' # allCounts \/ aggregateCount' # aggregateCount
       => process = "down" \/ (result' = "ok" /\ \A e \in endpoints : worker[e] = "done")]_vars

Saved == INSTANCE SavedCounts
           WITH fetching <- main # "idle",
                Sizes <- -Cardinality(Endpoint) * MaxDeficit .. Cardinality(Endpoint) * MaxCount

\* The pinger is what the scaler's RPCs take it for: counts and aggregate change
\* together, under the lock, to the complete sums of one fetch or not at all.
ImplementsSavedCounts == Saved!CountsSpec

\* Once every interceptor has answered or failed, fetchCounts returns and pingMut
\* is released: its goroutines never wait for one another.
AnsweredFetchReturns ==
  (main # "idle" /\ \A e \in endpoints : worker[e] # "fetch") ~> (main = "idle")
=============================================================================
