-------------------------- MODULE QueuePingerProofs --------------------------
(***************************************************************************)
(* Proofs about QueuePinger, for any finite set of interceptors and of     *)
(* hosts.                                                                  *)
(***************************************************************************)
EXTENDS QueuePinger, SumTheorems

-----------------------------------------------------------------------------
(***************************************************************************)
(* Count maps and their sums.                                              *)
(***************************************************************************)

\* Maps from some hosts to integers, as fetchCounts builds them.
IntCounts == UNION {[S -> Int] : S \in SUBSET Host}

\* What is known of a map from hosts to integers.
LEMMA IntCountsFacts ==
  ASSUME NEW c \in IntCounts
  PROVE  /\ DOMAIN c \subseteq Host
         /\ IsFiniteSet(DOMAIN c)
         /\ c \in [DOMAIN c -> Int]
         /\ \A h \in Host : Get(c, h) \in Int
<1>1. PICK S \in SUBSET Host : c \in [S -> Int]
  BY DEF IntCounts
<1>2. DOMAIN c = S /\ IsFiniteSet(S)
  BY <1>1, FiniteAssumption, FS_Subset
<1>. QED BY <1>1, <1>2 DEF Get

\* What an interceptor answers is such a map.
LEMMA CountsAreInt == Counts \subseteq IntCounts
<1>1. -MaxDeficit..MaxCount \subseteq Int
  BY BoundsAssumption
<1>2. \A S : [S -> -MaxDeficit..MaxCount] \subseteq [S -> Int]
  BY <1>1
<1>. QED BY <1>2 DEF Counts, IntCounts

\* The empty map.
LEMMA NoCountsFacts == NoCounts \in Counts /\ DOMAIN NoCounts = {} /\ SumHosts(NoCounts) = 0
<1>1. NoCounts \in [{} -> -MaxDeficit..MaxCount] /\ DOMAIN NoCounts = {}
  BY DEF NoCounts
<1>2. SumHosts(NoCounts) = 0
  BY <1>1, SumEmpty DEF SumHosts, SumFunction
<1>. QED BY <1>1, <1>2 DEF Counts

\* fetchCounts adds maps host by host, and so adds their sums.
LEMMA PlusFacts ==
  ASSUME NEW c \in IntCounts, NEW d \in IntCounts
  PROVE  /\ Plus(c, d) \in IntCounts
         /\ SumHosts(Plus(c, d)) = SumHosts(c) + SumHosts(d)
<1>. DEFINE D == DOMAIN c \cup DOMAIN d
            f == [h \in D |-> Get(c, h)]
            g == [h \in D |-> Get(d, h)]
<1>1. D \subseteq Host /\ IsFiniteSet(D) /\ DOMAIN c \subseteq D /\ DOMAIN d \subseteq D
  BY IntCountsFacts, FS_Union
<1>2. \A h \in D : Get(c, h) \in Int /\ Get(d, h) \in Int
  BY <1>1, IntCountsFacts
<1>3. Plus(c, d) \in [D -> Int]
  BY <1>2 DEF Plus
<1>4. SumFunctionOnSet(Plus(c, d), D) = SumFunctionOnSet(f, D) + SumFunctionOnSet(g, D)
  <2>1. \A h \in D : f[h] \in Int /\ g[h] \in Int /\ Plus(c, d)[h] = f[h] + g[h]
    BY <1>2 DEF Plus
  <2>. HIDE DEF D, f, g
  <2>. QED BY <1>1, <2>1, SumPlus
<1>5. SumFunctionOnSet(f, D) = SumFunctionOnSet(c, DOMAIN c)
  <2>1. \A h \in D : f[h] \in Int /\ f[h] = IF h \in DOMAIN c THEN c[h] ELSE 0
    BY <1>2 DEF Get
  <2>. HIDE DEF D, f
  <2>. QED BY <1>1, <2>1, SumExtend
<1>6. SumFunctionOnSet(g, D) = SumFunctionOnSet(d, DOMAIN d)
  <2>1. \A h \in D : g[h] \in Int /\ g[h] = IF h \in DOMAIN d THEN d[h] ELSE 0
    BY <1>2 DEF Get
  <2>. HIDE DEF D, g
  <2>. QED BY <1>1, <2>1, SumExtend
<1>7. DOMAIN Plus(c, d) = D
  BY DEF Plus
<1>8. Plus(c, d) \in IntCounts
  <2>. HIDE DEF D
  <2>. QED BY <1>1, <1>3 DEF IntCounts
<1>. QED BY <1>4, <1>5, <1>6, <1>7, <1>8 DEF SumHosts, SumFunction

\* The sums over no interceptor.
LEMMA SumOverNone == ASSUME NEW c PROVE SumOver({}, c) = NoCounts
BY DEF SumOver, NoCounts

\* One round of the range over countsCh adds one interceptor to the sums.
LEMMA SumOverAdd ==
  ASSUME NEW S \in SUBSET Endpoint, NEW e \in Endpoint \ S,
         NEW c \in [Endpoint -> Counts]
  PROVE  SumOver(S \cup {e}, c) = Plus(SumOver(S, c), c[e])
<1>. DEFINE T == S \cup {e}
            Dom(R) == UNION {DOMAIN c[x] : x \in R}
            Of(R, h) == SumFunction([x \in R |-> Get(c[x], h)])
<1>1. Dom(T) = Dom(S) \cup DOMAIN c[e]
  OBVIOUS
<1>2. Dom(T) \subseteq Host /\ \A x \in Endpoint, h \in Host : Get(c[x], h) \in Int
  BY CountsAreInt, IntCountsFacts
<1>3. ASSUME NEW h \in Dom(T)
      PROVE  Of(T, h) = Get(SumOver(S, c), h) + Get(c[e], h)
  <2>. DEFINE f == [x \in T |-> Get(c[x], h)]
              g == [x \in S |-> Get(c[x], h)]
  <2>0. IsFiniteSet(S) /\ h \in Host
    BY <1>2, FiniteAssumption, FS_Subset
  <2>1. SumFunctionOnSet(f, T) = SumFunctionOnSet(f, S) + f[e]
    <3>1. f[e] \in Int /\ \A x \in S : f[x] \in Int
      BY <1>2, <2>0
    <3>. HIDE DEF f
    <3>. QED BY <2>0, <3>1, SumAdd
  <2>2. SumFunctionOnSet(f, S) = SumFunctionOnSet(g, S)
    <3>1. \A x \in S : f[x] = g[x]
      OBVIOUS
    <3>. HIDE DEF f, g
    <3>. QED BY <2>0, <3>1, SumSame
  <2>3. SumFunctionOnSet(g, S) = Get(SumOver(S, c), h)
    <3>1. CASE h \in Dom(S)
      BY <3>1 DEF Get, SumOver, SumFunction
    <3>2. CASE h \notin Dom(S)
      <4>1. \A x \in S : g[x] = 0
        BY <3>2 DEF Get
      <4>2. SumFunctionOnSet(g, S) = 0
        <5>. HIDE DEF g
        <5>. QED BY <2>0, <4>1, SumOfZeros
      <4>3. Get(SumOver(S, c), h) = 0
        BY <3>2 DEF Get, SumOver
      <4>. QED BY <4>2, <4>3
    <3>. QED BY <3>1, <3>2
  <2>4. Of(T, h) = SumFunctionOnSet(f, T) /\ f[e] = Get(c[e], h)
    BY DEF SumFunction
  <2>. HIDE DEF f, g, Of
  <2>. QED BY <2>1, <2>2, <2>3, <2>4
<1>4. SumOver(T, c) = [h \in Dom(T) |-> Of(T, h)]
  BY DEF SumOver
<1>5. DOMAIN SumOver(S, c) = Dom(S)
  BY DEF SumOver
<1>. HIDE DEF Of, Dom
<1>. QED BY <1>1, <1>3, <1>4, <1>5 DEF Plus

\* The sums over some interceptors depend on what these have answered only.
LEMMA SumOverSame ==
  ASSUME NEW S, NEW c, NEW d, \A e \in S : c[e] = d[e]
  PROVE  SumOver(S, c) = SumOver(S, d)
<1>1. UNION {DOMAIN c[e] : e \in S} = UNION {DOMAIN d[e] : e \in S}
  OBVIOUS
<1>2. \A h : [e \in S |-> Get(c[e], h)] = [e \in S |-> Get(d[e], h)]
  OBVIOUS
<1>3. \A h : SumFunction([e \in S |-> Get(c[e], h)]) = SumFunction([e \in S |-> Get(d[e], h)])
  BY <1>2
<1>. QED BY <1>1, <1>3 DEF SumOver

-----------------------------------------------------------------------------
(***************************************************************************)
(* The inductive invariant.  While a fetch runs, its sums are those of the *)
(* interceptors received so far; no goroutine of the others has finished.  *)
(***************************************************************************)

Received == {e \in endpoints : forwarder[e] = "done"}

FetchInv ==
  /\ \A e \in Endpoint \ endpoints : worker[e] = "done" /\ forwarder[e] = "done"
  /\ \A e \in endpoints : forwarder[e] # "receive" => worker[e] = "done"
  /\ main = "idle" => \A e \in endpoints : worker[e] \in {"done", "failed"}
  /\ main = "wait" => Received = {}
  /\ main = "range" => \A e \in endpoints : worker[e] = "done"
  /\ main # "idle" => total = SumOver(Received, answer) /\ agg = SumHosts(total)
  /\ closed => Received = endpoints
  /\ result = "ok" => main = "idle" /\ closed
  /\ process = "down" => main = "idle"
  /\ total \in IntCounts /\ agg \in Int

PingerInv == TypeOK /\ FetchInv /\ SavedIsSum

\* The pinger starts without counts.
LEMMA InitInv == Init => PingerInv
<1>. SUFFICES ASSUME Init PROVE PingerInv
  OBVIOUS
<1>1. NoCounts \in IntCounts /\ NoCounts \in Counts /\ DOMAIN NoCounts = {}
  BY NoCountsFacts, CountsAreInt
<1>2. TypeOK
  <2>1. answer \in [Endpoint -> Counts] /\ DOMAIN allCounts = {}
    BY <1>1 DEF Init, NoFetch
  <2>2. /\ endpoints = {}
        /\ worker \in [Endpoint -> {"fetch", "send", "done", "failed"}]
        /\ forwarder \in [Endpoint -> {"receive", "send", "done"}]
        /\ closed \in BOOLEAN
    BY DEF Init, NoFetch
  <2>. QED BY <2>1, <2>2 DEF Init, TypeOK, Caller
<1>3. FetchInv
  BY <1>1 DEF Init, NoFetch, FetchInv, Received
<1>4. SavedIsSum
  BY DEF Init, SavedIsSum
<1>. QED BY <1>2, <1>3, <1>4 DEF PingerInv

\* The list of endpoints is there: fetchCounts starts its goroutines.
LEMMA StartFetchInv ==
  ASSUME PingerInv, NEW c \in Caller, NEW E \in SUBSET Endpoint, StartFetch(c, E)
  PROVE  PingerInv'
<1>1. NoCounts \in IntCounts /\ NoCounts \in Counts
  BY NoCountsFacts, CountsAreInt
<1>2. TypeOK'
  BY <1>1 DEF PingerInv, TypeOK, StartFetch, savedVars
<1>3. Received' = {}
  BY DEF StartFetch, Received
<1>4. total' = SumOver(Received', answer') /\ agg' = SumHosts(total')
  BY <1>3, SumOverNone, NoCountsFacts DEF StartFetch
<1>5. FetchInv'
  BY <1>1, <1>3, <1>4 DEF PingerInv, FetchInv, TypeOK, StartFetch
<1>6. SavedIsSum'
  BY DEF StartFetch, SavedIsSum
<1>. QED BY <1>2, <1>5, <1>6 DEF PingerInv

\* The list of endpoints cannot be had.
LEMMA NoEndpointsInv ==
  ASSUME PingerInv, NEW c \in Caller, NoEndpoints(c)
  PROVE  PingerInv'
<1>. USE DEF PingerInv, NoEndpoints, ReturnError, fetchVars, savedVars
<1>1. TypeOK'
  BY DEF TypeOK
<1>2. FetchInv'
  BY DEF FetchInv, Received
<1>3. SavedIsSum'
  BY DEF SavedIsSum
<1>. QED BY <1>1, <1>2, <1>3

\* A worker has its answer: no interceptor that is added up already.
LEMMA GetCountsInv ==
  ASSUME PingerInv, NEW e \in Endpoint, NEW c \in Counts, GetCounts(e, c)
  PROVE  PingerInv'
<1>. USE DEF PingerInv, GetCounts, savedVars
<1>1. TypeOK'
  BY DEF TypeOK
<1>2. e \in endpoints /\ forwarder[e] = "receive" /\ main # "idle" /\ main # "range"
  BY DEF FetchInv, TypeOK
<1>3. Received' = Received /\ e \notin Received
  BY <1>2 DEF Received
<1>4. SumOver(Received, answer') = SumOver(Received, answer)
  <2>1. \A x \in Received : answer'[x] = answer[x]
    BY <1>3 DEF TypeOK, Received
  <2>. QED BY <2>1, SumOverSame
<1>5. FetchInv'
  BY <1>2, <1>3, <1>4 DEF FetchInv, TypeOK
<1>6. SavedIsSum'
  BY <1>2 DEF SavedIsSum, FetchInv
<1>. QED BY <1>1, <1>5, <1>6

\* A worker fails, or hands its answer over to its forwarder.
LEMMA WorkerInv ==
  ASSUME PingerInv, NEW e \in Endpoint, GetCountsFails(e) \/ HandOver(e)
  PROVE  PingerInv'
<1>. USE DEF PingerInv, GetCountsFails, HandOver, savedVars
<1>1. TypeOK'
  BY DEF TypeOK
<1>2. e \in endpoints /\ main # "idle" /\ main # "range" /\ forwarder[e] = "receive"
  BY DEF FetchInv, TypeOK
<1>3. Received' = Received
  BY <1>2 DEF Received, TypeOK
<1>4. FetchInv'
  BY <1>2, <1>3 DEF FetchInv, TypeOK
<1>5. SavedIsSum'
  BY <1>2 DEF SavedIsSum, FetchInv
<1>. QED BY <1>1, <1>4, <1>5

\* One round of the range: the sums get one interceptor more.
LEMMA ReceiveInv ==
  ASSUME PingerInv, NEW e \in Endpoint, Receive(e)
  PROVE  PingerInv'
<1>. USE DEF PingerInv, Receive, savedVars
<1>1. TypeOK'
  BY DEF TypeOK
<1>2. e \in endpoints /\ e \notin Received /\ Received' = Received \cup {e}
  BY DEF FetchInv, TypeOK, Received
<1>3. answer[e] \in IntCounts /\ total \in IntCounts
  BY CountsAreInt DEF FetchInv, TypeOK
<1>4. total' = SumOver(Received', answer)
  <2>1. Received \in SUBSET Endpoint /\ answer \in [Endpoint -> Counts]
    BY DEF TypeOK, Received
  <2>2. SumOver(Received \cup {e}, answer) = Plus(SumOver(Received, answer), answer[e])
    BY <1>2, <2>1, SumOverAdd
  <2>. QED BY <1>2, <2>2 DEF FetchInv
<1>5. total' \in IntCounts /\ agg' = SumHosts(total') /\ agg' \in Int
  <2>1. Plus(total, answer[e]) \in IntCounts
    BY <1>3, PlusFacts
  <2>2. SumHosts(Plus(total, answer[e])) = SumHosts(total) + SumHosts(answer[e])
    BY <1>3, PlusFacts
  <2>3. agg' = SumHosts(total) + SumHosts(answer[e])
    BY DEF FetchInv
  <2>4. SumHosts(total') \in Int
    <3>1. total' \in IntCounts
      BY <2>1
    <3>. QED BY <3>1, IntCountsFacts, SumType DEF SumHosts, SumFunction
  <2>. QED BY <2>1, <2>2, <2>3, <2>4
<1>6. FetchInv'
  <2>1. ~closed /\ main # "wait" /\ main # "idle" /\ result # "ok"
    BY <1>2 DEF FetchInv
  <2>. QED BY <1>2, <1>4, <1>5, <2>1 DEF FetchInv, TypeOK
<1>7. SavedIsSum'
  BY DEF SavedIsSum, FetchInv
<1>. QED BY <1>1, <1>6, <1>7

\* countsCh is closed: every forwarder is done.
LEMMA CloseCountsInv == ASSUME PingerInv, CloseCounts PROVE PingerInv'
<1>. USE DEF PingerInv, CloseCounts, savedVars
<1>1. TypeOK'
  BY DEF TypeOK
<1>2. Received' = Received /\ Received = endpoints
  BY DEF Received
<1>3. FetchInv'
  BY <1>2 DEF FetchInv
<1>4. SavedIsSum'
  BY DEF SavedIsSum, FetchInv
<1>. QED BY <1>1, <1>3, <1>4

\* The workers have returned: the range begins, or the error is returned.
LEMMA WaitGroupInv == ASSUME PingerInv, WaitGroup PROVE PingerInv'
<1>. USE DEF PingerInv, WaitGroup, ReturnError, fetchVars, savedVars
<1>1. TypeOK'
  BY DEF TypeOK
<1>2. Received' = Received
  BY DEF Received
<1>3. FetchInv'
  BY <1>2 DEF FetchInv
<1>4. SavedIsSum'
  BY DEF SavedIsSum, FetchInv
<1>. QED BY <1>1, <1>3, <1>4

\* The complete sums are saved.
LEMMA SaveCountsInv == ASSUME PingerInv, SaveCounts PROVE PingerInv'
<1>. USE DEF PingerInv, SaveCounts, fetchVars
<1>1. Received = endpoints /\ Received' = Received
  BY DEF FetchInv, Received
<1>2. total = SumOver(endpoints, answer) /\ agg = SumHosts(total)
  BY <1>1 DEF FetchInv
<1>3. TypeOK'
  <2>1. total \in IntCounts /\ agg \in Int
    BY DEF FetchInv
  <2>2. DOMAIN total \subseteq Host /\ \A h \in DOMAIN total : total[h] \in Int
    BY <2>1, IntCountsFacts
  <2>. QED BY <2>1, <2>2 DEF TypeOK
<1>4. FetchInv'
  BY <1>1 DEF FetchInv
<1>5. SavedIsSum'
  BY <1>2 DEF SavedIsSum, FetchInv
<1>. QED BY <1>3, <1>4, <1>5

\* A new process has lost everything.
LEMMA RestartInv == ASSUME PingerInv, Restart PROVE PingerInv'
<1>. USE DEF PingerInv, Restart
<1>1. NoCounts \in IntCounts /\ NoCounts \in Counts /\ DOMAIN NoCounts = {}
  BY NoCountsFacts, CountsAreInt
<1>2. main = "idle"
  BY DEF FetchInv
<1>3. TypeOK'
  <2>1. answer' \in [Endpoint -> Counts] /\ DOMAIN allCounts' = {}
    BY <1>1
  <2>2. /\ endpoints' = {}
        /\ worker' \in [Endpoint -> {"fetch", "send", "done", "failed"}]
        /\ forwarder' \in [Endpoint -> {"receive", "send", "done"}]
    OBVIOUS
  <2>3. DOMAIN allCounts' \subseteq Host /\ \A h \in DOMAIN allCounts' : allCounts'[h] \in Int
    BY <2>1
  <2>4. /\ process' = "new" /\ caller' = "new" /\ main' = "idle"
        /\ closed' \in BOOLEAN /\ aggregateCount' = 0 /\ result' = "none"
    BY <1>2
  <2>. HIDE DEF PingerInv, Restart
  <2>. QED BY <2>1, <2>2, <2>3, <2>4 DEF TypeOK, Caller
<1>4. FetchInv'
  BY <1>1, <1>2 DEF FetchInv, Received
<1>5. SavedIsSum'
  BY DEF SavedIsSum
<1>. QED BY <1>3, <1>4, <1>5

\* Every step keeps the invariant.
LEMMA InvStep == PingerInv /\ [Next]_vars => PingerInv'
<1>. SUFFICES ASSUME PingerInv, [Next]_vars PROVE PingerInv'
  OBVIOUS
<1>1. CASE UNCHANGED vars
  BY <1>1 DEF vars, fetchVars, savedVars, PingerInv, TypeOK, FetchInv, Received, SavedIsSum
<1>2. CASE Next
  BY <1>2, StartFetchInv, NoEndpointsInv, GetCountsInv, WorkerInv, ReceiveInv,
     CloseCountsInv, WaitGroupInv, SaveCountsInv, RestartInv DEF Next, Goroutines
<1>. QED BY <1>1, <1>2

\* The invariant holds throughout.
LEMMA PingerInvHolds == Spec => []PingerInv
BY InitInv, InvStep, PTL DEF Spec

\* TypeOK of the pinger, for any number of interceptors and of hosts.
THEOREM PingerTypeCorrect == Spec => []TypeOK
<1>1. PingerInv => TypeOK
  BY DEF PingerInv
<1>. QED BY <1>1, PingerInvHolds, PTL

\* What fetchAndSaveCounts saves after a fetch is the sum of what all interceptors of
\* that fetch answered, for any number of them and in any order of their
\* goroutines, and the aggregate is the sum of the saved counts.
THEOREM SavedCountsAreSums == Spec => []SavedIsSum
<1>1. PingerInv => SavedIsSum
  BY DEF PingerInv
<1>. QED BY <1>1, PingerInvHolds, PTL

\* When fetchCounts returns without an error, all its goroutines are done, and
\* countsCh is never closed while one of them may still send.
THEOREM NoGoroutineLeft == Spec => []SuccessLeavesNoGoroutine
<1>1. PingerInv => SuccessLeavesNoGoroutine
  BY DEF PingerInv, FetchInv, Received, SuccessLeavesNoGoroutine
<1>. QED BY <1>1, PingerInvHolds, PTL

\* Saved counts change only by a fetch that succeeded or by a restart: a fetch that
\* fails, however far it got, leaves the counts of the one before.
THEOREM FailuresKeepCounts == Spec => FailureKeepsCounts
<1>. DEFINE Changed == allCounts' # allCounts \/ aggregateCount' # aggregateCount
            Allowed == \/ process = "down"
                       \/ result' = "ok" /\ \A e \in endpoints : worker[e] = "done"
<1>1. PingerInv /\ [Next]_vars => [Changed => Allowed]_vars
  <2>. SUFFICES ASSUME PingerInv, Next, Changed PROVE Allowed
    OBVIOUS
  <2>1. SaveCounts \/ Restart
    BY DEF Next, Goroutines, StartFetch, NoEndpoints, ReturnError, GetCounts,
           GetCountsFails, HandOver, CloseCounts, WaitGroup, Receive, savedVars
  <2>2. CASE SaveCounts
    BY <2>2 DEF SaveCounts, PingerInv, FetchInv
  <2>3. CASE Restart
    BY <2>3 DEF Restart
  <2>. QED BY <2>1, <2>2, <2>3
<1>. QED BY <1>1, PingerInvHolds, PTL DEF Spec, FailureKeepsCounts

-----------------------------------------------------------------------------
(***************************************************************************)
(* The pinger implements SavedCounts, with pingMut as the lock.            *)
(***************************************************************************)

\* The sums over some interceptors are in the range that their number allows.
LEMMA SumOverRange ==
  ASSUME NEW S \in SUBSET Endpoint, NEW c \in [Endpoint -> Counts]
  PROVE  SumOver(S, c) \in
           UNION {[D -> -Cardinality(Endpoint) * MaxDeficit .. Cardinality(Endpoint) * MaxCount] :
                  D \in SUBSET Host}
<1>. DEFINE n == Cardinality(S)
            N == Cardinality(Endpoint)
            Dom == UNION {DOMAIN c[x] : x \in S}
<1>0. IsFiniteSet(S) /\ n \in Nat /\ N \in Nat /\ n <= N
  BY FiniteAssumption, FS_Subset, FS_CardinalityType
<1>1. Dom \subseteq Host
  BY CountsAreInt, IntCountsFacts
<1>2. ASSUME NEW x \in S, NEW h \in Host
      PROVE  Get(c[x], h) \in Int /\ -MaxDeficit <= Get(c[x], h) /\ Get(c[x], h) <= MaxCount
  <2>1. PICK D \in SUBSET Host : c[x] \in [D -> -MaxDeficit..MaxCount]
    BY DEF Counts
  <2>. QED BY <2>1, BoundsAssumption DEF Get
<1>3. ASSUME NEW h \in Dom
      PROVE  SumFunction([x \in S |-> Get(c[x], h)]) \in -N * MaxDeficit .. N * MaxCount
  <2>. DEFINE f == [x \in S |-> Get(c[x], h)]
              s == SumFunctionOnSet(f, S)
  <2>1. \A x \in S : f[x] \in Int /\ -MaxDeficit <= f[x] /\ f[x] <= MaxCount
    BY <1>1, <1>2
  <2>2. s \in Int /\ s >= n * (-MaxDeficit) /\ s <= n * MaxCount
    <3>. HIDE DEF f
    <3>. QED BY <1>0, <2>1, BoundsAssumption, SumBounds, SumType
  <2>3. SumFunction([x \in S |-> Get(c[x], h)]) = s
    BY DEF SumFunction
  <2>. HIDE DEF n, N, s, f
  <2>4. n * (-MaxDeficit) >= -(N * MaxDeficit) /\ n * MaxCount <= N * MaxCount
    <3>1. \A a, b, m \in Nat : a <= b => a * m <= b * m
      OBVIOUS
    <3>2. \A a, m \in Nat : a * (-m) = -(a * m) /\ a * m \in Nat
      OBVIOUS
    <3>3. n * MaxDeficit <= N * MaxDeficit /\ n * MaxCount <= N * MaxCount
      BY <1>0, <3>1, BoundsAssumption
    <3>. QED BY <1>0, <3>2, <3>3, BoundsAssumption
  <2>5. N * MaxDeficit \in Int /\ N * MaxCount \in Int
    BY <1>0, BoundsAssumption
  <2>6. n * (-MaxDeficit) \in Int /\ n * MaxCount \in Int
    BY <1>0, BoundsAssumption
  <2>. QED BY <2>2, <2>3, <2>4, <2>5, <2>6
<1>4. SumOver(S, c) \in [Dom -> -N * MaxDeficit .. N * MaxCount]
  BY <1>3 DEF SumOver
<1>. QED BY <1>1, <1>4

\* The sum that SavedCounts promises is the one the pinger computes.
LEMMA SameSum == \A c : Saved!Sum(c) = SumHosts(c)
BY DEF Saved!Sum, Saved!SumFunction, Saved!SumFunctionOnSet, Saved!FoldFunctionOnSet,
       Saved!MapThenFoldSet, SumHosts, SumFunction, SumFunctionOnSet, FoldFunctionOnSet,
       MapThenFoldSet

\* Every step of the pinger is a step of SavedCounts, or one that it does not see.
LEMMA StepImplements ==
  PingerInv /\ [Next]_vars =>
    [Saved!Lock \/ Saved!Save \/ Saved!Unlock \/ Saved!Forget]_(Saved!savedVars)
<1>. SUFFICES ASSUME PingerInv, [Next]_vars
              PROVE  \/ Saved!Lock \/ Saved!Save \/ Saved!Unlock \/ Saved!Forget
                     \/ UNCHANGED Saved!savedVars
  OBVIOUS
<1>. USE DEF savedVars
<1>1. ASSUME NEW c \in Caller, NEW E \in SUBSET Endpoint, StartFetch(c, E)
      PROVE  Saved!Lock
  BY <1>1 DEF StartFetch, Saved!Lock
<1>2. ASSUME NEW c \in Caller, NoEndpoints(c)
      PROVE  UNCHANGED Saved!savedVars
  BY <1>2 DEF NoEndpoints, ReturnError, Saved!savedVars
<1>3. ASSUME NEW e \in Endpoint, NEW c \in Counts, GetCounts(e, c)
      PROVE  UNCHANGED Saved!savedVars
  BY <1>3 DEF GetCounts, Saved!savedVars
<1>4. ASSUME NEW e \in Endpoint, GetCountsFails(e) \/ HandOver(e) \/ Receive(e)
      PROVE  UNCHANGED Saved!savedVars
  BY <1>4 DEF GetCountsFails, HandOver, Receive, Saved!savedVars
<1>5. CASE CloseCounts
  BY <1>5 DEF CloseCounts, Saved!savedVars
<1>6. CASE WaitGroup
  <2>1. CASE \E e \in endpoints : worker[e] = "failed"
    <3>1. Saved!Unlock
      BY <1>6, <2>1 DEF WaitGroup, ReturnError, Saved!Unlock
    <3>. QED BY <3>1
  <2>2. CASE ~\E e \in endpoints : worker[e] = "failed"
    BY <1>6, <2>2 DEF WaitGroup, Saved!savedVars
  <2>. QED BY <2>1, <2>2
<1>7. CASE SaveCounts
  <2>1. total = SumOver(endpoints, answer) /\ agg = SumHosts(total)
    <3>1. Received = endpoints
      BY <1>7 DEF SaveCounts, PingerInv, FetchInv
    <3>. QED BY <1>7, <3>1 DEF SaveCounts, PingerInv, FetchInv
  <2>2. total \in Saved!CountMaps
    BY <2>1, SumOverRange DEF PingerInv, TypeOK, Saved!CountMaps
  <2>3. Saved!Save
    BY <1>7, <2>1, <2>2, SameSum DEF SaveCounts, Saved!Save
  <2>. QED BY <2>3
<1>8. CASE Restart
  <2>1. main = "idle"
    BY <1>8 DEF Restart, PingerInv, FetchInv
  <2>2. Saved!Forget
    BY <1>8, <2>1 DEF Restart, Saved!Forget, NoCounts, Saved!NoCounts
  <2>. QED BY <2>2
<1>9. CASE UNCHANGED vars
  BY <1>9 DEF vars, Saved!savedVars
<1>. QED
  BY <1>1, <1>2, <1>3, <1>4, <1>5, <1>6, <1>7, <1>8, <1>9 DEF Next, Goroutines

\* The pinger implements what Scaler assumes of it: under pingMut, allCounts and
\* aggregateCount are replaced together by the complete sums of a fetch, within
\* the range its interceptors allow, or left alone.
THEOREM PingerImplementsSavedCounts == Spec => ImplementsSavedCounts
<1>1. Init => Saved!InitCounts
  BY DEF Init, Saved!InitCounts, NoCounts, Saved!NoCounts
<1>. QED
  BY <1>1, StepImplements, PingerInvHolds, PTL
     DEF Spec, ImplementsSavedCounts, Saved!CountsSpec
=============================================================================
