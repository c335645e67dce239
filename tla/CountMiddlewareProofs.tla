------------------------ MODULE CountMiddlewareProofs ------------------------
(***************************************************************************)
(* Proofs about CountMiddleware and QueueCounts, for any set of hosts, any *)
(* finite set of requests and both settings of the cooldown.               *)
(***************************************************************************)
EXTENDS QueueCounts, FiniteSetTheorems, TLAPS

-----------------------------------------------------------------------------
(***************************************************************************)
(* The maps of the queue.                                                  *)
(***************************************************************************)

\* Count, which reads a Go map, gives an integer for every host.
LEMMA CountType ==
  ASSUME TypeOK, NEW h \in Host
  PROVE  Count(h) \in Int
BY DEF TypeOK, QueueTypeOK, Count

\* Resize keeps countMap a map from hosts to integers and changes the count of
\* its own host only.
LEMMA ResizeEffect ==
  ASSUME TypeOK, NEW h \in Host, NEW d \in Int, Resize(h, d)
  PROVE  /\ DOMAIN countMap' \subseteq Host
         /\ countMap' \in [DOMAIN countMap' -> Int]
         /\ \A g \in Host : Count(g)' = IF g = h THEN Count(h) + d ELSE Count(g)
<1>1. Count(h) + d \in Int
  BY CountType
<1>2. DOMAIN countMap' = DOMAIN countMap \cup {h}
  BY DEF Resize, Store
<1>3. \A x \in DOMAIN countMap' :
        countMap'[x] = IF x = h THEN Count(h) + d ELSE countMap[x]
  BY <1>2 DEF Resize, Store
<1>4. countMap' \in [DOMAIN countMap' -> Int]
  BY <1>1, <1>2 DEF Resize, Store, TypeOK, QueueTypeOK
<1>5. ASSUME NEW g \in Host
      PROVE  Count(g)' = IF g = h THEN Count(h) + d ELSE Count(g)
  BY <1>2, <1>3 DEF Count
<1>. QED
  BY <1>2, <1>4, <1>5 DEF TypeOK, QueueTypeOK

\* The second critical section of ProcessPostponedResizes zeroes the counts of
\* the collected hosts and no other.
LEMMA ModifyEffect ==
  ASSUME TypeOK, ModifyPostponed
  PROVE  /\ DOMAIN countMap' \subseteq Host
         /\ countMap' \in [DOMAIN countMap' -> Int]
         /\ \A g \in Host : Count(g)' = IF g \in hostsToModify THEN 0 ELSE Count(g)
<1>1. DOMAIN countMap' = DOMAIN countMap \cup hostsToModify
  BY DEF ModifyPostponed
<1>2. \A x \in DOMAIN countMap' :
        countMap'[x] = IF x \in hostsToModify THEN 0 ELSE countMap[x]
  BY <1>1 DEF ModifyPostponed
<1>3. countMap' \in [DOMAIN countMap' -> Int]
  BY <1>1 DEF ModifyPostponed, TypeOK, QueueTypeOK
<1>4. ASSUME NEW g \in Host
      PROVE  Count(g)' = IF g \in hostsToModify THEN 0 ELSE Count(g)
  BY <1>1, <1>2 DEF Count
<1>. QED
  BY <1>1, <1>3, <1>4 DEF TypeOK, QueueTypeOK

-----------------------------------------------------------------------------
(***************************************************************************)
(* The requests that are counted.                                          *)
(***************************************************************************)

\* The pending requests of a host are finitely many.
LEMMA CountedFinite ==
  ASSUME NEW h \in Host
  PROVE  /\ IsFiniteSet(Counted(h))
         /\ Cardinality(Counted(h)) \in Nat
         /\ Cardinality(Counted(h)) <= Cardinality(Request)
         /\ Cardinality(Request) \in Nat
<1>1. Counted(h) \in SUBSET Request
  BY DEF Counted
<1>. QED
  BY <1>1, RequestAssumption, FS_Subset, FS_CardinalityType

\* A request joins the pending requests of one host.
LEMMA CountedGains ==
  ASSUME NEW h \in Host, NEW r, r \notin Counted(h),
         Counted(h)' = Counted(h) \cup {r}
  PROVE  Cardinality(Counted(h))' = Cardinality(Counted(h)) + 1
BY CountedFinite, FS_AddElement

\* A request leaves the pending requests of one host.
LEMMA CountedLoses ==
  ASSUME NEW h \in Host, NEW r \in Counted(h),
         Counted(h)' = Counted(h) \ {r}
  PROVE  Cardinality(Counted(h))' = Cardinality(Counted(h)) - 1
BY CountedFinite, FS_RemoveElement

-----------------------------------------------------------------------------
(***************************************************************************)
(* Type correctness.                                                       *)
(***************************************************************************)

\* Every step of the request goroutines, of the enforcer and of the clock keeps
\* the types of the queue's maps and of the goroutines' states.
LEMMA TypeOKStep == TypeOK /\ [Next]_vars => TypeOK'
<1>. SUFFICES ASSUME TypeOK, [Next]_vars
              PROVE  TypeOK'
  OBVIOUS
<1>. USE DEF Goto
<1>1. ASSUME NEW r \in Request, Reject(r)
      PROVE  TypeOK'
  BY <1>1 DEF TypeOK, QueueTypeOK, Reject, queueVars
<1>2. ASSUME NEW r \in Request, Dismiss(r)
      PROVE  TypeOK'
  BY <1>2 DEF TypeOK, QueueTypeOK, Dismiss, queueVars
<1>3. ASSUME NEW r \in Request, NEW h \in Host, Arrive(r, h)
      PROVE  TypeOK'
  <2>1. /\ DOMAIN countMap' \subseteq Host
        /\ countMap' \in [DOMAIN countMap' -> Int]
    BY <1>3, ResizeEffect DEF Arrive
  <2>. QED
    BY <1>3, <2>1 DEF TypeOK, QueueTypeOK, Arrive
<1>4. ASSUME NEW r \in Request, Return(r)
      PROVE  TypeOK'
  BY <1>4 DEF TypeOK, QueueTypeOK, Return, queueVars
<1>5. ASSUME NEW r \in Request, Decide(r)
      PROVE  TypeOK'
  BY <1>5 DEF TypeOK, QueueTypeOK, Decide, queueVars
<1>6. ASSUME NEW r \in Request, Postpone(r)
      PROVE  TypeOK'
  BY <1>6 DEF TypeOK, QueueTypeOK, Postpone, PostponeResize, Store, Deadline
<1>7. ASSUME NEW r \in Request, Decrement(r)
      PROVE  TypeOK'
  <2>1. host[r] \in Host
    BY DEF TypeOK
  <2>2. /\ DOMAIN countMap' \subseteq Host
        /\ countMap' \in [DOMAIN countMap' -> Int]
    BY <1>7, <2>1, ResizeEffect DEF Decrement
  <2>. QED
    BY <1>7, <2>2 DEF TypeOK, QueueTypeOK, Decrement
<1>8. ASSUME NEW h \in Host, Expire(h), UNCHANGED <<pc, host>>
      PROVE  TypeOK'
  BY <1>8 DEF TypeOK, QueueTypeOK, Expire, Store, Deadline
<1>9. CASE ScanPostponed /\ UNCHANGED <<pc, host>>
  BY <1>9 DEF TypeOK, QueueTypeOK, ScanPostponed
<1>10. CASE ModifyPostponed /\ UNCHANGED <<pc, host>>
  <2>1. /\ DOMAIN countMap' \subseteq Host
        /\ countMap' \in [DOMAIN countMap' -> Int]
    BY <1>10, ModifyEffect
  <2>. QED
    BY <1>10, <2>1 DEF TypeOK, QueueTypeOK, ModifyPostponed, Without
<1>11. CASE UNCHANGED vars
  BY <1>11 DEF TypeOK, QueueTypeOK, vars
<1>. QED
  BY <1>1, <1>2, <1>3, <1>4, <1>5, <1>6, <1>7, <1>8, <1>9, <1>10, <1>11 DEF Next

\* The middleware, the queue and the enforcer keep their types: the maps hold
\* integers and deadlines under request hosts, whatever the interleaving.
THEOREM TypeCorrect == Spec => []TypeOK
<1>1. Init => TypeOK
  BY DEF Init, NewMemory, EmptyMap, TypeOK, QueueTypeOK
<1>. QED
  BY <1>1, TypeOKStep, PTL DEF Spec

-----------------------------------------------------------------------------
(***************************************************************************)
(* What a step can do to one host: five cases, from which the invariants   *)
(* follow by arithmetic.                                                   *)
(***************************************************************************)
Size(g) == Cardinality(Counted(g))

\* No request joins or leaves; a surplus keeps its deadline.
Kept(g) ==
  /\ Count(g)' = Count(g)
  /\ Size(g)' = Size(g)
  /\ \/ g \in DOMAIN postponedResizes'
     \/ g \notin DOMAIN postponedResizes /\ Leaving(g)' = Leaving(g)

\* A request is counted.
Joined(g) ==
  /\ Count(g)' = Count(g) + 1
  /\ Size(g)' = Size(g) + 1
  /\ Leaving(g)' = Leaving(g)
  /\ UNCHANGED postponedResizes

\* A request takes its 1 back.
TookBack(g) ==
  /\ Count(g)' = Count(g) - 1
  /\ Size(g)' = Size(g) - 1
  /\ Leaving(g)' = Leaving(g)
  /\ UNCHANGED postponedResizes

\* The deferred function of the only counted request leaves its 1 behind.
LeftBehind(g) ==
  /\ ShouldPostpone
  /\ Count(g) = 1
  /\ Count(g)' = 1
  /\ Size(g)' = Size(g) - 1
  /\ Leaving(g)' # {}

\* The enforcer clears the count.
Cleared(g) ==
  /\ g \in hostsToModify
  /\ Count(g)' = 0
  /\ Size(g)' = Size(g)

Effect(g) == Kept(g) \/ Joined(g) \/ TookBack(g) \/ LeftBehind(g) \/ Cleared(g)

\* countMiddleware's Resize(host, +1) and the request it counts.
LEMMA ArriveEffect ==
  ASSUME TypeOK, NEW r \in Request, NEW h \in Host, Arrive(r, h), NEW g \in Host
  PROVE  Effect(g)
<1>1. Leaving(g)' = Leaving(g)
  BY DEF Arrive, Goto, TypeOK, Leaving
<1>2. Count(g)' = IF g = h THEN Count(h) + 1 ELSE Count(g)
  BY ResizeEffect DEF Arrive
<1>3. CASE g = h
  <2>1. r \notin Counted(g)
    BY DEF Arrive, Goto, Counted
  <2>2. Counted(g)' = Counted(g) \cup {r}
    BY <1>3 DEF Arrive, Goto, TypeOK, Counted
  <2>3. Size(g)' = Size(g) + 1
    BY <2>1, <2>2, CountedGains DEF Size
  <2>. QED
    BY <1>1, <1>2, <1>3, <2>3 DEF Effect, Joined, Arrive
<1>4. CASE g # h
  <2>1. Counted(g)' = Counted(g)
    BY <1>4 DEF Arrive, Goto, TypeOK, Counted
  <2>. QED
    BY <1>1, <1>2, <1>4, <2>1 DEF Effect, Kept, Arrive, Size
<1>. QED
  BY <1>3, <1>4

\* The test of the deferred function: a request that postpones leaves its 1 behind.
LEMMA DecideEffect ==
  ASSUME TypeOK, NEW r \in Request, Decide(r), NEW g \in Host
  PROVE  Effect(g)
<1>1. Count(g)' = Count(g) /\ UNCHANGED <<postponedResizes, host>>
  BY DEF Decide, queueVars, Count
<1>2. CASE MustPostpone(host[r]) /\ g = host[r]
  <2>1. r \in Counted(g)
    BY <1>2 DEF Decide, Goto, Counted
  <2>2. Counted(g)' = Counted(g) \ {r} /\ r \in Leaving(g)'
    BY <1>2 DEF Decide, Goto, TypeOK, Counted, Leaving
  <2>3. Size(g)' = Size(g) - 1
    BY <2>1, <2>2, CountedLoses DEF Size
  <2>. QED
    BY <1>1, <1>2, <2>2, <2>3 DEF Effect, LeftBehind, MustPostpone
<1>3. CASE MustPostpone(host[r]) /\ g # host[r]
  <2>1. Counted(g)' = Counted(g) /\ Leaving(g)' = Leaving(g)
    BY <1>3 DEF Decide, Goto, TypeOK, Counted, Leaving
  <2>. QED
    BY <1>1, <2>1 DEF Effect, Kept, Size
<1>4. CASE ~MustPostpone(host[r])
  <2>1. Counted(g)' = Counted(g) /\ Leaving(g)' = Leaving(g)
    BY <1>4 DEF Decide, Goto, TypeOK, Counted, Leaving
  <2>. QED
    BY <1>1, <2>1 DEF Effect, Kept, Size
<1>. QED
  BY <1>2, <1>3, <1>4

\* PostponeResize stores the deadline the surplus needs.
LEMMA PostponeEffect ==
  ASSUME TypeOK, NEW r \in Request, Postpone(r), NEW g \in Host
  PROVE  Effect(g)
<1>1. Count(g)' = Count(g)
  BY DEF Postpone, Count
<1>2. Counted(g)' = Counted(g)
  BY DEF Postpone, Goto, TypeOK, Counted
<1>3. DOMAIN postponedResizes' = DOMAIN postponedResizes \cup {host[r]}
  BY DEF Postpone, PostponeResize, Store
<1>4. g # host[r] => Leaving(g)' = Leaving(g)
  BY DEF Postpone, Goto, TypeOK, Leaving
<1>. QED
  BY <1>1, <1>2, <1>3, <1>4 DEF Effect, Kept, Size

\* The deferred Resize(host, -1) and the request it stops counting.
LEMMA DecrementEffect ==
  ASSUME TypeOK, NEW r \in Request, Decrement(r), NEW g \in Host
  PROVE  Effect(g)
<1>0. host[r] \in Host
  BY DEF TypeOK
<1>1. Leaving(g)' = Leaving(g)
  BY DEF Decrement, Goto, TypeOK, Leaving
<1>2. Count(g)' = IF g = host[r] THEN Count(host[r]) + (-1) ELSE Count(g)
  BY <1>0, ResizeEffect DEF Decrement
<1>3. CASE g = host[r]
  <2>1. r \in Counted(g)
    BY <1>3 DEF Decrement, Goto, Counted
  <2>2. Counted(g)' = Counted(g) \ {r}
    BY <1>3 DEF Decrement, Goto, TypeOK, Counted
  <2>3. Size(g)' = Size(g) - 1
    BY <2>1, <2>2, CountedLoses DEF Size
  <2>4. Count(g)' = Count(g) - 1
    BY <1>2, <1>3, CountType
  <2>. QED
    BY <1>1, <2>3, <2>4 DEF Effect, TookBack, Decrement
<1>4. CASE g # host[r]
  <2>1. Counted(g)' = Counted(g)
    BY <1>4 DEF Decrement, Goto, TypeOK, Counted
  <2>. QED
    BY <1>1, <1>2, <1>4, <2>1 DEF Effect, Kept, Decrement, Size
<1>. QED
  BY <1>3, <1>4

\* Steps that change neither the queue nor what is counted.
LEMMA QuietEffect ==
  ASSUME TypeOK, NEW r \in Request, Reject(r) \/ Dismiss(r) \/ Return(r), NEW g \in Host
  PROVE  Effect(g)
<1>1. Count(g)' = Count(g) /\ UNCHANGED postponedResizes
  BY DEF Reject, Dismiss, Return, queueVars, Count
<1>2. Counted(g)' = Counted(g) /\ Leaving(g)' = Leaving(g)
  <2>1. CASE Reject(r)
    BY <2>1 DEF Reject, Goto, TypeOK, Counted, Leaving
  <2>2. CASE Dismiss(r)
    BY <2>2 DEF Dismiss, Goto, TypeOK, Counted, Leaving
  <2>3. CASE Return(r)
    BY <2>3 DEF Return, Goto, TypeOK, Counted, Leaving
  <2>. QED
    BY <2>1, <2>2, <2>3
<1>. QED
  BY <1>1, <1>2 DEF Effect, Kept, Size

\* The clock and the two critical sections of ProcessPostponedResizes.
LEMMA EnforcerEffect ==
  ASSUME TypeOK, NEW g \in Host, UNCHANGED <<pc, host>>,
         \/ \E h \in Host : Expire(h)
         \/ ScanPostponed
         \/ ModifyPostponed
  PROVE  Effect(g)
<1>1. Counted(g)' = Counted(g) /\ Leaving(g)' = Leaving(g)
  BY DEF Counted, Leaving
<1>2. ASSUME NEW h \in Host, Expire(h)
      PROVE  Effect(g)
  BY <1>1, <1>2 DEF Expire, Store, Count, Effect, Kept, Size
<1>3. CASE ScanPostponed
  BY <1>1, <1>3 DEF ScanPostponed, Count, Effect, Kept, Size
<1>4. CASE ModifyPostponed
  <2>1. Count(g)' = IF g \in hostsToModify THEN 0 ELSE Count(g)
    BY <1>4, ModifyEffect
  <2>2. g \notin hostsToModify =>
          (g \in DOMAIN postponedResizes' <=> g \in DOMAIN postponedResizes)
    BY <1>4 DEF ModifyPostponed, Without
  <2>. QED
    BY <1>1, <2>1, <2>2 DEF Effect, Kept, Cleared, Size
<1>. QED
  BY <1>2, <1>3, <1>4

\* Every step has one of the five effects on every host.
LEMMA StepEffect ==
  ASSUME TypeOK, [Next]_vars, NEW g \in Host
  PROVE  Effect(g)
<1>1. CASE UNCHANGED vars
  BY <1>1 DEF vars, Effect, Kept, Size, Count, Counted, Leaving
<1>2. CASE Next
  BY <1>2, ArriveEffect, DecideEffect, PostponeEffect, DecrementEffect,
     QuietEffect, EnforcerEffect DEF Next
<1>. QED
  BY <1>1, <1>2

\* The numbers the arithmetic below is about.
LEMMA Numbers ==
  ASSUME TypeOK, TypeOK', NEW g \in Host
  PROVE  /\ Count(g) \in Int /\ Count(g)' \in Int
         /\ Size(g) \in Nat /\ Size(g) <= Cardinality(Request)
         /\ Size(g)' \in Nat /\ Size(g)' <= Cardinality(Request)
         /\ Cardinality(Request) \in Nat
<1>1. Count(g) \in Int
  BY CountType
<1>2. Size(g) \in Nat /\ Size(g) <= Cardinality(Request) /\ Cardinality(Request) \in Nat
  BY CountedFinite DEF Size
<1>3. Count(g)' \in Int
  BY DEF TypeOK, QueueTypeOK, Count
<1>4. Counted(g)' \in SUBSET Request
  BY DEF Counted
<1>5. Size(g)' \in Nat /\ Size(g)' <= Cardinality(Request)
  BY <1>4, RequestAssumption, FS_Subset, FS_CardinalityType DEF Size
<1>. QED
  BY <1>1, <1>2, <1>3, <1>5

-----------------------------------------------------------------------------
(***************************************************************************)
(* The error of a count is bounded.                                        *)
(***************************************************************************)

\* In the initial state nothing is counted.
LEMMA InitSizes ==
  ASSUME Init, NEW g \in Host
  PROVE  Count(g) = 0 /\ Size(g) = 0
<1>1. Counted(g) = {}
  BY DEF Init, Counted
<1>2. Count(g) = 0
  BY DEF Init, NewMemory, EmptyMap, Count
<1>. QED
  BY <1>1, <1>2, FS_EmptySet DEF Size

\* With or without the cooldown, the size reported for a host is at most one
\* more than its pending requests and too small by at most the requests that
\* can be open, however the deferred functions and ProcessPostponedResizes
\* interleave: ErrorBounded is inductive given the types.
THEOREM ErrorIsBounded == Spec => []ErrorBounded
<1>1. Init => ErrorBounded
  BY InitSizes, RequestAssumption, FS_CardinalityType DEF ErrorBounded, Size
<1>2. TypeOK /\ TypeOK' /\ ErrorBounded /\ [Next]_vars => ErrorBounded'
  <2>. SUFFICES ASSUME TypeOK, TypeOK', ErrorBounded, [Next]_vars, NEW g \in Host
                PROVE  /\ Count(g)' <= Size(g)' + 1
                       /\ Count(g)' >= Size(g)' - Cardinality(Request)
    BY DEF ErrorBounded, Size
  <2>1. Count(g) <= Size(g) + 1 /\ Count(g) >= Size(g) - Cardinality(Request)
    BY DEF ErrorBounded, Size
  <2>2. Effect(g)
    BY StepEffect
  <2>. QED
    BY <2>1, <2>2, Numbers DEF Effect, Kept, Joined, TookBack, LeftBehind, Cleared
<1>. QED
  BY <1>1, <1>2, TypeCorrect, PTL DEF Spec

-----------------------------------------------------------------------------
(***************************************************************************)
(* A surplus always has a deadline.                                        *)
(***************************************************************************)

\* A count that exceeds the pending requests is never forgotten: a deadline is
\* stored for the host or a deferred function is about to store one.
THEOREM SurplusIsRemembered == Spec => []SurplusHasDeadline
<1>1. Init => SurplusHasDeadline
  BY InitSizes DEF SurplusHasDeadline, Size
<1>2. TypeOK /\ TypeOK' /\ SurplusHasDeadline /\ [Next]_vars => SurplusHasDeadline'
  <2>. SUFFICES ASSUME TypeOK, TypeOK', SurplusHasDeadline, [Next]_vars,
                       NEW g \in Host, Count(g)' > Size(g)'
                PROVE  g \in DOMAIN postponedResizes' \/ Leaving(g)' # {}
    BY DEF SurplusHasDeadline, Size
  <2>1. Count(g) > Size(g) => g \in DOMAIN postponedResizes \/ Leaving(g) # {}
    BY DEF SurplusHasDeadline, Size
  <2>2. Effect(g)
    BY StepEffect
  <2>. QED
    BY <2>1, <2>2, Numbers DEF Effect, Kept, Joined, TookBack, LeftBehind, Cleared
<1>. QED
  BY <1>1, <1>2, TypeCorrect, PTL DEF Spec

-----------------------------------------------------------------------------
(***************************************************************************)
(* Without the cooldown the counts are exact.                              *)
(***************************************************************************)

\* With the cooldown disabled no deadline is ever stored and the enforcer finds
\* nothing to do.  CountExact is inductive only together with this.
CooldownInert ==
  ~ShouldPostpone => /\ DOMAIN postponedResizes = {}
                     /\ hostsToModify = {}
                     /\ \A r \in Request : pc[r] # "postponing"

\* No step postpones a resize when the cooldown is off.
LEMMA CooldownStaysInert ==
  TypeOK /\ CooldownInert /\ [Next]_vars => CooldownInert'
<1>. SUFFICES ASSUME TypeOK, CooldownInert, [Next]_vars, ~ShouldPostpone
              PROVE  /\ DOMAIN postponedResizes' = {}
                     /\ hostsToModify' = {}
                     /\ \A r \in Request : pc'[r] # "postponing"
  BY DEF CooldownInert
<1>. DEFINE Inert == /\ DOMAIN postponedResizes = {}
                     /\ hostsToModify = {}
                     /\ \A r \in Request : pc[r] # "postponing"
<1>0. Inert
  BY DEF CooldownInert
<1>. USE <1>0 DEF Goto
<1>1. ASSUME NEW r \in Request, Reject(r) \/ Dismiss(r) \/ Return(r) \/ Decide(r)
      PROVE  Inert'
  BY <1>1 DEF TypeOK, Reject, Dismiss, Return, Decide, MustPostpone, queueVars
<1>2. ASSUME NEW r \in Request, NEW h \in Host, Arrive(r, h)
      PROVE  Inert'
  BY <1>2 DEF TypeOK, Arrive
<1>3. ASSUME NEW r \in Request, Postpone(r)
      PROVE  Inert'
  BY <1>3 DEF Postpone
<1>4. ASSUME NEW r \in Request, Decrement(r)
      PROVE  Inert'
  BY <1>4 DEF TypeOK, Decrement
<1>5. ASSUME NEW h \in Host, Expire(h)
      PROVE  Inert'
  BY <1>5 DEF Expire
<1>6. CASE ScanPostponed /\ UNCHANGED <<pc, host>>
  BY <1>6 DEF ScanPostponed
<1>7. CASE ModifyPostponed /\ UNCHANGED <<pc, host>>
  BY <1>7 DEF ModifyPostponed, Without
<1>8. CASE UNCHANGED vars
  BY <1>8 DEF vars
<1>. QED
  BY <1>1, <1>2, <1>3, <1>4, <1>5, <1>6, <1>7, <1>8 DEF Next

\* When the cooldown is off, nothing is ever postponed.
LEMMA CooldownIsInert == Spec => []CooldownInert
<1>1. Init => CooldownInert
  BY DEF Init, NewMemory, EmptyMap, CooldownInert
<1>. QED
  BY <1>1, CooldownStaysInert, TypeCorrect, PTL DEF Spec

\* A new queue counts nothing, and nothing is pending.
LEMMA InitExact == Init => CountExact
BY InitSizes DEF CountExact, Size

\* A step changes a size and the pending requests alike when the cooldown is off.
LEMMA ExactStep ==
  TypeOK /\ TypeOK' /\ CooldownInert /\ CountExact /\ [Next]_vars => CountExact'
<1>. SUFFICES ASSUME TypeOK, TypeOK', CooldownInert, CountExact, [Next]_vars,
                     ~ShouldPostpone, NEW g \in Host
              PROVE  Count(g)' = Size(g)'
  BY DEF CountExact, Size
<1>1. Count(g) = Size(g)
  BY DEF CountExact, Size
<1>2. Effect(g)
  BY StepEffect
<1>3. g \notin hostsToModify
  BY DEF CooldownInert
<1>. QED
  BY <1>1, <1>2, <1>3, Numbers DEF Effect, Kept, Joined, TookBack, LeftBehind, Cleared

\* In the default deployment the size of every host is exactly the number of its
\* pending requests, for any number of hosts and of concurrent requests.
THEOREM CountIsExact == Spec => []CountExact
BY InitExact, ExactStep, CooldownIsInert, TypeCorrect, PTL DEF Spec

-----------------------------------------------------------------------------
(***************************************************************************)
(* Without the cooldown the queue implements PendingRequests.              *)
(***************************************************************************)

pendingBar == [h \in Host |-> Counted(h)]

sizeBar == [h \in Host |-> Count(h)]

\* The instance's Cardinality is the Cardinality of FiniteSets.
LEMMA SameCardinality == \A S : Promise!Cardinality(S) = Cardinality(S)
BY DEF Cardinality, Promise!Cardinality, IsFiniteSet, Promise!IsFiniteSet

\* Exact counts are the sizes PendingRequests reports.
LEMMA ExactIsSizeOf ==
  ASSUME ~ShouldPostpone, CountExact, CountExact'
  PROVE  /\ sizeBar = Promise!SizeOf(pendingBar)
         /\ sizeBar' = Promise!SizeOf(pendingBar')
<1>1. sizeBar = Promise!SizeOf(pendingBar)
  BY SameCardinality DEF sizeBar, pendingBar, CountExact, Promise!SizeOf
<1>2. sizeBar' = Promise!SizeOf(pendingBar')
  BY SameCardinality DEF sizeBar, pendingBar, CountExact, Promise!SizeOf
<1>. QED
  BY <1>1, <1>2

\* A step maps to Begin, to End, or to a stuttering step.
LEMMA StepImplements ==
  ASSUME ~ShouldPostpone, TypeOK, CooldownInert, CountExact, CountExact', [Next]_vars
  PROVE  [Promise!Next]_<<pendingBar, sizeBar>>
<1>. DEFINE Stutter == \A g \in Host : Counted(g)' = Counted(g)
<1>0. ASSUME Stutter
      PROVE  UNCHANGED <<pendingBar, sizeBar>>
  <2>1. pendingBar' = pendingBar
    BY <1>0 DEF pendingBar
  <2>. QED
    BY <2>1, ExactIsSizeOf
<1>. USE DEF Goto
<1>1. ASSUME NEW r \in Request, NEW h \in Host, Arrive(r, h)
      PROVE  Promise!Begin(r, h)
  <2>1. \A g \in Host : r \notin pendingBar[g]
    BY <1>1 DEF Arrive, pendingBar, Counted
  <2>2. \A g \in Host : Counted(g)' = IF g = h THEN Counted(g) \cup {r} ELSE Counted(g)
    BY <1>1 DEF Arrive, TypeOK, Counted
  <2>3. pendingBar' = [pendingBar EXCEPT ![h] = pendingBar[h] \cup {r}]
    BY <2>2 DEF pendingBar
  <2>. QED
    BY <2>1, <2>3, ExactIsSizeOf DEF Promise!Begin, pendingBar, sizeBar
<1>2. ASSUME NEW r \in Request, Decrement(r)
      PROVE  host[r] \in Host /\ Promise!End(r, host[r])
  <2>0. host[r] \in Host
    BY DEF TypeOK
  <2>1. r \in pendingBar[host[r]]
    BY <1>2, <2>0 DEF Decrement, pendingBar, Counted
  <2>2. \A g \in Host :
          Counted(g)' = IF g = host[r] THEN Counted(g) \ {r} ELSE Counted(g)
    BY <1>2 DEF Decrement, TypeOK, Counted
  <2>3. pendingBar' = [pendingBar EXCEPT ![host[r]] = pendingBar[host[r]] \ {r}]
    BY <2>0, <2>2 DEF pendingBar
  <2>. QED
    BY <2>0, <2>1, <2>3, ExactIsSizeOf DEF Promise!End, pendingBar, sizeBar
<1>3. ASSUME NEW r \in Request, Reject(r) \/ Dismiss(r) \/ Return(r) \/ Decide(r)
      PROVE  Stutter
  BY <1>3 DEF TypeOK, Reject, Dismiss, Return, Decide, MustPostpone, Counted
<1>4. ASSUME NEW r \in Request, Postpone(r)
      PROVE  FALSE
  BY <1>4 DEF Postpone, CooldownInert
<1>5. ASSUME UNCHANGED <<pc, host>>
      PROVE  Stutter
  BY <1>5 DEF Counted
<1>6. CASE UNCHANGED vars
  BY <1>0, <1>5, <1>6 DEF vars
<1>7. CASE Next
  BY <1>0, <1>1, <1>2, <1>3, <1>4, <1>5, <1>7 DEF Next, Promise!Next
<1>. QED
  BY <1>6, <1>7

\* A new queue is an initial state of PendingRequests.
LEMMA InitImplements == Init => Promise!Init
<1>. SUFFICES ASSUME Init
              PROVE  Promise!Init
  OBVIOUS
<1>1. \A h \in Host : Counted(h) = {}
  BY DEF Init, Counted
<1>2. \A h \in Host : Count(h) = 0
  BY DEF Init, NewMemory, EmptyMap, Count
<1>. QED
  BY <1>1, <1>2, FS_EmptySet, SameCardinality DEF Promise!Init, Promise!SizeOf

\* In the default deployment the middleware and its queue implement
\* PendingRequests: every step is the beginning of a request, the end of one, or
\* invisible, and the reported sizes follow at once.
THEOREM QueueImplementsPromise ==
  ASSUME ~ShouldPostpone
  PROVE  Spec => ImplementsPendingRequests
<1>1. TypeOK /\ CooldownInert /\ CountExact /\ CountExact' /\ [Next]_vars
        => [Promise!Next]_<<pendingBar, sizeBar>>
  BY StepImplements
<1>. QED
  BY InitImplements, <1>1, TypeCorrect, CooldownIsInert, CountIsExact, PTL
  DEF Spec, ImplementsPendingRequests, Promise!Spec, pendingBar, sizeBar

-----------------------------------------------------------------------------
(***************************************************************************)
(* GET /queue beside the middleware (QueueCounts): the encoder reads the   *)
(* live map, and the process may die of the race and start anew.           *)
(***************************************************************************)

\* The queue's part of the invariant.
QueueInv == TypeOK /\ CooldownInert /\ CountExact

\* A new queue.
LEMMA InitQueueInv == Init => QueueInv
<1>1. Init => TypeOK
  BY DEF Init, NewMemory, EmptyMap, TypeOK, QueueTypeOK
<1>2. Init => CooldownInert
  BY DEF Init, NewMemory, EmptyMap, CooldownInert
<1>. QED BY <1>1, <1>2, InitExact DEF QueueInv

\* The process that starts anew is in an initial state, but for the hosts its
\* requests had.
LEMMA RaceQueueInv ==
  ASSUME QueueInv, MapRaceFatal
  PROVE  /\ QueueInv'
         /\ \A g \in Host : Counted(g)' = {} /\ Count(g)' = 0
<1>1. TypeOK'
  BY DEF QueueInv, MapRaceFatal, EmptyMap, TypeOK, QueueTypeOK
<1>2. CooldownInert'
  BY DEF MapRaceFatal, EmptyMap, CooldownInert
<1>3. ASSUME NEW g \in Host PROVE Counted(g)' = {} /\ Count(g)' = 0
  BY DEF MapRaceFatal, EmptyMap, Counted, Count
<1>4. CountExact'
  BY <1>3, FS_EmptySet DEF CountExact
<1>. QED BY <1>1, <1>2, <1>3, <1>4 DEF QueueInv

\* A request that is served has an entry of its host, and the entry is positive.
LEMMA ServedHasEntry ==
  ASSUME QueueInv, ~ShouldPostpone, NEW r \in Request, pc[r] = "serving"
  PROVE  host[r] \in Host /\ host[r] \in DOMAIN countMap /\ countMap[host[r]] > 0
<1>1. host[r] \in Host
  BY DEF QueueInv, TypeOK
<1>2. r \in Counted(host[r])
  BY DEF Counted
<1>3. Cardinality(Counted(host[r])) \in Nat \ {0}
  BY <1>1, <1>2, CountedFinite, FS_EmptySet
<1>4. Count(host[r]) > 0
  BY <1>1, <1>3 DEF QueueInv, CountExact
<1>. QED BY <1>1, <1>4 DEF Count

\* While the encoder runs, every request that has been served since it began has its
\* host among the keys the encoder will visit, and an entry that is copied is positive.
ReadInv ==
  /\ QueueInv
  /\ steady \subseteq {r \in Request : pc[r] = "serving"}
  /\ reader \in {"idle", "encoding", "sent", "failed"}
  /\ reader = "sent" => keys \subseteq DOMAIN encoded
  /\ ~ShouldPostpone /\ reader \in {"encoding", "sent"} =>
       \A r \in steady : /\ host[r] \in keys
                         /\ host[r] \in DOMAIN encoded => encoded[host[r]] > 0

\* A step of the middleware or of the enforcer only takes requests out of steady.
LEMMA QueueStepRead ==
  ASSUME ReadInv, QueueStep
  PROVE  ReadInv'
<1>1. QueueInv'
  <2>1. TypeOK /\ CooldownInert /\ CountExact /\ [Next]_vars
    BY DEF ReadInv, QueueInv, QueueStep
  <2>. QED BY <2>1, TypeOKStep, CooldownStaysInert, ExactStep DEF QueueInv
<1>2. ASSUME NEW r \in steady PROVE host'[r] = host[r]
  <2>1. r \in Request /\ pc[r] = "serving" /\ host \in [Request -> Host]
    BY DEF ReadInv, QueueInv, TypeOK
  <2>2. ASSUME NEW q \in Request, NEW h \in Host, Arrive(q, h) PROVE host'[r] = host[r]
    BY <2>1, <2>2 DEF Arrive, Goto
  <2>3. host' = host \/ \E q \in Request : \E h \in Host : Arrive(q, h)
    BY DEF QueueStep, Next, Reject, Dismiss, Return, Decide, Postpone, Decrement
  <2>. QED BY <2>2, <2>3
<1>3. steady' \subseteq steady /\ steady' \subseteq {r \in Request : pc'[r] = "serving"}
  BY DEF QueueStep, ReadInv
<1>. QED BY <1>1, <1>2, <1>3 DEF ReadInv, QueueStep, readerVars

\* The invariant is kept by every step of the reader, too.
LEMMA ReadStep == ReadInv /\ [NextRead]_allVars => ReadInv'
<1>. SUFFICES ASSUME ReadInv, [NextRead]_allVars PROVE ReadInv'
  OBVIOUS
<1>0. ASSUME UNCHANGED vars PROVE QueueInv' /\ pc' = pc /\ host' = host /\ countMap' = countMap
  <2>1. TypeOK'
    BY <1>0 DEF vars, ReadInv, QueueInv, TypeOK, QueueTypeOK
  <2>2. CooldownInert' /\ CountExact'
    BY <1>0 DEF vars, ReadInv, QueueInv, CooldownInert, CountExact, Count, Counted
  <2>. QED BY <1>0, <2>1, <2>2 DEF vars, QueueInv
<1>1. CASE QueueStep
  BY <1>1, QueueStepRead
<1>2. CASE Current
  <2>1. UNCHANGED vars
    BY <1>2 DEF Current
  <2>2. ~ShouldPostpone => \A r \in steady' : host'[r] \in keys'
    BY <1>0, <1>2, <2>1, ServedHasEntry DEF Current, ReadInv
  <2>. QED BY <1>0, <1>2, <2>1, <2>2 DEF Current, ReadInv, EmptyMap
<1>3. ASSUME NEW h \in Host, EncodeEntry(h) PROVE ReadInv'
  <2>1. UNCHANGED <<vars, keys, steady>>
    BY <1>3 DEF EncodeEntry
  <2>2. CASE reader' = "failed"
    BY <1>0, <2>1, <2>2 DEF ReadInv
  <2>3. CASE reader' = reader /\ encoded' = Store(encoded, h, countMap[h])
    <3>1. /\ h \in DOMAIN countMap /\ reader = "encoding"
          /\ DOMAIN encoded' = DOMAIN encoded \cup {h}
          /\ \A x \in DOMAIN encoded' : encoded'[x] = IF x = h THEN countMap[h] ELSE encoded[x]
      BY <1>3, <2>3 DEF EncodeEntry, Store
    <3>2. ASSUME ~ShouldPostpone, NEW r \in steady, host[r] = h PROVE countMap[h] > 0
      BY <3>2, ServedHasEntry DEF ReadInv
    <3>. QED BY <1>0, <2>1, <2>3, <3>1, <3>2 DEF ReadInv
  <2>. QED BY <1>3, <2>2, <2>3 DEF EncodeEntry
<1>4. CASE SendCounts
  BY <1>0, <1>4 DEF SendCounts, ReadInv
<1>5. CASE EndRead
  BY <1>0, <1>5 DEF EndRead, ReadInv
<1>6. CASE MapRaceFatal
  BY <1>6, RaceQueueInv DEF MapRaceFatal, ReadInv
<1>7. CASE UNCHANGED allVars
  BY <1>0, <1>7 DEF allVars, vars, ReadInv
<1>. QED BY <1>1, <1>2, <1>3, <1>4, <1>5, <1>6, <1>7 DEF NextRead

\* The invariant holds throughout.
LEMMA ReadInvHolds == SpecRead => []ReadInv
<1>1. InitRead => ReadInv
  BY InitQueueInv DEF InitRead, ReadInv
<1>. QED BY <1>1, ReadStep, PTL DEF SpecRead

\* In the default deployment an answer of newSizeHandler, though it is copied from a
\* map that is being written, never hides a host in use: a request that was served
\* during the whole encoding is in it with a positive count.
THEOREM SteadyRequestIsReported == SpecRead => []SteadyRequestReported
<1>1. ReadInv => SteadyRequestReported
  BY DEF ReadInv, SteadyRequestReported
<1>. QED BY <1>1, ReadInvHolds, PTL

\* The counts stay exact beside the readers, and across the restarts that the race
\* on the map can cause.
THEOREM CountIsExactBesideReaders == SpecRead => []CountExact
<1>1. ReadInv => CountExact
  BY DEF ReadInv, QueueInv
<1>. QED BY <1>1, ReadInvHolds, PTL

\* A step of the composed system maps to a step of PendingRequests: those of the
\* reader are invisible, and the restart after the race is its Crash.
LEMMA ReadStepImplements ==
  ASSUME ~ShouldPostpone, ReadInv, ReadInv', [NextRead]_allVars
  PROVE  [Promise!Next]_<<pendingBar, sizeBar>>
<1>1. TypeOK /\ CooldownInert /\ CountExact /\ CountExact'
  BY DEF ReadInv, QueueInv
<1>2. CASE [Next]_vars
  BY <1>1, <1>2, StepImplements
<1>3. CASE MapRaceFatal
  <2>1. pendingBar' = [h \in Host |-> {}]
    BY <1>3, RaceQueueInv DEF ReadInv, pendingBar
  <2>2. sizeBar' = Promise!SizeOf(pendingBar')
    BY <1>1, ExactIsSizeOf
  <2>3. Promise!Crash
    BY <2>1, <2>2 DEF Promise!Crash, pendingBar, sizeBar
  <2>. QED BY <2>3 DEF Promise!Next
<1>4. [Next]_vars \/ MapRaceFatal
  BY DEF NextRead, QueueStep, Current, EncodeEntry, SendCounts, EndRead, allVars, vars
<1>. QED BY <1>2, <1>3, <1>4

\* In the default deployment the middleware, its queue and the readers of GET /queue
\* together implement PendingRequests, restarts after the race included.
THEOREM ReadersImplementPromise ==
  ASSUME ~ShouldPostpone
  PROVE  SpecRead => ImplementsPendingRequests
<1>1. InitRead => Promise!Init
  BY InitImplements DEF InitRead
<1>2. ReadInv /\ ReadInv' /\ [NextRead]_allVars => [Promise!Next]_<<pendingBar, sizeBar>>
  BY ReadStepImplements
<1>. QED
  BY <1>1, <1>2, ReadInvHolds, PTL
  DEF SpecRead, ImplementsPendingRequests, Promise!Spec, pendingBar, sizeBar
=============================================================================
