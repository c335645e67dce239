------------------------- MODULE ProxyRequestProofs -------------------------
(***************************************************************************)
(* Proofs about ProxyRequest for any headers, names, tables and limits.    *)
(***************************************************************************)
EXTENDS ProxyRequest, TLAPS

Early == {"route", "wait", "dial", "backoff"}
Again == {"redial", "resend", "reread"}
Step  == Early \cup Again \cup {"done", "headers", "read", "retry", "copy"}

(***************************************************************************)
(* The response in hand is the last one, and what was slept is what the    *)
(* number of the attempt tells.                                            *)
(***************************************************************************)
RetryInv ==
  /\ pc \in Step
  /\ attempt \in 0..MaxRetries
  /\ got \in Nat /\ slept \in Nat
  /\ resp.n = got
  /\ pc \notin Again \cup {"retry", "copy"} => attempt = 0 /\ slept = 0
  /\ pc = "retry" => slept = attempt * (attempt + 1)
  /\ pc \in Again => attempt < MaxRetries /\ slept = (attempt + 1) * (attempt + 2)
  /\ pc = "copy" => slept <= MaxRetries * (MaxRetries + 1)
  /\ pc = "copy" /\ resp.kind = "upstream" => attempt = MaxRetries

(***************************************************************************)
(* A pair of consecutive numbers multiplied grows by twice the larger one, *)
(* and with its factors: the arithmetic of the sleeps of retryRequest.     *)
(***************************************************************************)
LEMMA SleepStep ==
  ASSUME NEW a \in Nat
  PROVE  a * (a + 1) + 2 * (a + 1) = (a + 1) * (a + 2)
BY SMT

LEMMA SleepMonotone ==
  ASSUME NEW a \in Nat, NEW b \in Nat, a <= b
  PROVE  a * (a + 1) <= b * (b + 1)
<1>1. PICK d \in Nat : b = a + d
  <2>1. b - a \in Nat
    BY SMT
  <2> QED
    BY <2>1, SMT
<1>2. b * (b + 1) = a * (a + 1) + d * (2 * a + d + 1)
  BY <1>1, SMT
<1>3. d * (2 * a + d + 1) \in Nat
  BY <1>1, SMT
<1> QED
  BY <1>2, <1>3, SMT

(***************************************************************************)
(* A handler that returns leaves the state a request starts from.          *)
(***************************************************************************)
LEMMA ReturnKeeps ==
  ASSUME NEW answer, Return(answer)
  PROVE  RetryInv'
BY RetriesAssumption DEF Return, RetryInv, Step, Early, Again, NoResp

LEMMA InitRetry == Init => RetryInv
BY RetriesAssumption DEF Init, RetryInv, Step, Early, Again, NoResp

(***************************************************************************)
(* No step of the handler or of its environment breaks RetryInv.           *)
(***************************************************************************)
LEMMA NextRetry == RetryInv /\ [Next]_vars => RetryInv'
<1> SUFFICES ASSUME RetryInv, [Next]_vars
             PROVE  RetryInv'
  OBVIOUS
<1> USE RetriesAssumption DEF RetryInv, Step, Early, Again
<1>1. CASE Arrive
  BY <1>1, ReturnKeeps DEF Arrive
<1>2. CASE Route
  <2>1. CASE \E answer : Return(answer)
    BY <2>1, ReturnKeeps
  <2> QED
    BY <1>2, <2>1 DEF Route, RouteTo
<1>3. CASE Wait
  BY <1>3, ReturnKeeps DEF Wait, route
<1>4. CASE Connect \/ DialFails
  BY <1>4 DEF Connect, DialFails, route
<1>5. CASE Backoff
  BY <1>5, ReturnKeeps DEF Backoff, route
<1>6. CASE RoundTripFails \/ Exit \/ Copy
  BY <1>6, ReturnKeeps DEF RoundTripFails, Exit, Copy
<1>7. CASE Respond
  BY <1>7 DEF Respond, TakeResponse, route, Kind
<1>8. CASE ReadBody
  BY <1>8, ReturnKeeps DEF ReadBody, route
<1>9. CASE Retry
  <2>1. attempt >= MaxRetries => attempt = MaxRetries
    BY SMT
  <2>2. attempt * (attempt + 1) + 2 * (attempt + 1) = (attempt + 1) * (attempt + 2)
    BY SleepStep
  <2>3. (attempt + 1) * (attempt + 2) \in Nat
    BY SMT
  <2> QED
    BY <1>9, <2>1, <2>2, <2>3 DEF Retry, route
<1>10. CASE Redial \/ Replay
  BY <1>10 DEF Redial, Replay, route
<1>11. CASE RetryFails
  <2>1. (attempt + 1) * (attempt + 2) = (attempt + 1) * ((attempt + 1) + 1)
    BY SMT
  <2> QED
    BY <1>11, <2>1 DEF RetryFails, route
<1>12. CASE RespondAgain
  <2>1. (attempt + 1) * ((attempt + 1) + 1) <= MaxRetries * (MaxRetries + 1)
    BY <1>12, SleepMonotone DEF RespondAgain
  <2> QED
    BY <1>12, <2>1 DEF RespondAgain, TakeResponse, route, Kind
<1>13. CASE RereadBody
  <2>1. (attempt + 1) * ((attempt + 1) + 1) <= MaxRetries * (MaxRetries + 1)
    BY <1>13, SleepMonotone DEF RereadBody
  <2> QED
    BY <1>13, <2>1, ReturnKeeps DEF RereadBody, route
<1>14. CASE ClientLeaves
  BY <1>14 DEF ClientLeaves, route
<1>15. CASE NameChanges \/ ReplaceTable
  BY <1>15 DEF NameChanges, ReplaceTable
<1>16. CASE UNCHANGED vars
  BY <1>16 DEF vars, route
<1> QED
  BY <1>1, <1>2, <1>3, <1>4, <1>5, <1>6, <1>7, <1>8, <1>9, <1>10, <1>11, <1>12,
     <1>13, <1>14, <1>15, <1>16 DEF Next, Handler

(***************************************************************************)
(* RetryInv gives the bounds and the answer that the runs check.           *)
(***************************************************************************)
LEMMA RetryInvSuffices == RetryInv => LatestAnswerSent /\ SleepBounded
<1> SUFFICES ASSUME RetryInv
             PROVE  LatestAnswerSent /\ SleepBounded
  OBVIOUS
<1> USE RetriesAssumption DEF RetryInv, Step, Early, Again
<1>1. LatestAnswerSent
  BY DEF LatestAnswerSent
<1>2. SleepBounded
  <2>1. attempt * (attempt + 1) <= MaxRetries * (MaxRetries + 1)
    BY SleepMonotone
  <2>2. attempt < MaxRetries =>
          (attempt + 1) * ((attempt + 1) + 1) <= MaxRetries * (MaxRetries + 1)
    BY SleepMonotone
  <2>3. 0 <= MaxRetries * (MaxRetries + 1)
    BY SMT
  <2> QED
    BY <2>1, <2>2, <2>3 DEF SleepBounded
<1> QED
  BY <1>1, <1>2

(***************************************************************************)
(* Whatever ServiceUnavailableRetry is, the client gets the last response  *)
(* that arrived, and the mesh's 503 only after the last attempt            *)
(* (forwardRequest, retryRequest).                                         *)
(***************************************************************************)
THEOREM LatestAnswer == Spec => []LatestAnswerSent
BY InitRetry, NextRetry, RetryInvSuffices, PTL DEF Spec

(***************************************************************************)
(* With n retries, the sleeps of one request add up to at most n(n+1) s.   *)
(***************************************************************************)
THEOREM SleepIsBounded == Spec => []SleepBounded
BY InitRetry, NextRetry, RetryInvSuffices, PTL DEF Spec

-----------------------------------------------------------------------------
(***************************************************************************)
(* While its caller's name stays, a request that is in the handler has the *)
(* key that getHost gives for it now.                                      *)
(***************************************************************************)
KeyInv ==
  /\ pc = "done" => host = NoHost /\ routed = NoHost
  /\ pc # "done" /\ steady => host = getHost(req, names)
  /\ routed # NoHost /\ steady => host = routed

LEMMA ReturnKeepsKey ==
  ASSUME NEW answer, Return(answer)
  PROVE  KeyInv'
BY DEF Return, KeyInv

\* Once it is routed, a request that stays in the handler keeps its key and its URL.
LEMMA HandlerKeepsRoute ==
  ASSUME Handler, ~Route, ~\E answer : Return(answer)
  PROVE  UNCHANGED route /\ pc # "done" /\ pc' # "done"
BY DEF Handler, Wait, Connect, DialFails, Backoff, RoundTripFails, Respond,
  TakeResponse, ReadBody, Retry, Redial, Replay, RetryFails, RespondAgain, RereadBody, Copy

\* The key depends on nothing but the request and the caller's name.
LEMMA SameKey ==
  ASSUME UNCHANGED <<req, names>>
  PROVE  getHost(req, names)' = getHost(req, names)
<1>1. removePort(req.host)' = removePort(req.host)
  BY Zenon
<1> QED
  BY <1>1, Zenon DEF getHost, extractPodInfo, extractServiceInfo, LookupAddr

LEMMA InitKey == Init => KeyInv
BY DEF Init, KeyInv

\* No step of the handler or of its environment breaks KeyInv.
LEMMA NextKey == KeyInv /\ [Next]_vars => KeyInv'
<1> SUFFICES ASSUME KeyInv, [Next]_vars
             PROVE  KeyInv'
  OBVIOUS
<1>1. CASE \E answer : Return(answer)
  BY <1>1, ReturnKeepsKey
<1>2. CASE Arrive /\ ~\E answer : Return(answer)
  BY <1>2 DEF Arrive, KeyInv
<1>3. CASE Route /\ ~\E answer : Return(answer)
  <2>1. RouteTo(getHost(req, names)) /\ pc = "route"
    BY <1>3 DEF Route
  <2>2. /\ pc' = "wait" /\ routed' = getHost(req, names)
        /\ UNCHANGED <<req, names, host, steady>>
    BY <1>3, <2>1 DEF RouteTo
  <2>3. getHost(req, names)' = getHost(req, names)
    BY <2>2, SameKey
  <2> QED
    BY <2>1, <2>2, <2>3 DEF KeyInv
<1>4. CASE NameChanges
  BY <1>4 DEF NameChanges, KeyInv
<1>5. CASE /\ UNCHANGED <<req, names, host, routed, steady>>
           /\ (pc' = "done") <=> (pc = "done")
  BY <1>5, SameKey DEF KeyInv
<1>6. CASE Handler /\ ~Route /\ ~\E answer : Return(answer)
  BY <1>5, <1>6, HandlerKeepsRoute DEF route
<1>7. CASE ClientLeaves \/ ReplaceTable
  BY <1>5, <1>7 DEF ClientLeaves, ReplaceTable, route
<1>8. CASE UNCHANGED vars
  BY <1>5, <1>8 DEF vars, route
<1> QED
  BY <1>1, <1>2, <1>3, <1>4, <1>6, <1>7, <1>8 DEF Next, Exit

(***************************************************************************)
(* Whatever names and headers there are, the host a request is routed by   *)
(* is the one it is counted under, unless the caller's name changed        *)
(* between the two calls of getHost.                                       *)
(***************************************************************************)
THEOREM CountedHostIsRouted == Spec => []CountedIsRouted
<1>1. KeyInv => CountedIsRouted
  BY DEF KeyInv, CountedIsRouted
<1> QED
  BY <1>1, InitKey, NextKey, PTL DEF Spec

-----------------------------------------------------------------------------
\* A request in the handler is counted.
CountedInv == pc # "done" => host # NoHost

\* Connections are new or reused.
ReusedOK == reused \in BOOLEAN

LEMMA InitReused == Init => ReusedOK
BY Zenon DEF Init, ReusedOK

LEMMA NextReused == ReusedOK /\ [Next]_vars => ReusedOK'
BY Zenon DEF ReusedOK, Next, vars, Arrive, Route, RouteTo, Return, Handler, Wait, Connect,
  DialFails, Backoff, RoundTripFails, Respond, TakeResponse, ReadBody, Retry, Redial,
  Replay, RetryFails, RespondAgain, RereadBody, Copy, ClientLeaves, NameChanges,
  ReplaceTable, Exit

LEMMA InitCounted == Init => CountedInv
BY DEF Init, CountedInv

\* No step of the handler or of its environment breaks CountedInv.
LEMMA NextCounted == CountedInv /\ [Next]_vars => CountedInv'
<1> SUFFICES ASSUME CountedInv, [Next]_vars
             PROVE  CountedInv'
  OBVIOUS
<1>1. CASE \E answer : Return(answer)
  BY <1>1 DEF Return, CountedInv
<1>2. CASE Arrive /\ ~\E answer : Return(answer)
  BY <1>2 DEF Arrive, CountedInv
<1>3. CASE UNCHANGED host /\ (pc' # "done" => pc # "done")
  BY <1>3 DEF CountedInv
<1>4. CASE Route /\ ~\E answer : Return(answer)
  BY <1>3, <1>4 DEF Route, RouteTo
<1>5. CASE Handler /\ ~Route /\ ~\E answer : Return(answer)
  BY <1>3, <1>5, HandlerKeepsRoute DEF route
<1>6. CASE ClientLeaves \/ NameChanges \/ ReplaceTable \/ UNCHANGED vars
  BY <1>3, <1>6 DEF ClientLeaves, NameChanges, ReplaceTable, vars, route
<1> QED
  BY <1>1, <1>2, <1>4, <1>5, <1>6 DEF Next, Exit

-----------------------------------------------------------------------------
(***************************************************************************)
(* The dials of a connection and the responses of a request are as many as *)
(* the step that the handler is at, and the attempt, allow.                *)
(***************************************************************************)
LimitInv ==
  /\ names \in Names /\ table \in Tables
  /\ tries \in 0..MaxTries
  /\ pc \in {"done", "route", "wait"} => tries = 0
  /\ pc = "dial" => tries < MaxTries
  /\ got \in Nat
  /\ pc \in {"done", "headers"} \cup Early => got = 0
  /\ pc = "read" => got = 1
  /\ pc \in {"retry", "redial", "resend"} => got <= attempt + 1
  /\ pc = "reread" => got <= attempt + 2
  /\ pc = "copy" => got <= MaxRetries + 1
  /\ resp \in [n : {got}, kind : Kind]
  /\ gone \in BOOLEAN /\ steady \in BOOLEAN
  /\ status \in {"none", "400", "404", "500", "502", "answer", "cut"}

\* A handler that returns leaves the counts at 0.
LEMMA ReturnKeepsLimits ==
  ASSUME LimitInv,
         NEW answer \in {"400", "404", "500", "502", "answer", "cut"}, Return(answer)
  PROVE  LimitInv'
<1>1. resp' \in [n : {got'}, kind : Kind]
  BY DEF Return, NoResp, Kind
<1>2. UNCHANGED <<names, table>> /\ gone' \in BOOLEAN /\ steady' \in BOOLEAN
  BY DEF Return
<1> QED
  BY <1>1, <1>2, TriesAssumption DEF Return, LimitInv, Early

LEMMA InitLimits == Init => LimitInv
<1> SUFFICES ASSUME Init PROVE LimitInv
  OBVIOUS
<1>1. resp \in [n : {got}, kind : Kind]
  BY DEF Init, NoResp, Kind
<1>2. gone \in BOOLEAN /\ steady \in BOOLEAN
  BY DEF Init
<1> QED
  BY <1>1, <1>2, TriesAssumption DEF Init, LimitInv, Early

\* No step of the handler or of its environment breaks LimitInv.
LEMMA NextLimits == RetryInv /\ LimitInv /\ [Next]_vars => LimitInv'
<1> SUFFICES ASSUME RetryInv, LimitInv, [Next]_vars
             PROVE  LimitInv'
  OBVIOUS
<1> USE RetriesAssumption, TriesAssumption DEF LimitInv, Early
<1>0. /\ attempt \in 0..MaxRetries
      /\ pc \in {"headers", "read"} => attempt = 0
      /\ pc \in {"redial", "resend", "reread"} => attempt < MaxRetries
  BY DEF RetryInv, Again
<1>1. CASE Arrive
  BY <1>1, ReturnKeepsLimits DEF Arrive
<1>2. CASE Route
  BY <1>2, ReturnKeepsLimits DEF Route, RouteTo
<1>3. CASE Wait
  BY <1>3, ReturnKeepsLimits DEF Wait, route
<1>4. CASE Connect \/ DialFails
  BY <1>4 DEF Connect, DialFails, route
<1>5. CASE Backoff
  BY <1>5, ReturnKeepsLimits DEF Backoff, route
<1>6. CASE RoundTripFails \/ Exit \/ Copy
  BY <1>6, ReturnKeepsLimits DEF RoundTripFails, Exit, Copy
<1>7. CASE Respond
  BY <1>0, <1>7 DEF Respond, TakeResponse, route
<1>8. CASE ReadBody
  BY <1>0, <1>8, ReturnKeepsLimits DEF ReadBody, route
<1>9. CASE Retry
  BY <1>0, <1>9 DEF Retry, route
<1>10. CASE Redial \/ Replay \/ RetryFails
  BY <1>0, <1>10 DEF Redial, Replay, RetryFails, route
<1>11. CASE RespondAgain
  BY <1>0, <1>11 DEF RespondAgain, TakeResponse, route
<1>12. CASE RereadBody
  BY <1>0, <1>12, ReturnKeepsLimits DEF RereadBody, route
<1>13. CASE ClientLeaves
  BY <1>13 DEF ClientLeaves, route
<1>14. CASE NameChanges \/ ReplaceTable
  <2>1. names' \in Names /\ table' \in Tables /\ steady' \in BOOLEAN
    BY <1>14 DEF NameChanges, ReplaceTable
  <2>2. UNCHANGED <<pc, tries, attempt, resp, status, gone, got>>
    BY <1>14 DEF NameChanges, ReplaceTable
  <2> QED
    BY <2>1, <2>2
<1>15. CASE UNCHANGED vars
  BY <1>15 DEF vars, route
<1> QED
  BY <1>1, <1>2, <1>3, <1>4, <1>5, <1>6, <1>7, <1>8, <1>9, <1>10, <1>11, <1>12,
     <1>13, <1>14, <1>15 DEF Next, Handler

(***************************************************************************)
(* Whatever the limits are, the dials of a connection and the retries of a *)
(* request keep to them, and the request is counted exactly while it is in *)
(* the handler (RetryDialContext, retryRequest, countMiddleware).          *)
(***************************************************************************)
THEOREM LimitsAreKept == Spec => []TypeOK
<1>1. RetryInv /\ KeyInv /\ CountedInv /\ ReusedOK /\ LimitInv => TypeOK
  <2> SUFFICES ASSUME RetryInv, KeyInv, CountedInv, ReusedOK, LimitInv
               PROVE  TypeOK
    OBVIOUS
  <2>1. pc \in Step /\ attempt \in 0..MaxRetries /\ slept \in Nat
    BY RetriesAssumption DEF RetryInv, Step, Early, Again
  <2>2. (host = NoHost <=> pc = "done") /\ (routed = NoHost \/ host # NoHost)
    BY DEF KeyInv, CountedInv
  <2>3. got \in 0..(MaxRetries + 1)
    BY <2>1, RetriesAssumption DEF LimitInv, RetryInv, Step, Early, Again
  <2>4. resp \in [n : 0..got, kind : Kind]
    BY <2>3 DEF LimitInv
  <2> QED
    BY <2>1, <2>2, <2>3, <2>4 DEF ReusedOK, LimitInv, TypeOK, Step, Early, Again
<1> QED
  BY <1>1, InitRetry, NextRetry, InitKey, NextKey, InitCounted, NextCounted,
     InitReused, NextReused, InitLimits, NextLimits, PTL DEF Spec
=============================================================================
