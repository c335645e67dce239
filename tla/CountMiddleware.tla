--------------------------- MODULE CountMiddleware ---------------------------
(***************************************************************************)
(* countMiddleware (interceptor/middleware.go) around the forwarding       *)
(* handler: each request is counted before it is served and taken back     *)
(* when it has been, by concurrent goroutines that share one queue.Memory. *)
(*                                                                         *)
(* A request is a goroutine of net/http.  It is                            *)
(*   idle        not here (the client may send it)                         *)
(*   rejected    refused because getHost failed; the 400 is on its way     *)
(*   serving     counted, inside next.ServeHTTP                            *)
(*   returned    next.ServeHTTP returned or panicked; the deferred         *)
(*               function is about to decide                               *)
(*   postponing  it saw Count(host) == 1 and will call PostponeResize      *)
(*   resizing    it will call Resize(host, -1)                             *)
(* The decision and the call it leads to are separate critical sections of *)
(* the queue's lock, so other goroutines run between them.                 *)
(***************************************************************************)
EXTENDS RequestQueue, FiniteSets

CONSTANT Request   \* the requests that can be open at one time

ASSUME RequestAssumption == IsFiniteSet(Request)

VARIABLES pc, host

vars == <<countMap, postponedResizes, enforcer, hostsToModify, pc, host>>

Goto(r, from, to) ==
  /\ pc[r] = from
  /\ pc' = [pc EXCEPT ![r] = to]

Init ==
  /\ NewMemory
  /\ pc = [r \in Request |-> "idle"]
  /\ host \in [Request -> Host]

\* Mutant of Reject: the request is counted before its host is known to be good.
CountedReject(r) ==
  /\ Goto(r, "idle", "rejected")
  /\ Resize(host[r], 1)
  /\ UNCHANGED <<postponedResizes, enforcer, hostsToModify, host>>

\* Mutant of Reject: the error of getHost is only logged, and the request goes on
\* with the empty host.
RejectIgnored(r) ==
  /\ Goto(r, "idle", "serving")
  /\ host' = [host EXCEPT ![r] = ""]
  /\ Resize("", 1)
  /\ UNCHANGED <<postponedResizes, enforcer, hostsToModify>>

\* getHost fails: 400, and the queue is not touched.
Reject(r) ==
  /\ Goto(r, "idle", "rejected")
  /\ UNCHANGED <<queueVars, host>>

\* The client has its 400.
Dismiss(r) ==
  /\ Goto(r, "rejected", "idle")
  /\ UNCHANGED <<queueVars, host>>

\* getHost gives h; the request is counted and handed to the next handler.
Arrive(r, h) ==
  /\ Goto(r, "idle", "serving")
  /\ host' = [host EXCEPT ![r] = h]
  /\ Resize(h, 1)
  /\ UNCHANGED <<postponedResizes, enforcer, hostsToModify>>

\* next.ServeHTTP is over, however it ended: the deferred function runs.
Return(r) ==
  /\ Goto(r, "serving", "returned")
  /\ UNCHANGED <<queueVars, host>>

\* Mutant of MustPostpone: any pending request keeps its count.
MustPostponeAny(h) == ShouldPostpone /\ Count(h) >= 1

MustPostpone(h) == ShouldPostpone /\ Count(h) = 1

\* The condition of the deferred function.
Decide(r) ==
  /\ Goto(r, "returned", IF MustPostpone(host[r]) THEN "postponing" ELSE "resizing")
  /\ UNCHANGED <<queueVars, host>>

Postpone(r) ==
  /\ Goto(r, "postponing", "idle")
  /\ PostponeResize(host[r])
  /\ UNCHANGED <<countMap, enforcer, hostsToModify, host>>

Decrement(r) ==
  /\ Goto(r, "resizing", "idle")
  /\ Resize(host[r], -1)
  /\ UNCHANGED <<postponedResizes, enforcer, hostsToModify, host>>

Deferred(r) == Decide(r) \/ Postpone(r) \/ Decrement(r)

Next ==
  \/ \E r \in Request :
       \/ Reject(r)
       \/ Dismiss(r)
       \/ \E h \in Host : Arrive(r, h)
       \/ Return(r)
       \/ Decide(r)
       \/ Postpone(r)
       \/ Decrement(r)
  \/ \E h \in Host : Expire(h) /\ UNCHANGED <<pc, host>>
  \/ ScanPostponed /\ UNCHANGED <<pc, host>>
  \/ ModifyPostponed /\ UNCHANGED <<pc, host>>

Spec == Init /\ [][Next]_vars

(***************************************************************************)
(* The Go scheduler runs every goroutine that can run: the deferred        *)
(* functions and the enforcer, whose sleep ends.  Time passes.  Nothing is *)
(* assumed about clients (they may never send) or about the served         *)
(* application (it may never answer).                                      *)
(***************************************************************************)
Fairness ==
  /\ \A r \in Request : WF_vars(Deferred(r))
  /\ \A h \in Host : WF_vars(Expire(h) /\ UNCHANGED <<pc, host>>)
  /\ WF_vars(ProcessPostponedResizes /\ UNCHANGED <<pc, host>>)

FairSpec == Spec /\ Fairness

-----------------------------------------------------------------------------
(***************************************************************************)
(* Properties.                                                             *)
(***************************************************************************)

\* The requests that still have to take their 1 back from h's count.
Counted(h) == {r \in Request :
                 host[r] = h /\ pc[r] \in {"serving", "returned", "resizing"}}

\* The requests that will leave their 1 in h's count for the enforcer.
Leaving(h) == {r \in Request : host[r] = h /\ pc[r] = "postponing"}

\* Types of the queue's maps and of the request goroutines: in particular the
\* maps never get a key that is not a request's host.
TypeOK ==
  /\ QueueTypeOK
  /\ pc \in [Request -> {"idle", "rejected", "serving", "returned",
                         "postponing", "resizing"}]
  /\ host \in [Request -> Host]

\* Without the cooldown (the default) countMiddleware's +1 and -1 make the size
\* of every host exactly the number of its pending requests, in every
\* interleaving, with rejected requests never counted.
CountExact ==
  ~ShouldPostpone => \A h \in Host : Count(h) = Cardinality(Counted(h))

\* With or without the cooldown, whatever the order of the separate critical
\* sections of the deferred function and of ProcessPostponedResizes, a host's
\* size is at most one more than its pending requests, and too small by at most
\* the number of requests that can be open: errors do not add up over time.
ErrorBounded ==
  \A h \in Host :
    /\ Count(h) <= Cardinality(Counted(h)) + 1
    /\ Count(h) >= Cardinality(Counted(h)) - Cardinality(Request)

\* A size that is too large is never forgotten: as long as a host's size exceeds
\* its pending requests, a deadline is stored for it or is about to be, so that
\* ProcessPostponedResizes can still bring it down.
SurplusHasDeadline ==
  \A h \in Host :
    Count(h) > Cardinality(Counted(h)) =>
      h \in DOMAIN postponedResizes \/ Leaving(h) # {}

\* Once no request of a host is served any more, the cooldown ends: the deferred
\* functions and ProcessPostponedResizes bring its size down to zero (or below)
\* for good, so that the application can be scaled to zero.
IdleHostDrains ==
  \A h \in Host :
    <>[](\A r \in Request : host[r] = h => pc[r] # "serving")
      => <>[](Count(h) <= 0)

\* A request that is being served shows in its host's size: what
\* docs/ref/v0.3.0/http_scaled_object.md promises of scaling to zero ("it will
\* never scale your app to zero replicas unless there are no requests
\* in-progress") rests on it.
ServedIsReported ==
  \A r \in Request : pc[r] = "serving" => Count(host[r]) > 0

\* Without the cooldown the queue implements PendingRequests: the sizes it holds
\* are those of the set of pending requests, step for step.
Promise == INSTANCE PendingRequests WITH
             pending <- [h \in Host |-> Counted(h)],
             size <- [h \in Host |-> Count(h)]

ImplementsPendingRequests == Promise!Spec
=============================================================================
