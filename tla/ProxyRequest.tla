---------------------------- MODULE ProxyRequest ----------------------------
(***************************************************************************)
(* One request on its way through the interceptor: counted under a host,   *)
(* routed, held back until its deployment is ready (ForwardWait has the    *)
(* details), sent to the service with retries of the dial, and sent again  *)
(* while the service mesh answers that it has no upstream.  Beside it, the *)
(* caller may go away, its DNS name and the routing table may change, and  *)
(* the process may end.  Requests share only the queue (CountMiddleware)   *)
(* and the cache (ForwardWait), so one request at a time is enough here.   *)
(***************************************************************************)
EXTENDS HostRouting

CONSTANTS
  Names,         \* reverse DNS names that the caller's address may have
  Headers,       \* Host headers that callers write
  Targets,       \* targets of the routing table
  MaxTries,      \* backoff.Steps: dials per connection
  MaxRetries     \* ServiceUnavailableRetry

ASSUME TriesAssumption   == MaxTries \in Nat \ {0}
ASSUME RetriesAssumption == MaxRetries \in Nat

VARIABLES
  pc,       \* what the handler does
  req,      \* the request: remote address, Host header
  names,    \* the name that a lookup of the caller's address gives now
  table,    \* the routing table: key -> target
  host,     \* the key that the middleware counted, NoHost if not counted
  routed,   \* the key that the handler looked up, NoHost before
  url,      \* where it is sent
  tries,    \* dials of this connection that failed
  reused,   \* the connection in use was idle before
  attempt,  \* the argument of retryRequest
  resp,     \* the response in hand: [n |-> number, kind |-> ...]
  status,   \* what the client was sent in the end
  gone,     \* the request's context is done: its client went away
  steady,   \* history: names has not changed since the request arrived
  got,      \* history: responses whose headers arrived
  slept     \* history: seconds spent in the sleeps of retryRequest

\* what changes only until the request is sent, and what a round trip changes
route == <<req, names, table, host, routed, url, steady>>
vars == <<route, pc, tries, reused, attempt, resp, status, gone, got, slept>>

Kind == {"final", "503", "upstream"}   \* "upstream": 503 and the mesh's message
NoResp == [n |-> 0, kind |-> "final"]
NoURL == [service |-> "", namespace |-> "", port |-> << >>]
NoReq == [addr |-> "", host |-> << >>]

Tables == UNION {[S -> Targets] :
                 S \in SUBSET {<<t.service, t.namespace>> : t \in Targets}}

Requests == [addr : {"", "v4", "v6"}, host : {<< >>} \cup Headers]

Init ==
  /\ pc = "done" /\ status = "none"
  /\ req = NoReq
  /\ names \in Names /\ table \in Tables
  /\ host = NoHost /\ routed = NoHost /\ url = NoURL
  /\ tries = 0 /\ reused = FALSE /\ attempt = 0 /\ resp = NoResp
  /\ gone = FALSE /\ steady = TRUE
  /\ got = 0 /\ slept = 0

(***************************************************************************)
(* The handler returns: the client has its answer (or is cut off) and the  *)
(* deferred function of the middleware takes the request out of the count. *)
(***************************************************************************)
Return(answer) ==
  /\ pc' = "done" /\ status' = answer
  /\ host' = NoHost /\ routed' = NoHost /\ url' = NoURL
  /\ tries' = 0 /\ reused' = FALSE /\ attempt' = 0 /\ resp' = NoResp
  /\ req' = NoReq
  /\ gone' = FALSE /\ steady' = TRUE
  /\ got' = 0 /\ slept' = 0
  /\ UNCHANGED <<names, table>>

\* A request arrives; the middleware derives its key and counts it.
Arrive ==
  /\ pc = "done"
  /\ \E r \in Requests :
       \/ /\ getHost(r, names) = NoHost
          /\ Return("400")
       \/ /\ getHost(r, names) # NoHost
          /\ host' = getHost(r, names)
          /\ req' = r
          /\ pc' = "route" /\ status' = "none"
          /\ UNCHANGED <<names, table, routed, url, steady,
                         tries, reused, attempt, resp, gone, got, slept>>

\* The forwarding handler looks up a key in the routing table.
RouteTo(key) ==
  \/ key = NoHost /\ Return("400")
  \/ key # NoHost /\ Lookup(table, key) = {} /\ Return("404")
  \/ \E target \in Lookup(table, key) :
       /\ key # NoHost
       /\ routed' = key /\ url' = TargetURL(target, req.host)
       /\ pc' = "wait"
       /\ UNCHANGED <<req, names, table, host, steady,
                      tries, reused, attempt, resp, status, gone, got, slept>>

\* Mutant of Route: the Host header is looked up as it is.
RouteByHeader ==
  /\ pc = "route"
  /\ RouteTo(extractServiceInfo(req.host))

\* It derives the key again, by another lookup of the caller's name.
Route ==
  /\ pc = "route"
  /\ RouteTo(getHost(req, names))

\* waitFunc returns within waitTimeout: an error, or the deployment is ready
\* and the URL is one that can be parsed (else 500).
Wait ==
  /\ pc = "wait"
  /\ \/ Return("502")
     \/ Return("500")
     \/ /\ pc' = "dial"
        /\ UNCHANGED <<route, tries, reused, attempt, resp, status, gone, got, slept>>

(***************************************************************************)
(* The first round trip, through the handler's own transport: it takes an  *)
(* idle connection or dials, and dials again after a pause that ends early *)
(* when the context is done.  An error of the round trip goes to the       *)
(* ErrorHandler: 502.                                                      *)
(***************************************************************************)
Connect ==
  /\ pc = "dial"
  /\ pc' = "headers" /\ reused' \in BOOLEAN
  /\ UNCHANGED <<route, tries, attempt, resp, status, gone, got, slept>>

\* Mutant of DialFails: the tries are not counted.
DialFailsUncounted ==
  /\ pc = "dial"
  /\ pc' = "backoff"
  /\ UNCHANGED <<route, tries, reused, attempt, resp, status, gone, got, slept>>

DialFails ==
  /\ pc = "dial"
  /\ pc' = "backoff" /\ tries' = tries + 1
  /\ UNCHANGED <<route, reused, attempt, resp, status, gone, got, slept>>

\* Mutant of Backoff: only the context ends the tries.
BackoffUnbounded ==
  /\ pc = "backoff"
  /\ \/ gone /\ Return("502")
     \/ /\ pc' = "dial"
        /\ UNCHANGED <<route, tries, reused, attempt, resp, status, gone, got, slept>>

Backoff ==
  /\ pc = "backoff"
  /\ \/ gone /\ Return("502")
     \/ tries = MaxTries /\ Return("502")
     \/ /\ tries < MaxTries
        /\ pc' = "dial"
        /\ UNCHANGED <<route, tries, reused, attempt, resp, status, gone, got, slept>>

\* The connection breaks, ResponseHeaderTimeout passes, or the client went.
RoundTripFails ==
  /\ pc = "headers"
  /\ Return("502")

\* A response arrives; the body of a 503 is read to see what it is.
TakeResponse(reading) ==
  \E kind \in Kind :
    /\ resp' = [n |-> got + 1, kind |-> kind]
    /\ got' = got + 1
    /\ pc' = IF kind = "final" THEN "copy" ELSE reading
    /\ UNCHANGED <<route, tries, reused, attempt, status, gone, slept>>

Respond ==
  /\ pc = "headers"
  /\ TakeResponse("read")

\* ModifyResponse: an error while the 503 is read is a 502; only the mesh's
\* own 503 is retried.
ReadBody ==
  /\ pc = "read"
  /\ \/ Return("502")
     \/ /\ pc' = IF resp.kind = "upstream" THEN "retry" ELSE "copy"
        /\ UNCHANGED <<route, tries, reused, attempt, resp, status, gone, got, slept>>

\* Mutant of Retry: one attempt too many.
RetryOnceMore ==
  /\ pc = "retry"
  /\ \/ /\ attempt > MaxRetries
        /\ pc' = "copy" /\ UNCHANGED slept
     \/ /\ attempt <= MaxRetries
        /\ pc' = "redial" /\ slept' = slept + 2 * (attempt + 1)
  /\ UNCHANGED <<route, tries, reused, attempt, resp, status, gone, got>>

(***************************************************************************)
(* retryRequest.  Out of attempts it returns the response it was given.    *)
(* Else it sleeps, whatever the context says, and makes another round trip *)
(* with http.DefaultTransport: no retries of the dial, and no limit on the *)
(* wait for the headers.                                                   *)
(***************************************************************************)
Retry ==
  /\ pc = "retry"
  /\ \/ /\ attempt >= MaxRetries
        /\ pc' = "copy" /\ UNCHANGED slept
     \/ /\ attempt < MaxRetries
        /\ pc' = "redial" /\ slept' = slept + 2 * (attempt + 1)
  /\ UNCHANGED <<route, tries, reused, attempt, resp, status, gone, got>>

\* The body of the request was read, and closed, by the first round trip:
\* the new one may be answered all the same, or fail for it.
Redial ==
  /\ pc = "redial" /\ ~gone
  /\ pc' = "resend" /\ reused' \in BOOLEAN
  /\ UNCHANGED <<route, tries, attempt, resp, status, gone, got, slept>>

\* A connection that was idle before turns out to be broken: either transport
\* begins the round trip again by itself, unless the context is done.
Replay ==
  /\ pc \in {"headers", "resend"} /\ reused /\ ~gone
  /\ pc' = IF pc = "headers" THEN "dial" ELSE "redial"
  /\ tries' = 0 /\ reused' = FALSE
  /\ UNCHANGED <<route, attempt, resp, status, gone, got, slept>>

\* An error of the round trip counts as an attempt.
RetryFails ==
  /\ pc \in {"redial", "resend"}
  /\ pc' = "retry" /\ attempt' = attempt + 1
  /\ UNCHANGED <<route, tries, reused, resp, status, gone, got, slept>>

RespondAgain ==
  /\ pc = "resend"
  /\ TakeResponse("reread")

\* Mutant of RereadBody: whatever 503 comes second is the answer.
RereadBodyGivesUp ==
  /\ pc = "reread"
  /\ \/ Return("502")
     \/ /\ pc' = "copy"
        /\ UNCHANGED <<route, tries, reused, attempt, resp, status, gone, got, slept>>

RereadBody ==
  /\ pc = "reread"
  /\ \/ Return("502")
     \/ /\ resp.kind = "upstream"
        /\ pc' = "retry" /\ attempt' = attempt + 1
        /\ UNCHANGED <<route, tries, reused, resp, status, gone, got, slept>>
     \/ /\ resp.kind = "503"
        /\ pc' = "copy"
        /\ UNCHANGED <<route, tries, reused, attempt, resp, status, gone, got, slept>>

\* The response is copied to the client, or the copy breaks off.
Copy ==
  /\ pc = "copy"
  /\ Return("answer") \/ Return("cut")

-----------------------------------------------------------------------------
(***************************************************************************)
(* The environment.                                                        *)
(***************************************************************************)
ClientLeaves ==
  /\ pc # "done" /\ ~gone
  /\ gone' = TRUE
  /\ UNCHANGED <<route, pc, tries, reused, attempt, resp, status, got, slept>>

\* The address of a pod that ended is given to another one.
NameChanges ==
  /\ names' \in Names \ {names}
  /\ steady' = (pc = "done")
  /\ UNCHANGED <<req, table, host, routed, url, pc, tries, reused, attempt,
                 resp, status, gone, got, slept>>

ReplaceTable ==
  /\ table' \in Tables \ {table}
  /\ UNCHANGED <<req, names, host, routed, url, steady, pc, tries, reused, attempt,
                 resp, status, gone, got, slept>>

\* A member of main's group failed: ServeContext shuts the server down with
\* a context that is done, so nobody waits for the handler, and main exits.
Exit ==
  /\ pc # "done"
  /\ Return("cut")

Handler ==
  \/ Route \/ Wait
  \/ Connect \/ DialFails \/ Backoff \/ RoundTripFails \/ Respond \/ ReadBody
  \/ Retry \/ Redial \/ Replay \/ RetryFails \/ RespondAgain \/ RereadBody
  \/ Copy

Next == Arrive \/ Handler \/ ClientLeaves \/ NameChanges \/ ReplaceTable \/ Exit

Spec == Init /\ [][Next]_vars

(***************************************************************************)
(* Fairness.  The handler goes on by itself, and waits at most for a time  *)
(* limit, except where it waits for the application: for the headers of a  *)
(* retry and for a body.  Such a wait ends only with the request's         *)
(* context.                                                                *)
(***************************************************************************)
Untimed == {"resend", "read", "reread", "copy"}

FairSpec ==
  /\ Spec
  /\ WF_vars(Handler /\ (pc \notin Untimed \/ gone))

-----------------------------------------------------------------------------
\* Types of the request's state; it is counted exactly while it is in the handler
\* (countMiddleware), and the dials and retries keep to their limits.
TypeOK ==
  /\ pc \in {"done", "route", "wait", "dial", "backoff", "headers", "read",
             "retry", "redial", "resend", "reread", "copy"}
  /\ names \in Names /\ table \in Tables
  /\ routed = NoHost \/ host # NoHost
  /\ (host = NoHost) <=> (pc = "done")
  /\ tries \in 0..MaxTries /\ attempt \in 0..MaxRetries
  /\ got \in 0..(MaxRetries + 1) /\ reused \in BOOLEAN
  /\ resp \in [n : 0..got, kind : Kind]
  /\ slept \in Nat
  /\ gone \in BOOLEAN /\ steady \in BOOLEAN
  /\ status \in {"none", "400", "404", "500", "502", "answer", "cut"}

(***************************************************************************)
(* A request waits for, and is sent to, the host it is counted under, as   *)
(* long as the caller's DNS name does not change between the lookup of the *)
(* middleware and the one of the forwarding handler.                       *)
(***************************************************************************)
CountedIsRouted ==
  routed # NoHost /\ steady => host = routed

(***************************************************************************)
(* What the client gets is the last response that arrived, also when later *)
(* retries fail, and the mesh's 503 only when every attempt was used       *)
(* (retryRequest).                                                         *)
(***************************************************************************)
LatestAnswerSent ==
  pc = "copy" =>
    /\ resp.n = got
    /\ resp.kind = "upstream" => attempt = MaxRetries

(***************************************************************************)
(* The sleeps of the retries, which a client that went away does not end,  *)
(* keep a request in the count for at most this many seconds.              *)
(***************************************************************************)
SleepBounded == slept <= MaxRetries * (MaxRetries + 1)

(***************************************************************************)
(* A request whose client went away leaves the handler, and the count, in  *)
(* the end, although the sleeps ignore the context.                        *)
(***************************************************************************)
AbandonedRequestEnds == gone ~> pc = "done"
=============================================================================
