# A TLA+ model of the KEDA HTTP add-on

Modules that model the concurrent and distributed parts of the add-on, TLC runs that
check them on small instances, and TLAPS proofs of the main invariants for every
instance. `PROJECT.json` lists components, runs, the source lines of each definition,
the mutated definitions each property is tried against, hazards, findings and theorems.

    tlc -workers 2 -config QueueCooldown.cfg CountMiddleware
    tlapm CountMiddlewareProofs.tla

## The system

| part | what it does | module |
|---|---|---|
| interceptor: `countMiddleware`, `queue.Memory` | counts pending requests per host; optionally keeps the last one counted for a cooldown | `RequestQueue`, `CountMiddleware`, `PendingRequests` |
| interceptor: `GET /queue` | sends the counts to the scaler | `QueueCounts` |
| interceptor: forwarding handler, deployment cache | finds the route, waits for a ready replica, forwards | `ForwardWait` |
| interceptor: routing table | follows the ConfigMap, by events and by pings | `RoutingSync` |
| interceptor: `getHost`, `Lookup`, service URL | the key a request is counted and routed under, and where it goes | `HostRouting` |
| interceptor: one request, `forwardRequest`, dialling | counting, routing, reverse proxy with retries | `ProxyRequest` |
| scaler: `queuePinger` | adds up the counts of all interceptors | `QueuePinger`, `SavedCounts` |
| scaler: gRPC, admin server, process | answers KEDA from the counts and the routing table | `Scaler` |
| operator: reconciler | makes ScaledObjects and routes from HTTPScaledObjects | `Operator` |

The operator writes the routing table into a ConfigMap; interceptors and scaler read it.
A request is counted under its host, waits until its deployment has a replica, and is
forwarded. The scaler asks every interceptor for its counts and reports the sums to
KEDA, which scales the deployment.

## The modules

**RequestQueue / CountMiddleware.** `countMap` and `postponedResizes` are the maps of
`queue.Memory`; an entry of the latter is `"running"` or `"expired"` (`Expire`
is the passing of its deadline). Every critical section of the queue's lock is one
action. A request is a goroutine with a `pc`; its deferred function decides (`Decide`) and then postpones or
decrements, in separate critical sections, as in the code. `ProcessPostponedResizes` is
two actions, because the code unlocks between scanning and modifying. `PendingRequests`
is the promise: the size of a host is the number of its pending requests, until the
process ends.

**QueueCounts** adds a reader: `Current` returns the live map, which is encoded entry by
entry while others write it. A write that overlaps the iteration may also end the
process (`MapRaceFatal`), as the Go runtime can.

**ForwardWait** follows a change of a deployment from the API server through the
informer's store, its handlers, the `watch.Broadcaster` and the filter goroutine to the
`select` of the wait function. client-go and the broadcaster are external; they are
modelled as the code uses them: no buffer, `WaitIfChannelFull`, and `Watch` and `Stop`
that go through the broadcaster's own queue and block their callers.

**HostRouting / ProxyRequest.** `HostRouting` has the names as operators: a dotted name
is the sequence of its labels, and a port follows them after a `":"`. `ProxyRequest`
takes one request through `countMiddleware`, the forwarding handler, the reverse proxy
and `retryRequest`, from arrival to the deferred function, beside a caller that goes
away, a DNS name and a routing table that change, and a process that ends. A round trip
takes a new connection or an idle one (`reused`); if an idle one turns out to be broken,
either transport of net/http begins the round trip again (`Replay`). Whether a request
has a body, and so may be replayed, is left out: both outcomes are always possible.
Responses are numbered; what their bodies say is one of three kinds. `slept`, `got` and
`steady` are history.

**Operator** is one serial reconciler beside users who create, edit and delete
HTTPScaledObjects. Each call to the API server is a step that may fail; for a write,
failing may mean that it was applied and the answer lost. Create, Get and Patch of a
ScaledObject are three such steps, and KEDA can let a ScaledObject go between them. The process ends anywhere
(`Stop`); while it is down users go on; `Start` needs the ConfigMap, empties the routing
table in memory and queues every object. A reconcile reads an object as it is when it
is taken from the queue (the manager's cache is up to date then) and works on that copy
while users go on; an Update of a copy that is no longer current is refused. A deleted
ScaledObject is `dying` until KEDA removes its finalizer; a patch of it succeeds and is
lost. `by`, the object that put a route in the table, is a ghost field that no action
reads.

**QueuePinger** has, per interceptor, the worker and the forwarder goroutine of
`fetchCounts`, the goroutine that closes the channel, and the caller that waits and
ranges. A hand-over on a channel without buffer is one joint step. `SavedCounts` is its
promise to readers: counts and aggregate change together, under the lock, to the sums of
one fetch or not at all.

**Scaler** runs on that promise, not on the goroutines: the RPCs, the stream and the
admin handlers as a program counter per call, with one step for each time the code takes
`pingMut` or the table's lock; the fetches of constructor, loop, callback and
`/queue_ping`; and the errgroup, whose members end the process. `lo` and `hi` are
history: the least and the most the saved counts said of a call's hosts while it ran.
The two servers and the deployment informer are one member, `"servers"`: each of them
returns when the context is done, and none waits for another. Once the context is done
the admin server takes no more requests, but a gRPC connection goes on until the process
ends. The updater is a member of its own, whose return is not assumed: `RoutingSync` says
when it returns.

**RoutingSync** has the updater, concurrent pings that read the ConfigMap in one step
and replace the table in another, resyncs, damaged ConfigMaps and restarts. The updater's
two goroutines are the informer, with the handlers that give events to the broadcaster,
and the loop that applies them (`loop`); `UpdaterReturns` is its `grp.Wait`. A table is
the number of the ConfigMap version it was decoded from. The program never deletes the
ConfigMap, so no deletion is modelled.

## Runs that pass

| run | checks | bounds |
|---|---|---|
| `queue_default` | `CountExact`, refinement of `PendingRequests`, `SteadyRequestReported` | 3 requests, each again and again, 2 hosts, so that the entries of an answer can differ in age |
| `queue_cooldown` | `ErrorBounded`, `SurplusHasDeadline`, `IdleHostDrains` | 2 requests, 2 hosts: a request can come again, so both can overlap the cooldown an earlier one started |
| `forward_wait` | `WakeupOnItsWay`, `EveryWaitEnds` | 2 requests that share the broadcaster, 2 deployments scaled to zero or absent, 2 updates: ready and unready again, and events a filter drops |
| `operator` | `DeletedLeavesNothing`, `ConvergesAfterKeda` | 2 objects, 5 user operations, 2 failures, 1 restart: create, edit, delete, create again, with a failure in both a step and its retry |
| `pinger` | `SavedIsSum`, `SuccessLeavesNoGoroutine`, `FailureKeepsCounts`, `AnsweredFetchReturns`, refinement of `SavedCounts` | 2 interceptors, 2 hosts, 2 fetches: one after a success or a failure |
| `routing_sync` | `TableFollowsConfigMap`, `UpdaterEnds` | 4 versions, one damaged, 2 pings, 2 restarts; room for 2 events between handlers and loop (27 in the code: 25 in the broadcaster's queue and one each in its goroutine and the filter's), so that it can be full, empty, and in between |
| `scaler` | `AnswerWithinSnapshots`, `RoutedNeverFails`, `EveryCallReturns`, `ScalerStops`, `StreamActivates` | one call at a time (calls share only `pingMut` and what fetches write), with no, two or the interceptor's hosts; the first fetch, one by tick, ping or restart, and two changes of the table with their fetches, so that counts and table change in the middle of a call |
| `proxy_request` | `CountedIsRouted`, `LatestAnswerSent`, `SleepBounded`, `AbandonedRequestEnds` | one request at a time, one service in two namespaces, with and without namespace, suffix and port, callers in a user's and in a system namespace, with a name that is not a pod's and without one (IPv6); 2 dials, 2 retries: a retry that fails after one that is answered, and the reverse |

One run per component also checks its `TypeOK`. Users of `operator` name objects like
their deployments, keep hosts as they are and apart, and change only replicas; the next
section shows what happens without these conditions. `ConvergesAfterKeda` is about
behaviours in which no ScaledObject is created while KEDA still holds the one before;
`operator_keda` shows why.

`UpdaterEnds` has one exception, which is a hang of the code. `config_map_updater.go:23`
says that the updater "Returns an appropriate non-nil error if ctx.Done() receives". When
the loop has returned and the broadcaster is full, the informer's handler waits in
`bcaster.Action`; the informer waits for its handler and `grp.Wait` for the informer, and
`watcher.Stop`, which would empty the broadcaster, is deferred until after `grp.Wait`. The
process then neither follows the ConfigMap nor ends. It takes 28 events that
the loop has not taken when it returns, the last of them passed on before the informer
stops. The run shows that nothing else keeps the updater.

`CountedIsRouted` says that a request goes where it is counted, not that this is what its
Host header says. `docs/ref/v0.3.0/http_scaled_object.md:25` has "All incoming requests
with this value in their `Host` header will be forwarded to the `Service`", and
`interceptor/main_test.go:117` and `middleware_test.go:69` expect the Host header as the
counted host. `getHost` puts the caller's namespace in the place of the header's when the
caller is in a user namespace (`dp-...`), and adds it when there is none, as its comment
(`middleware.go:52-54`) says. The model follows the code.

## Runs that end in a violation

Each compares the code with a sentence of the repository, quoted in `PROJECT.json`.

| run | what the code does |
|---|---|
| `queue_served_is_reported` | cooldown: the enforcer clears a count that has a new request in it |
| `operator_renamed` | created as `<object>-app`, deleted as `<deployment>-app` |
| `operator_retargeted` | a reconcile never changes a route |
| `operator_keda` | the retry of a creation that failed patches the ScaledObject that was just deleted; KEDA lets it go, and nobody creates another |

`MCOperator` has further choices of what users write, to be put in the cfgs of
`operator_renamed` and `operator_retargeted` as `Choices`. With `DeprecatedChoices` in
`OperatorRenamed.cfg`, a deletion leaves the route of the deprecated `host` field behind.
With `RehostedChoices` in `OperatorRetargeted.cfg`, a host that was edited out stays
routed; with `UnsetChoices`, replicas that are no longer given stay in the ScaledObject,
which is merge-patched.

## Fairness

Go runs every goroutine that can run, so each goroutine has weak fairness. Beyond that:
time passes and the enforcer's sleep ends (`CountMiddleware`); the wait's context ends,
as `waitTimeout` sees to it (`ForwardWait`); every object that is queued is reconciled
in the end, the work queue being first in, first out (strong fairness of `GetObject`);
the kubelet starts the operator again, and KEDA removes its finalizers (`Operator`);
the informer catches up and resyncs while the loop runs (`RoutingSync`); it may also pass
on events after that, but need not. Nothing is assumed of clients, of
applications, of users, or of interceptors that do not answer.

`ProxyRequest`: the handler goes on by itself wherever it computes, sleeps, or waits with
a limit (`waitTimeout`, the dialer's timeout, the backoff, `ResponseHeaderTimeout`). Where
it waits for the application without one (a body, or the headers of a retry, which goes
through `http.DefaultTransport`), it goes on once the request's context is done. So
`AbandonedRequestEnds` is about requests whose client has gone; nothing bounds the others.

`Scaler`: a fetch may never end, since `GetCounts` has no timeout. `EveryCallReturns`,
`ScalerStops` and `StreamActivates` therefore have the premise `FetchesEnd`: again and
again `pingMut` is free. `ScalerStops` also has the premise that the updater returns, for
the reason given above. Somebody who waits for `pingMut` gets it, and some member of the
errgroup returns, rather than each: both are finitely many. The first and the last of the
three are "again and again" formulas, `P ~> ~P` being the same as `[]<>~P`.

## Proofs

Every safety invariant, action property and refinement that a passing run checks is also
a theorem, for every value of the constants. Each proof has an inductive invariant that
implies the property; the lemmas show one action each.

`CountMiddlewareProofs` (any set of hosts, any finite set of requests):
- `TypeCorrect`, `CountIsExact`, `ErrorIsBounded`, `SurplusIsRemembered`,
  `QueueImplementsPromise`. The argument looks at one host at a time: what a step does
  to its count and to its sets of counted and leaving requests is one of a few effects
  (`StepEffect`), and each of these keeps the property. The cardinality lemmas it needs
  are proved first.
- `SteadyRequestIsReported`, `CountIsExactBesideReaders`, `ReadersImplementPromise` are
  about `QueueCounts`. `ReadInv` adds that the host of every request served since the
  iteration began is among the keys the encoder will visit, and that a copied entry of
  such a host is positive. The refinement is for the default, without the cooldown.

`ForwardWaitProofs` (any requests, deployments, replicas and updates):
- `ForwardWaitTypeCorrect`, `NoLostWakeup`. `WakeInv` adds to `WakeupOnItsWay` that a
  request past `Watch` is a watcher until its `Stop` is served, and that a request
  blocked in one of these calls has that call, once, in the broadcaster's queue. Without
  it an event could be sent on while the sleeper is not among the receivers.

`OperatorProofs` (any objects, hosts, specs, failures, restarts):
- `OperatorTypeCorrect`.
- `DeletionIsComplete`, assuming `StableChoices` (objects named like their deployments,
  a fixed non-empty `hosts` field). `FinalizerInv` is the strengthening: an object with
  resources has the finalizer, and a reconcile between two steps knows what it has
  already removed. Hosts may be shared here.

`ProxyRequestProofs` (any names, addresses and targets, any number of dials and retries):
- `LatestAnswer`, `SleepIsBounded`, from one inductive invariant (`RetryInv`): at each
  place of the handler the response in hand is the last that came, and the sleeps so far
  are those of the attempts so far.
- `CountedHostIsRouted`, from `KeyInv`: until the caller's name changes, the counted key
  is what `getHost` gives now.
- `LimitsAreKept` (`TypeOK`), from these, `CountedInv` (a request in the
  handler is counted) and `LimitInv`: how many dials and responses
  there can have been at each place of the handler.

`SumTheorems` has the facts about finite sums that the next two modules rest on: a sum
over a set grows by what is added to the set, two sums can be added pointwise, sums are
monotone. `SumFunctionOnSet` of the community modules is a recursive function, so these
need induction. The library's induction theorems have a predicate as a parameter, which
the provers cannot instantiate; `SubsetInduction` puts a set of subsets in its place and
follows from the fact that proper inclusion is well-founded on finite sets.

`QueuePingerProofs` (any finite sets of interceptors and hosts, any counts):
- `PingerTypeCorrect`, `SavedCountsAreSums`, `NoGoroutineLeft`, `FailuresKeepCounts`.
  `FetchInv`: the running total is the sum of the answers received so far, the channel
  is closed only when all were, and the goroutines of other endpoints are done.
- `PingerImplementsSavedCounts`: every step is one of `SavedCounts` or leaves its
  variables alone. That saved sums stay within the range `SavedCounts` is given is a
  bound on a sum of as many terms as there are interceptors.

`ScalerProofs` (any number of concurrent calls, any hosts, tables and fetches):
- `ScalerTypeCorrect`, `AnswersWithinSnapshots`, `RoutedHostNeverFails`. `ScalerInv` says
  of each call, whatever the others do: what it has added up lies between the sums of
  `lo` and of `hi` over the hosts it is done with (`Within`), what it has found out about
  the host it is at still holds (`AtHost`), and the hosts that were routed all along are
  routed now. Fetches, table updates and the call's own steps are separate lemmas.

`RoutingSyncProofs` (any versions, pings, events, restarts):
- `TableWasServed` (`TypeOK`): a running interceptor has a table, decoded from a version
  the ConfigMap had. `RoutingInv` says the same of what events and pings carry.

TLC has also checked these inductive invariants on the instances of the runs (of
`PingerInv` all but the type of the running total, a set that cannot be enumerated).

Assumptions on constants are the named `ASSUME`s of the modules, and TLC evaluates them:
bounds are numbers, the sets that are counted or summed over (`Request`, `Endpoint`, the
`Host` of pinger and scaler) are finite, and no call of the scaler has the name of one of
its goroutines.

Only model-checked: liveness (`IdleHostDrains`, `EveryWaitEnds`, `ConvergesAfterKeda`,
`AnsweredFetchReturns`, `TableFollowsConfigMap`, `UpdaterEnds`, `EveryCallReturns`, `ScalerStops`,
`StreamActivates`, `AbandonedRequestEnds`), because fairness is defined by ENABLED, which
the provers do not handle.

## Not modelled

- Generated code, configuration parsing, logging, health checks, end-to-end tests.
- `pingInterceptors`, `Ensure`, `Remove` and `MinTotalBackoffDuration`, which have no
  caller in production.
- Status conditions, which nothing reads. They grow with every reconcile.
- A manager's cache that is older than the object a reconcile takes from the queue, as
  after a change of leader: how old it may be is not decided by this code.
- Lengths of time, other than the sleeps of `retryRequest`.

## Plan

1. A composition of queue, pinger and RPC: what KEDA is told of a request that stays.
2. `Operator`: routes of shared hosts; a cache that lags.
3. Proofs: that `Converged` is stable while nobody interferes.
