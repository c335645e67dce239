-------------------------------- MODULE Scaler --------------------------------
(***************************************************************************)
(* The scaler's process (scaler/main.go): the RPCs KEDA calls (scaler/     *)
(* handlers.go) and the admin server's handlers, which read the counts of  *)
(* the queuePinger (here SavedCounts) and the routing table, next to the   *)
(* goroutines that refresh both, and the errgroup that runs them all.      *)
(*                                                                         *)
(* A ScaledObject refers to its hosts by a sequence; << >> is one whose    *)
(* metadata has no "hosts".  A handler goes through the hosts one by one,  *)
(* and for each of them through                                            *)
(*   count    getHostCount on pinger.counts(), which takes pingMut         *)
(*   route    no count: table.HasHost                                      *)
(*   log      no route: the error is logged with the counts (pingMut), or  *)
(*            no hosts at all: it is returned without them                 *)
(*   total    no route, but the host is the interceptor: aggregate()       *)
(* A stream waits in "tick", and in "send" it hands its answer to KEDA.    *)
(* /queue_ping is in "fetch" until its own fetch is over.                  *)
(*                                                                         *)
(* lo, hi and steady are history: for each host of a call the smallest and *)
(* the largest count, and the hosts that were routed all along, while the  *)
(* handler was running.                                                    *)
(***************************************************************************)
EXTENDS SavedCounts, Sequences

CONSTANTS Call,          \* RPCs that can be open at one time
          Refs,          \* what ScaledObjects refer to
          Tables,        \* the hosts of the tables the ConfigMap may hold
          Interceptor,   \* the host that stands for the interceptors
          MaxFetches,    \* bound: fetches in a behaviour
          MaxUpdates     \* bound: changes of the routing table

ASSUME RefsAssumption == Refs \subseteq Seq(Host \cup {Interceptor}) /\ Interceptor \notin Host
ASSUME TablesAssumption == Tables \subseteq SUBSET Host
ASSUME CountsAssumption == IsFiniteSet(Host) /\ Sizes \subseteq Int
ASSUME CallAssumption == Call \cap {"main", "pinger", "updater", "none"} = {}
ASSUME BoundsAssumption == MaxFetches \in Nat /\ MaxUpdates \in Nat

\* Members of the errgroup; "servers" stands for the gRPC server, the admin server
\* and the deployment informer, which return when the context is done.
Member == {"pinger", "updater", "servers"}

VARIABLES table,         \* the hosts of the routing table
          running,       \* the members of the errgroup that have not returned
          ctx,           \* "new" (the constructor), "up", "done" (cancelled), "exit"
          holder,        \* who has locked pingMut for a fetch
          waiting,       \* who waits to lock it
          pc, op, ref,   \* of each call: where it is, what it is, its hosts
          todo,          \* the hosts it has not looked at
          sum,           \* totalHostCount, totalCount
          reply,         \* what it answered, or last sent on the stream
          lo, hi, steady,
          fetches, updates

groupVars == <<running, ctx>>
lockVars == <<holder, waiting>>
historyVars == <<lo, hi, steady>>
callVars == <<pc, op, ref, todo, sum, reply, historyVars>>
vars == <<savedVars, table, groupVars, lockVars, callVars, fetches, updates>>

NoOne == "none"
Busy(c) == pc[c] \notin {"idle", "tick", "send"}

Init ==
  /\ InitCounts
  /\ table = {}
  /\ running = {}
  /\ ctx = "new"
  /\ holder = NoOne
  /\ waiting = {"main"}
  /\ pc = [c \in Call |-> "idle"]
  /\ op = [c \in Call |-> "none"]
  /\ ref = [c \in Call |-> << >>]
  /\ todo = [c \in Call |-> << >>]
  /\ sum = [c \in Call |-> 0]
  /\ reply = [c \in Call |-> "none"]
  /\ lo = [c \in Call |-> << >>]
  /\ hi = [c \in Call |-> << >>]
  /\ steady = [c \in Call |-> {}]
  /\ fetches = 0
  /\ updates = 0

Become(c, where) == pc' = [pc EXCEPT ![c] = where]

\* The handler is over.
Leave(c) ==
  /\ Become(c, "idle")
  /\ op' = [op EXCEPT ![c] = "none"]
  /\ ref' = [ref EXCEPT ![c] = << >>]
  /\ todo' = [todo EXCEPT ![c] = << >>]
  /\ sum' = [sum EXCEPT ![c] = 0]
  /\ lo' = [lo EXCEPT ![c] = << >>]
  /\ hi' = [hi EXCEPT ![c] = << >>]
  /\ steady' = [steady EXCEPT ![c] = {}]

\* The handler returns r; a stream sends what IsActive returns.
Answer(c, r) ==
  /\ reply' = [reply EXCEPT ![c] = r]
  /\ IF op[c] = "StreamIsActive" /\ r # "error"
     THEN Become(c, "send") /\ UNCHANGED <<op, ref, todo, sum, historyVars>>
     ELSE Leave(c)

-----------------------------------------------------------------------------
\* Mutant of BeginFetch: pingMut is not locked.
BeginFetchUnlocked(f) ==
  /\ f \in waiting
  /\ waiting' = waiting \ {f}
  /\ holder' = f
  /\ UNCHANGED <<savedVars, table, groupVars, callVars, fetches, updates>>

(***************************************************************************)
(* fetchAndSaveCounts, for the constructor ("main"), the loop of start     *)
(* ("pinger"), the updater's callback ("updater") or a /queue_ping.        *)
(***************************************************************************)
BeginFetch(f) ==
  /\ f \in waiting
  /\ Lock
  /\ waiting' = waiting \ {f}
  /\ holder' = f
  /\ UNCHANGED <<table, groupVars, callVars, fetches, updates>>

Get(m, h) == IF h \in DOMAIN m THEN m[h] ELSE 0

\* What the counts m say of each of the hosts hs.
View(hs, m) == [i \in DOMAIN hs |-> IF hs[i] = Interceptor THEN Sum(m) ELSE Get(m, hs[i])]
Pick(f(_), v, w) == [i \in DOMAIN v |-> f({v[i], w[i]})]

\* The calls that run see the counts that are saved; for the fetch of a /queue_ping
\* it is the first.
Observe ==
  LET Seen(old, f(_)) ==
        [c \in Call |-> LET new == View(ref[c], allCounts')
                        IN  CASE holder = c -> new
                              [] holder # c /\ Busy(c) -> Pick(f, old[c], new)
                              [] OTHER -> old[c]]
  IN  lo' = Seen(lo, Min) /\ hi' = Seen(hi, Max)

\* The first fetch lets main start the members of the errgroup; /queue_ping goes on
\* to read the counts.
FetchOk ==
  /\ Save
  /\ Observe
  /\ holder' = NoOne
  /\ IF holder = "main"
     THEN ctx' = "up" /\ running' = Member
     ELSE UNCHANGED groupVars
  /\ pc' = [c \in Call |-> IF holder = c THEN "count" ELSE pc[c]]
  /\ UNCHANGED <<waiting, table, op, ref, todo, sum, reply, steady, fetches, updates>>

\* Mutant of FetchFails: /queue_ping does not answer when its fetch fails.
FetchFailsSilently(onTick) ==
  /\ Unlock
  /\ holder' = NoOne
  /\ UNCHANGED <<waiting, table, groupVars, callVars, fetches, updates>>

\* main exits; the loop of start returns if it was on a tick; the updater and a
\* change of the interceptors' deployment go on; /queue_ping answers 500.
FetchFails(onTick) ==
  /\ Unlock
  /\ holder' = NoOne
  /\ CASE holder = "main" -> ctx' = "exit" /\ UNCHANGED running
       [] holder = "pinger" /\ onTick -> ctx' = "done" /\ running' = running \ {"pinger"}
       [] OTHER -> UNCHANGED groupVars
  /\ IF holder \in Call THEN Answer(holder, "error")
     ELSE UNCHANGED callVars
  /\ UNCHANGED <<waiting, table, fetches, updates>>

AtSelect(m) == m \in running /\ m \notin waiting /\ holder # m

\* The loop of start: a tick, or an event of the interceptors' deployment.
Tick ==
  /\ AtSelect("pinger")
  /\ fetches < MaxFetches
  /\ fetches' = fetches + 1
  /\ waiting' = waiting \cup {"pinger"}
  /\ UNCHANGED <<savedVars, table, groupVars, holder, callVars, updates>>

\* The updater: table.Replace, then the callback.
ReplaceTable(t) ==
  /\ AtSelect("updater")
  /\ updates < MaxUpdates
  /\ updates' = updates + 1
  /\ table' = t
  /\ steady' = [c \in Call |-> IF Busy(c) THEN steady[c] \cap t ELSE steady[c]]
  /\ waiting' = waiting \cup {"updater"}
  /\ UNCHANGED <<savedVars, groupVars, holder, pc, op, ref, todo, sum, reply, lo, hi, fetches>>

-----------------------------------------------------------------------------
(***************************************************************************)
(* The RPCs and the admin handlers.                                        *)
(***************************************************************************)
\* A pass over the hosts begins.
Begin(c, hs) ==
  /\ todo' = [todo EXCEPT ![c] = hs]
  /\ sum' = [sum EXCEPT ![c] = 0]
  /\ lo' = [lo EXCEPT ![c] = View(hs, allCounts)]
  /\ hi' = [hi EXCEPT ![c] = View(hs, allCounts)]
  /\ steady' = [steady EXCEPT ![c] = table]

\* A server starts a handler.  The admin server takes no more requests once it is
\* shut down; the gRPC server only closes its listener, and the connections that
\* KEDA has go on until the process ends.
Accept(c, o, hs) ==
  /\ pc[c] = "idle"
  /\ IF o \in {"queue", "queue_ping"} THEN "servers" \in running ELSE ctx \in {"up", "done"}
  /\ op' = [op EXCEPT ![c] = o]
  /\ ref' = [ref EXCEPT ![c] = hs]
  /\ Begin(c, hs)
  /\ UNCHANGED <<savedVars, table, groupVars, holder, updates>>

\* Where a handler goes on after getHostsFromScaledObjectRef: with its hosts, or
\* to the error if there are none.
GetHosts(hs, next) == IF hs = << >> THEN "log" ELSE next

CallRPC(c, o, hs) ==
  /\ Accept(c, o, hs)
  /\ Become(c, GetHosts(hs, IF o = "GetMetricSpec" THEN "route" ELSE "count"))
  /\ reply' = [reply EXCEPT ![c] = "none"]
  /\ UNCHANGED <<waiting, fetches>>

OpenStream(c, hs) ==
  /\ Accept(c, "StreamIsActive", hs)
  /\ Become(c, "tick")
  /\ reply' = [reply EXCEPT ![c] = "none"]
  /\ UNCHANGED <<waiting, fetches>>

GetQueue(c) ==
  /\ Accept(c, "queue", <<Interceptor>>)
  /\ Become(c, "count")
  /\ reply' = [reply EXCEPT ![c] = "none"]
  /\ UNCHANGED <<waiting, fetches>>

PingQueue(c) ==
  /\ Accept(c, "queue_ping", <<Interceptor>>)
  /\ fetches < MaxFetches
  /\ fetches' = fetches + 1
  /\ waiting' = waiting \cup {c}
  /\ Become(c, "fetch")
  /\ reply' = [reply EXCEPT ![c] = "none"]

\* StreamIsActive: case <-ticker.C calls IsActive.
StreamTick(c) ==
  /\ pc[c] = "tick"
  /\ IF ref[c] = << >>
     THEN Answer(c, "error")
     ELSE Become(c, "count") /\ Begin(c, ref[c]) /\ UNCHANGED <<op, ref, reply>>
  /\ UNCHANGED <<savedVars, table, groupVars, lockVars, fetches, updates>>

\* StreamIsActive: case <-server.Context().Done(), or Send fails.
StreamEnds(c) ==
  /\ pc[c] \in {"tick", "send"}
  /\ Leave(c)
  /\ UNCHANGED <<savedVars, table, groupVars, lockVars, reply, fetches, updates>>

Send(c) ==
  /\ pc[c] = "send"
  /\ Become(c, "tick")
  /\ UNCHANGED <<savedVars, table, groupVars, lockVars, op, ref, todo, sum, reply,
                 historyVars, fetches, updates>>

\* hostCount is known: the next host.
AddCount(c, n) ==
  /\ sum' = [sum EXCEPT ![c] = @ + n]
  /\ todo' = [todo EXCEPT ![c] = Tail(@)]
  /\ Become(c, "count")
  /\ UNCHANGED <<op, ref, reply, historyVars>>

\* Mutant of ReadCount: pinger.counts() does not take pingMut, and may return the
\* map that fetchCounts is filling.
ReadCountUnlocked(c) ==
  /\ pc[c] = "count"
  /\ todo[c] # << >>
  /\ op[c] \notin {"queue", "queue_ping"}
  /\ LET h == Head(todo[c])
     IN  \/ h \in DOMAIN allCounts /\ AddCount(c, allCounts[h])
         \/ fetching /\ \E n \in Sizes : AddCount(c, n)
         \/ /\ h \notin DOMAIN allCounts /\ Become(c, "route")
            /\ UNCHANGED <<op, ref, sum, todo, reply, historyVars>>
  /\ UNCHANGED <<savedVars, table, groupVars, lockVars, fetches, updates>>

\* One round of the loop over the hosts, up to counts[host]; IsActive returns TRUE
\* for the interceptor before it asks.
ReadCount(c) ==
  /\ pc[c] = "count"
  /\ todo[c] # << >>
  /\ op[c] \notin {"queue", "queue_ping"}
  /\ LET h == Head(todo[c])
     IN  IF h = Interceptor /\ op[c] # "GetMetrics"
         THEN Answer(c, "active")
         ELSE /\ ~fetching
              /\ IF h \in DOMAIN allCounts
                 THEN AddCount(c, allCounts[h])
                 ELSE Become(c, "route") /\ UNCHANGED <<op, ref, sum, todo, reply, historyVars>>
  /\ UNCHANGED <<savedVars, table, groupVars, lockVars, fetches, updates>>

\* Mutant of FindRoute: a host that is not in the counts is unknown.
FindRouteIgnored(c) ==
  /\ pc[c] = "route"
  /\ op[c] # "GetMetricSpec"
  /\ Become(c, IF Head(todo[c]) = Interceptor THEN "total" ELSE "log")
  /\ UNCHANGED <<savedVars, table, groupVars, lockVars, op, ref, sum, todo, reply,
                 historyVars, fetches, updates>>

\* table.HasHost: the host has a route, or is the interceptor, or is unknown.
FindRoute(c) ==
  /\ pc[c] = "route"
  /\ op[c] # "GetMetricSpec"
  /\ LET h == Head(todo[c])
     IN  IF h \in table
         THEN AddCount(c, 0)
         ELSE /\ Become(c, IF h = Interceptor THEN "total" ELSE "log")
              /\ UNCHANGED <<op, ref, sum, todo, reply, historyVars>>
  /\ UNCHANGED <<savedVars, table, groupVars, lockVars, fetches, updates>>

\* GetMetricSpec looks up the first host only.
GetMetricSpec(c) ==
  /\ pc[c] = "route"
  /\ op[c] = "GetMetricSpec"
  /\ LET h == Head(todo[c])
     IN  Answer(c, CASE h = Interceptor -> "interceptor"
                     [] h \in table -> "http-requests"
                     [] OTHER -> "error")
  /\ UNCHANGED <<savedVars, table, groupVars, lockVars, fetches, updates>>

\* The error: a host that is unknown is logged with all the counts
\* (mergeCountsWithRoutingTable); missing hosts are not.
LogError(c) ==
  /\ pc[c] = "log"
  /\ ref[c] # << >> => ~fetching
  /\ Answer(c, "error")
  /\ UNCHANGED <<savedVars, table, groupVars, lockVars, fetches, updates>>

\* pinger.aggregate()
ReadAggregate(c) ==
  /\ pc[c] = "total"
  /\ ~fetching
  /\ AddCount(c, aggregateCount)
  /\ UNCHANGED <<savedVars, table, groupVars, lockVars, fetches, updates>>

\* /queue, and /queue_ping after its fetch: pinger.counts().
ReadAllCounts(c) ==
  /\ pc[c] = "count"
  /\ todo[c] # << >>
  /\ op[c] \in {"queue", "queue_ping"}
  /\ ~fetching
  /\ AddCount(c, aggregateCount)
  /\ UNCHANGED <<savedVars, table, groupVars, lockVars, fetches, updates>>

\* Mutant of Result: one request is not enough.
ResultAboveOne(c) ==
  CASE op[c] \in {"queue", "queue_ping"} -> "counts"
    [] op[c] = "GetMetrics" -> "metric"
    [] OTHER -> IF sum[c] > 1 THEN "active" ELSE "inactive"

Result(c) ==
  CASE op[c] \in {"queue", "queue_ping"} -> "counts"
    [] op[c] = "GetMetrics" -> "metric"
    [] OTHER -> IF sum[c] > 0 THEN "active" ELSE "inactive"

\* After the last host.
Finish(c) ==
  /\ pc[c] = "count"
  /\ todo[c] = << >>
  /\ Answer(c, Result(c))
  /\ UNCHANGED <<savedVars, table, groupVars, lockVars, fetches, updates>>

-----------------------------------------------------------------------------
(***************************************************************************)
(* The errgroup.  A member that returns, for whatever reason, cancels the  *)
(* context (defer done()); the others return when they see that: the gRPC  *)
(* server because its listener is closed, the admin server because it is   *)
(* shut down, neither waiting for its handlers; the pinger's loop and the  *)
(* updater not before their fetch is over.  The updater also waits for its *)
(* informer, which may take for ever: RoutingSync shows when it does, and  *)
(* here it may or may not return.                                          *)
(***************************************************************************)
MemberFails(m) ==
  /\ ctx = "up"
  /\ AtSelect(m)
  /\ ctx' = "done"
  /\ running' = running \ {m}
  /\ UNCHANGED <<savedVars, table, lockVars, callVars, fetches, updates>>

\* Mutant of MemberStops: nobody closes the gRPC server's listener.
MemberStopsUnlessServing(m) ==
  /\ ctx = "done"
  /\ AtSelect(m)
  /\ m # "servers"
  /\ running' = running \ {m}
  /\ UNCHANGED <<savedVars, table, ctx, lockVars, callVars, fetches, updates>>

MemberStops(m) ==
  /\ ctx = "done"
  /\ AtSelect(m)
  /\ running' = running \ {m}
  /\ UNCHANGED <<savedVars, table, ctx, lockVars, callVars, fetches, updates>>

\* StartConfigMapRoutingTableUpdater: its loop has seen that the context is done, or
\* an event it could not decode, and its informer has returned too.
UpdaterReturns == MemberFails("updater") \/ MemberStops("updater")

\* grp.Wait returns, and with main the process ends; open calls are cut off.
Exit ==
  /\ ctx = "done"
  /\ running = {}
  /\ ctx' = "exit"
  /\ Forget
  /\ table' = {}
  /\ holder' = NoOne
  /\ waiting' = {}
  /\ pc' = [c \in Call |-> "idle"]
  /\ op' = [c \in Call |-> "none"]
  /\ ref' = [c \in Call |-> << >>]
  /\ todo' = [c \in Call |-> << >>]
  /\ sum' = [c \in Call |-> 0]
  /\ reply' = [c \in Call |-> "none"]
  /\ lo' = [c \in Call |-> << >>]
  /\ hi' = [c \in Call |-> << >>]
  /\ steady' = [c \in Call |-> {}]
  /\ UNCHANGED <<running, fetches, updates>>

\* The kubelet starts the scaler again.
Restart ==
  /\ ctx = "exit"
  /\ fetches < MaxFetches
  /\ fetches' = fetches + 1
  /\ ctx' = "new"
  /\ waiting' = {"main"}
  /\ UNCHANGED <<savedVars, table, running, holder, callVars, updates>>

-----------------------------------------------------------------------------
Fetcher == {"main", "pinger", "updater"} \cup Call

Handler(c) ==
  \/ ReadCount(c)
  \/ FindRoute(c)
  \/ GetMetricSpec(c)
  \/ LogError(c)
  \/ ReadAggregate(c)
  \/ Finish(c)
  \/ ReadAllCounts(c)
  \/ StreamTick(c)
  \/ Send(c)

Next ==
  \/ \E f \in Fetcher : BeginFetch(f)
  \/ FetchOk
  \/ \E onTick \in BOOLEAN : FetchFails(onTick)
  \/ Tick
  \/ \E t \in Tables : ReplaceTable(t)
  \/ \E c \in Call :
       \/ \E o \in {"IsActive", "GetMetrics", "GetMetricSpec"} : \E hs \in Refs : CallRPC(c, o, hs)
       \/ \E hs \in Refs : OpenStream(c, hs)
       \/ GetQueue(c)
       \/ PingQueue(c)
       \/ Handler(c)
       \/ StreamEnds(c)
  \/ \E m \in Member \ {"updater"} : MemberFails(m) \/ MemberStops(m)
  \/ UpdaterReturns
  \/ Exit
  \/ Restart

Spec == Init /\ [][Next]_vars

(***************************************************************************)
(* Goroutines run: handlers, those who wait for pingMut (sync.RWMutex lets *)
(* them in once it is free: the readers that waited for a fetch, then the  *)
(* next writer), and members of the errgroup that find the context done in *)
(* their select, or main when all of them have returned.  Fetches and      *)
(* members are finitely many, so it is enough that somebody who waits for  *)
(* the lock gets it, and that some member returns.  Nothing is assumed of  *)
(* the interceptors, a fetch may never end, or of the updater's return.    *)
(***************************************************************************)
FairSpec ==
  /\ Spec
  /\ \A c \in Call : WF_vars(Handler(c))
  /\ WF_vars(\E f \in Fetcher : BeginFetch(f))
  /\ WF_vars(Exit \/ \E m \in Member \ {"updater"} : MemberStops(m))

-----------------------------------------------------------------------------
\* Types of the scaler's state; pingMut is locked by exactly the holder.
TypeOK ==
  /\ allCounts \in CountMaps
  /\ fetching = (holder # NoOne)
  /\ table \subseteq Host
  /\ running \subseteq Member
  /\ ctx \in {"new", "up", "done", "exit"}
  /\ holder \in Fetcher \cup {NoOne}
  /\ waiting \subseteq Fetcher
  /\ pc \in [Call -> {"idle", "count", "route", "log", "total", "tick", "send", "fetch"}]
  /\ op \in [Call -> {"none", "IsActive", "StreamIsActive", "GetMetrics",
                       "GetMetricSpec", "queue", "queue_ping"}]
  /\ ref \in [Call -> Refs \cup {<< >>, <<Interceptor>>}]
  /\ todo \in [Call -> Seq(Host \cup {Interceptor})]
  /\ sum \in [Call -> Int]
  /\ reply \in [Call -> {"none", "error", "active", "inactive", "metric", "counts",
                          "interceptor", "http-requests"}]
  /\ lo \in [Call -> Seq(Int)]
  /\ hi \in [Call -> Seq(Int)]
  /\ steady \in [Call -> SUBSET Host]

Answers(c) == Busy(c) /\ ~Busy(c)' /\ reply'[c] # "none"
Total(s) == SumFunction(s)

\* A handler reads the counts anew for every host (handlers.go), while fetches
\* replace them: its answer may mix several fetches, but it never leaves the
\* range of what they found for its hosts while it was running.  An object with
\* pending requests in all of them is never reported inactive, one without any
\* never active; /queue_ping answers with its own fetch or a later one.
AnswerWithinSnapshots ==
  [][\A c \in Call : Answers(c) =>
       /\ reply'[c] \in {"metric", "counts"} => sum[c] \in Total(lo[c])..Total(hi[c])
       /\ reply'[c] = "inactive" => Total(lo[c]) <= 0
       /\ reply'[c] = "active" => \/ Total(hi[c]) > 0
                                  \/ \E i \in DOMAIN ref[c] : ref[c][i] = Interceptor]_vars

\* getHostCount "gets proper count for given host regardless whether host is in
\* counts or only in routerTable" (hosts.go): an RPC about hosts that are routed
\* all the while never fails, though counts and table are read one after the
\* other and change in between.
RoutedNeverFails ==
  [][\A c \in Call : Answers(c) /\ reply'[c] = "error" /\ op[c] # "queue_ping" =>
       \/ ref[c] = << >>
       \/ \E i \in DOMAIN ref[c] : ref[c][i] \notin steady[c] \cup {Interceptor}]_vars

FetchesEnd == []<>~fetching

\* Handlers, the pinger's loop, the updater's callback and /queue_ping share
\* pingMut, and a handler takes it several times: as long as fetches end, every
\* call gets its answer, and none of them waits for ever.
EveryCallReturns ==
  FetchesEnd => \A c \in Call : []<>~Busy(c)

\* The updater returns once the context is done.
CancelledUpdaterReturns == []<>(ctx = "done" => "updater" \notin running)

\* "defer done()": when one member of the errgroup returns, the others do, and the
\* process ends, so that it can be restarted, as long as fetches end and the updater
\* returns (UpdaterEnds of RoutingSync says when it does).
ScalerStops ==
  FetchesEnd /\ CancelledUpdaterReturns => []<>(ctx # "done")

Open(c) == op[c] = "StreamIsActive" /\ pc[c] # "idle"
PendingOf(c) == Total(View(ref[c], allCounts))

\* The stream tells KEDA to activate an object: while the saved counts have
\* requests for its hosts, an open stream sends "active" or ends: it is never open
\* for ever with requests pending and another reply.
StreamActivates ==
  FetchesEnd =>
    \A c \in Call : []<>(Open(c) /\ PendingOf(c) > 0 => reply[c] = "active")
=============================================================================
