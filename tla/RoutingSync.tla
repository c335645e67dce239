----------------------------- MODULE RoutingSync -----------------------------
(***************************************************************************)
(* How an interceptor's routing table follows the ConfigMap the operator   *)
(* writes (pkg/routing/config_map.go, config_map_updater.go, table_rpc.go, *)
(* pkg/k8s/config_map_cache_informer.go).                                  *)
(*                                                                         *)
(* Two paths write the table.  GetTable reads the ConfigMap from the API   *)
(* server, at startup and for every GET /routing_ping, and replaces the    *)
(* table with it in a later step.  The updater applies the events that the *)
(* informer's handlers hand to a broadcaster: one per change the informer  *)
(* sees, and one per resync.                                               *)
(*                                                                         *)
(* The updater is two goroutines, the informer and the loop, and returns   *)
(* when both have.  Either of them ends the other by cancelling their      *)
(* context; but a handler of the informer that waits for room in the       *)
(* broadcaster, which holds Room events, is not woken by that, and the     *)
(* updater stops its watch only after both have returned.                  *)
(*                                                                         *)
(* The ConfigMap is represented by the number of its version, and Tables   *)
(* gives the hosts each version routes, or Undecodable.                    *)
(***************************************************************************)
EXTENDS Integers, Sequences

CONSTANTS Ping,          \* concurrent GET /routing_ping requests
          Host,
          Tables,        \* the versions of the ConfigMap
          Undecodable,
          Room,          \* events between the handlers and the loop (27 in the code)
          MaxRestarts    \* bound: restarts of the interceptor

Version == 1..Len(Tables)
None == 0

ASSUME TablesAssumption == Tables \in Seq(SUBSET Host \cup {Undecodable}) /\ Len(Tables) > 0
ASSUME BoundsAssumption == Room \in Nat /\ MaxRestarts \in Nat

VARIABLES cm,            \* version of the ConfigMap in the cluster
          cache,         \* version in the informer's store
          events,        \* versions on their way to the loop; if there are more than
                         \* Room, a handler waits with the last one
          process,       \* "starting", "running", "stopping" (cancelled) or "down"
          loop,          \* the updater's loop has not returned
          table,         \* version the routing table was decoded from
          pingpc,        \* "idle", or "fetched": between getter.Get and table.Replace
          fetched,       \* what each ping fetched
          restarts

vars == <<cm, cache, events, process, loop, table, pingpc, fetched, restarts>>

\* Mutant of Decodes: what cannot be decoded counts as a table.
DecodesAnything(v) == v = v

\* FetchTableFromConfigMap succeeds.
Decodes(v) == Tables[v] # Undecodable

Init ==
  /\ cm = 1
  /\ cache = None
  /\ events = <<>>
  /\ process = "starting"
  /\ loop = TRUE
  /\ table = None
  /\ pingpc = [p \in Ping |-> "idle"]
  /\ fetched = [p \in Ping |-> None]
  /\ restarts = 0

-----------------------------------------------------------------------------
\* The ConfigMap is written.
WriteConfigMap ==
  /\ cm < Len(Tables)
  /\ cm' = cm + 1
  /\ UNCHANGED <<cache, events, process, loop, table, pingpc, fetched, restarts>>

\* main: GetTable, or exit when the ConfigMap cannot be read or decoded.
FetchInitialTable ==
  /\ process = "starting"
  /\ \/ Decodes(cm) /\ process' = "running" /\ table' = cm
     \/ process' = "down" /\ UNCHANGED table
  /\ UNCHANGED <<cm, cache, events, loop, pingpc, fetched, restarts>>

\* A server or the deployment cache of the process fails: its context is cancelled,
\* and main exits when the others of the errgroup have returned.
Stop ==
  /\ process = "running"
  /\ process' = "stopping"
  /\ UNCHANGED <<cm, cache, events, loop, table, pingpc, fetched, restarts>>

\* A handler passes v to the broadcaster.  The last ones may do so when the context
\* is already done.
Action(v) ==
  /\ process \in {"running", "stopping"}
  /\ Len(events) <= Room
  /\ events' = Append(events, v)

\* The informer sees a newer version, the latest or not.
Observe(v) ==
  /\ cache < v /\ v <= cm
  /\ Action(v)
  /\ cache' = v
  /\ UNCHANGED <<cm, process, loop, table, pingpc, fetched, restarts>>

\* Mutant of Resync: a resync does not reach the handlers.
ResyncIsSilent ==
  /\ process = "running"
  /\ cache # None
  /\ events = <<>>
  /\ UNCHANGED vars

\* The informer's resync hands its store to the update handler again.
Resync ==
  /\ cache # None
  /\ Action(cache)
  /\ UNCHANGED <<cm, cache, process, loop, table, pingpc, fetched, restarts>>

\* A round of the updater's loop.  An event that cannot be decoded ends it.
ApplyEvent ==
  /\ process \in {"running", "stopping"} /\ loop
  /\ events # <<>>
  /\ events' = Tail(events)
  /\ IF Decodes(Head(events))
     THEN table' = Head(events) /\ UNCHANGED loop
     ELSE loop' = FALSE /\ UNCHANGED table
  /\ UNCHANGED <<cm, cache, process, pingpc, fetched, restarts>>

\* Mutant of LoopStops: the loop looks at its context after an event only.
LoopStopsOnEvent ==
  /\ process = "stopping" /\ loop
  /\ events # <<>>
  /\ loop' = FALSE
  /\ UNCHANGED <<cm, cache, events, process, table, pingpc, fetched, restarts>>

\* The loop sees that its context is done.
LoopStops ==
  /\ process = "stopping" /\ loop
  /\ loop' = FALSE
  /\ UNCHANGED <<cm, cache, events, process, table, pingpc, fetched, restarts>>

\* grp.Wait: the loop has returned, and so does the informer, unless a handler
\* waits.  The process ends with the updater.
UpdaterReturns ==
  /\ process \in {"running", "stopping"} /\ ~loop
  /\ Len(events) <= Room
  /\ process' = "down"
  /\ UNCHANGED <<cm, cache, events, loop, table, pingpc, fetched, restarts>>

\* GetTable for GET /routing_ping: getter.Get, and decoding; an error is answered
\* with 500 ...
PingFetch(p) ==
  /\ process = "running"
  /\ pingpc[p] = "idle"
  /\ Decodes(cm)
  /\ pingpc' = [pingpc EXCEPT ![p] = "fetched"]
  /\ fetched' = [fetched EXCEPT ![p] = cm]
  /\ UNCHANGED <<cm, cache, events, process, loop, table, restarts>>

\* ... and table.Replace.
PingReplace(p) ==
  /\ process = "running"
  /\ pingpc[p] = "fetched"
  /\ pingpc' = [pingpc EXCEPT ![p] = "idle"]
  /\ table' = fetched[p]
  /\ UNCHANGED <<cm, cache, events, process, loop, fetched, restarts>>

\* The kubelet starts the interceptor again: nothing survives.
Restart ==
  /\ process = "down"
  /\ restarts < MaxRestarts
  /\ restarts' = restarts + 1
  /\ process' = "starting"
  /\ cache' = None
  /\ events' = <<>>
  /\ loop' = TRUE
  /\ table' = None
  /\ pingpc' = [p \in Ping |-> "idle"]
  /\ fetched' = [p \in Ping |-> None]
  /\ UNCHANGED cm

-----------------------------------------------------------------------------
Next ==
  \/ WriteConfigMap
  \/ FetchInitialTable
  \/ \E v \in Version : Observe(v)
  \/ Resync
  \/ ApplyEvent
  \/ Stop
  \/ LoopStops
  \/ UpdaterReturns
  \/ \E p \in Ping : PingFetch(p) \/ PingReplace(p)
  \/ Restart

Spec == Init /\ [][Next]_vars

(***************************************************************************)
(* The process is started, the informer catches up with the API server and *)
(* resyncs periodically while the loop runs, the updater's goroutines run, *)
(* and a ping that has read the ConfigMap goes on.  Nobody is obliged to   *)
(* ping or to write.                                                       *)
(***************************************************************************)
FairSpec ==
  /\ Spec
  /\ WF_vars(FetchInitialTable)
  /\ WF_vars(Restart)
  /\ SF_vars(process = "running" /\ loop /\ Observe(cm))
  /\ SF_vars(process = "running" /\ loop /\ Resync)
  /\ WF_vars(ApplyEvent)
  /\ WF_vars(LoopStops)
  /\ WF_vars(UpdaterReturns)
  /\ \A p \in Ping : WF_vars(PingReplace(p))

-----------------------------------------------------------------------------
\* Types: the table was decoded from a version the ConfigMap really had.
TypeOK ==
  /\ cm \in Version
  /\ cache \in {None} \cup Version /\ cache <= cm
  /\ events \in Seq(Version) /\ Len(events) <= Room + 1
  /\ process \in {"starting", "running", "stopping", "down"}
  /\ loop \in BOOLEAN
  /\ table \in {None} \cup {v \in Version : v <= cm /\ Tables[v] # Undecodable}
  /\ process = "running" => table # None
  /\ pingpc \in [Ping -> {"idle", "fetched"}]
  /\ fetched \in [Ping -> {None} \cup Version]
  /\ restarts \in 0..MaxRestarts

\* A handler waits for room that nobody makes any more.
Stuck == ~loop /\ Len(events) > Room

\* The updater's loop has returned, or is to return.
Ending == process = "stopping" \/ (process = "running" /\ ~loop)

\* "Returns an appropriate non-nil error if ctx.Done() receives"
\* (StartConfigMapRoutingTableUpdater): once its context is done or its loop has
\* failed the updater returns, and the process can end and be restarted.  The one
\* thing that keeps it is a handler of the informer that found the broadcaster full.
UpdaterEnds == Ending ~> (process = "down" \/ Stuck)

\* A ping that read the ConfigMap before a change may replace the table after the
\* updater has applied the change.  All the same the table becomes what the
\* ConfigMap holds, and stays so, once the ConfigMap can be decoded and is left
\* alone: the next resync repairs it.  (A process that has gone down for the last
\* time does not count, nor one whose updater is stuck: see UpdaterEnds.)
TableFollowsConfigMap ==
  <>[](process = "running" => table = cm \/ ~Decodes(cm) \/ Stuck)
=============================================================================
