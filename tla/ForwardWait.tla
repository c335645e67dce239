----------------------------- MODULE ForwardWait -----------------------------
(***************************************************************************)
(* The forwarding handler of the interceptor (interceptor/                 *)
(* proxy_handlers.go) up to the point where it proxies a request: it finds *)
(* the route and waits (interceptor/forward_wait_func.go) until the        *)
(* deployment has a ready replica, by way of the informer-backed           *)
(* deployment cache (pkg/k8s/deployment_cache_informer.go).                *)
(*                                                                         *)
(* An update of a deployment passes through                                *)
(*   cluster   the deployments the API server has;                         *)
(*   stream    its changes that the informer has not seen yet;             *)
(*   cache     the informer's store, which Get reads;                      *)
(*   notified  the updates the informer still has to hand to the event     *)
(*             handlers, in order, after they are in the store;            *)
(*   incoming  the queue of the watch.Broadcaster, filled by Action;       *)
(*   current   the event its goroutine is sending to the watchers, one     *)
(*             after the other, waiting for each (WaitIfChannelFull, no    *)
(*             buffer), or for that watcher to be stopped;                 *)
(*   slot      the event the goroutine of watch.Filter has accepted for a  *)
(*             request and offers to it.                                   *)
(* Watch and Stop of the broadcaster go through incoming as well: the      *)
(* caller is blocked until the broadcaster's goroutine has served it.      *)
(***************************************************************************)
EXTENDS Integers, Sequences

CONSTANTS Request, Deployment,
          MaxReady,     \* bound: ready replicas of a deployment
          MaxUpdates    \* bound: updates of deployments in a behaviour

ASSUME BoundsAssumption == MaxReady \in Nat \ {0} /\ MaxUpdates \in Nat

VARIABLES cluster, stream, cache, notified, incoming, current, sending, watchers, slot,
          pc, depl, outcome, updates

informerVars == <<cluster, stream, cache, notified, updates>>
broadcastVars == <<incoming, current, sending, watchers, slot>>
handlerVars == <<pc, depl, outcome>>
vars == <<cluster, stream, cache, notified, incoming, current, sending,
          watchers, slot, pc, depl, outcome, updates>>

Absent == -1           \* there is no such deployment
Nothing == [kind |-> "none"]
NoRoute == "none"      \* outside the wait, a request has no deployment

Event(d, ready, gone) ==
  [kind |-> "event", depl |-> d, ready |-> ready, gone |-> gone]
Call(op, q) == [kind |-> op, req |-> q]

\* deploymentCanServe
CanServe(ready) == ready > 0

\* The interceptor is idle; deployments are scaled to zero, or not there yet.
Init ==
  /\ cluster \in [Deployment -> {Absent, 0}]
  /\ stream = << >>
  /\ cache = cluster
  /\ notified = << >>
  /\ incoming = << >>
  /\ current = Nothing
  /\ sending = {}
  /\ watchers = {}
  /\ slot = [q \in Request |-> Nothing]
  /\ pc = [q \in Request |-> "idle"]
  /\ depl = [q \in Request |-> NoRoute]
  /\ outcome = [q \in Request |-> "none"]
  /\ updates = 0

-----------------------------------------------------------------------------
(***************************************************************************)
(* The API server and the informer.  A handler forwards the object         *)
(* whatever the event's type, so an event is a deployment with its ready   *)
(* replicas; the one of a deletion (gone) carries its last state.  An      *)
(* update that changes nothing stands for a resync.                        *)
(***************************************************************************)
UpdateDeployment(d, ready) ==
  /\ updates < MaxUpdates
  /\ cluster' = [cluster EXCEPT ![d] = ready]
  /\ stream' = Append(stream, Event(d, ready, FALSE))
  /\ updates' = updates + 1
  /\ UNCHANGED <<cache, notified, broadcastVars, handlerVars>>

DeleteDeployment(d) ==
  /\ updates < MaxUpdates
  /\ cluster[d] # Absent
  /\ cluster' = [cluster EXCEPT ![d] = Absent]
  /\ stream' = Append(stream, Event(d, cluster[d], TRUE))
  /\ updates' = updates + 1
  /\ UNCHANGED <<cache, notified, broadcastVars, handlerVars>>

\* The informer puts a change in its store, then in line for the handlers.
ObserveChange ==
  /\ stream # << >>
  /\ LET e == Head(stream)
     IN  /\ cache' = [cache EXCEPT ![e.depl] = IF e.gone THEN Absent ELSE e.ready]
         /\ notified' = Append(notified, e)
  /\ stream' = Tail(stream)
  /\ UNCHANGED <<cluster, updates, broadcastVars, handlerVars>>

\* addEvtHandler, updateEvtHandler, deleteEvtHandler: bcaster.Action
HandleEvent ==
  /\ notified # << >>
  /\ incoming' = Append(incoming, Head(notified))
  /\ notified' = Tail(notified)
  /\ UNCHANGED <<cluster, stream, cache, updates, current, sending, watchers, slot, handlerVars>>

-----------------------------------------------------------------------------
(***************************************************************************)
(* The broadcaster's goroutine, and the goroutine of each watch.Filter.    *)
(***************************************************************************)
NextIncoming(kind) ==
  /\ sending = {}
  /\ incoming # << >>
  /\ Head(incoming).kind = kind
  /\ incoming' = Tail(incoming)

TakeEvent ==
  /\ NextIncoming("event")
  /\ current' = Head(incoming)
  /\ sending' = watchers
  /\ UNCHANGED <<informerVars, watchers, slot, handlerVars>>

\* The filter of q receives the event if it is not busy with an earlier one,
\* and keeps it if it is about q's deployment.
SendTo(q) ==
  /\ q \in sending
  /\ pc[q] # "stopping"
  /\ slot[q] = Nothing
  /\ slot' = IF current.depl = depl[q] THEN [slot EXCEPT ![q] = current] ELSE slot
  /\ sending' = sending \ {q}
  /\ UNCHANGED <<informerVars, incoming, current, watchers, handlerVars>>

\* The watcher has been stopped: the event is not sent to it.
SkipStopped(q) ==
  /\ q \in sending
  /\ pc[q] = "stopping"
  /\ sending' = sending \ {q}
  /\ UNCHANGED <<informerVars, incoming, current, watchers, slot, handlerVars>>

AddWatcher ==
  /\ NextIncoming("watch")
  /\ LET q == Head(incoming).req
     IN  /\ watchers' = watchers \cup {q}
         /\ pc' = [pc EXCEPT ![q] = "getting"]
  /\ UNCHANGED <<informerVars, current, sending, slot, depl, outcome>>

RemoveWatcher ==
  /\ NextIncoming("stop")
  /\ LET q == Head(incoming).req
     IN  /\ watchers' = watchers \ {q}
         /\ pc' = [pc EXCEPT ![q] = "waited"]
  /\ UNCHANGED <<informerVars, current, sending, slot, depl, outcome>>

-----------------------------------------------------------------------------
(***************************************************************************)
(* The handler, one goroutine per request.                                 *)
(***************************************************************************)
Reply(q, status) ==
  /\ pc' = [pc EXCEPT ![q] = "done"]
  /\ outcome' = [outcome EXCEPT ![q] = status]
  /\ depl' = [depl EXCEPT ![q] = NoRoute]

\* getHost fails (400) or the routing table has no target for the host (404).
Refuse(q, status) ==
  /\ pc[q] = "idle"
  /\ Reply(q, status)
  /\ UNCHANGED <<informerVars, broadcastVars>>

\* The route leads to deployment d: deployCache.Watch.
CallWatch(q, d) ==
  /\ pc[q] = "idle"
  /\ depl' = [depl EXCEPT ![q] = d]
  /\ pc' = [pc EXCEPT ![q] = "watching"]
  /\ incoming' = Append(incoming, Call("watch", q))
  /\ UNCHANGED <<informerVars, current, sending, watchers, slot, outcome>>

\* Mutant of LeaveWait: the deferred watcher.Stop() is missing.
LeaveWaitUnstopped(q, result) ==
  /\ outcome' = [outcome EXCEPT ![q] = result]
  /\ pc' = [pc EXCEPT ![q] = "waited"]
  /\ UNCHANGED incoming

\* The wait function returns: its deferred watcher.Stop() closes the watcher and
\* then waits for the broadcaster to remove it.
LeaveWait(q, result) ==
  /\ outcome' = [outcome EXCEPT ![q] = result]
  /\ pc' = [pc EXCEPT ![q] = "stopping"]
  /\ incoming' = Append(incoming, Call("stop", q))

\* Mutant of GetDeployment: only events can end the wait.
GetDeploymentIgnored(q) ==
  /\ pc[q] = "getting"
  /\ pc' = [pc EXCEPT ![q] = "selecting"]
  /\ UNCHANGED <<informerVars, broadcastVars, depl, outcome>>

\* deployCache.Get: an error ends the wait, so does a deployment that can serve.
GetDeployment(q) ==
  /\ pc[q] = "getting"
  /\ LET ready == cache[depl[q]]
     IN  \/ ready = Absent /\ LeaveWait(q, "error")
         \/ CanServe(ready) /\ LeaveWait(q, "warm")
         \/ /\ ready = 0
            /\ pc' = [pc EXCEPT ![q] = "selecting"]
            /\ UNCHANGED <<incoming, outcome>>
  /\ UNCHANGED <<informerVars, current, sending, watchers, slot, depl>>

\* case event := <-eventCh
ReceiveEvent(q) ==
  /\ pc[q] = "selecting"
  /\ slot[q] # Nothing
  /\ slot' = [slot EXCEPT ![q] = Nothing]
  /\ IF CanServe(slot[q].ready)
     THEN LeaveWait(q, "cold")
     ELSE UNCHANGED <<incoming, pc, outcome>>
  /\ UNCHANGED <<informerVars, current, sending, watchers, depl>>

\* case <-ctx.Done(): the timeout, or the client went away.
ContextDone(q) ==
  /\ pc[q] = "selecting"
  /\ LeaveWait(q, "error")
  /\ UNCHANGED <<informerVars, current, sending, watchers, slot, depl>>

\* The wait function has returned to the handler: 502 on an error, 500 if the
\* target URL cannot be built, otherwise the request is proxied.
FinishHandler(q, urlOK) ==
  /\ pc[q] = "waited"
  /\ Reply(q, IF outcome[q] = "error" THEN "502"
              ELSE IF urlOK THEN outcome[q]
              ELSE "500")
  /\ UNCHANGED <<informerVars, broadcastVars>>

-----------------------------------------------------------------------------
Broadcast ==
  \/ TakeEvent
  \/ \E q \in Request : SendTo(q)
  \/ \E q \in Request : SkipStopped(q)
  \/ AddWatcher
  \/ RemoveWatcher

Handler(q) ==
  \/ GetDeployment(q)
  \/ ReceiveEvent(q)
  \/ ContextDone(q)
  \/ \E urlOK \in BOOLEAN : FinishHandler(q, urlOK)

Next ==
  \/ \E d \in Deployment : \E ready \in 0..MaxReady : UpdateDeployment(d, ready)
  \/ \E d \in Deployment : DeleteDeployment(d)
  \/ ObserveChange
  \/ HandleEvent
  \/ Broadcast
  \/ \E q \in Request :
       \/ \E status \in {"400", "404"} : Refuse(q, status)
       \/ \E d \in Deployment : CallWatch(q, d)
       \/ Handler(q)

(***************************************************************************)
(* The goroutines of the process run, and waitTimeout ends every context.  *)
(* Nothing is assumed about clients, about the cluster or about how fast   *)
(* the informer learns of its changes.                                     *)
(***************************************************************************)
Spec == Init /\ [][Next]_vars

FairSpec ==
  /\ Spec
  /\ WF_vars(HandleEvent)
  /\ WF_vars(Broadcast)
  /\ \A q \in Request : WF_vars(Handler(q)) /\ WF_vars(ContextDone(q))

-----------------------------------------------------------------------------
EventSet == [kind : {"event"}, depl : Deployment, ready : 0..MaxReady, gone : BOOLEAN]

\* Types of the informer's, the broadcaster's and the handlers' state; the
\* broadcaster has as watchers only requests that are inside the wait function.
TypeOK ==
  /\ cluster \in [Deployment -> {Absent} \cup 0..MaxReady]
  /\ stream \in Seq(EventSet)
  /\ cache \in [Deployment -> {Absent} \cup 0..MaxReady]
  /\ notified \in Seq(EventSet)
  /\ incoming \in Seq(EventSet \cup [kind : {"watch", "stop"}, req : Request])
  /\ current \in EventSet \cup {Nothing}
  /\ sending \subseteq watchers /\ watchers \subseteq Request
  /\ \A q \in watchers : pc[q] \in {"getting", "selecting", "stopping"}
  /\ slot \in [Request -> EventSet \cup {Nothing}]
  /\ pc \in [Request -> {"idle", "watching", "getting", "selecting", "stopping",
                         "waited", "done"}]
  /\ depl \in [Request -> Deployment \cup {NoRoute}]
  /\ outcome \in [Request -> {"none", "error", "warm", "cold",
                              "400", "404", "500", "502"}]
  /\ updates \in 0..MaxUpdates

Wakes(e, d) == e.kind = "event" /\ e.depl = d /\ CanServe(e.ready)

ReadyIn(s, d) == \E i \in DOMAIN s : Wakes(s[i], d)

\* "get a watcher & its result channel before querying the deployment cache, to
\* ensure we don't miss events": a request never sleeps in the select while the
\* store has a ready replica, unless an event that wakes it is on its way through
\* the informer, the broadcaster or its filter.
WakeupOnItsWay ==
  \A q \in Request :
    pc[q] = "selecting" /\ CanServe(cache[depl[q]]) =>
      \/ ReadyIn(notified, depl[q])
      \/ ReadyIn(incoming, depl[q])
      \/ q \in sending /\ Wakes(current, depl[q])
      \/ Wakes(slot[q], depl[q])

\* The handlers share one broadcaster that waits for each of its watchers, and
\* wait for it in Watch and in Stop.  They never block each other for good:
\* every request that starts to wait is answered.
EveryWaitEnds ==
  \A q \in Request : pc[q] = "watching" ~> pc[q] = "done"
=============================================================================
