-------------------------- MODULE ForwardWaitProofs --------------------------
(***************************************************************************)
(* Proofs about ForwardWait, for any number of requests, deployments and   *)
(* updates.                                                                *)
(***************************************************************************)
EXTENDS ForwardWait, TLAPS

-----------------------------------------------------------------------------
(***************************************************************************)
(* Queues.                                                                 *)
(***************************************************************************)

\* Taking the first element of a queue.
LEMMA HeadTail ==
  ASSUME NEW S, NEW s \in Seq(S), s # << >>
  PROVE  /\ Head(s) \in S /\ Tail(s) \in Seq(S)
         /\ 1 \in DOMAIN s /\ Head(s) = s[1]
         /\ \A i \in DOMAIN Tail(s) : i + 1 \in DOMAIN s /\ Tail(s)[i] = s[i + 1]
         /\ \A i \in DOMAIN s : i # 1 => i - 1 \in DOMAIN Tail(s) /\ Tail(s)[i - 1] = s[i]
         /\ DOMAIN s \subseteq Nat /\ DOMAIN Tail(s) \subseteq Nat
OBVIOUS

\* Adding an element to a queue.
LEMMA AppendFacts ==
  ASSUME NEW S, NEW s \in Seq(S), NEW x \in S
  PROVE  /\ Append(s, x) \in Seq(S)
         /\ \A i \in DOMAIN s : i \in DOMAIN Append(s, x) /\ Append(s, x)[i] = s[i]
         /\ \E n \in DOMAIN Append(s, x) :
              /\ Append(s, x)[n] = x
              /\ n \notin DOMAIN s
              /\ \A i \in DOMAIN Append(s, x) : i # n => i \in DOMAIN s
BY SMTT(60)

\* A queue has a waking event if its head is one or its tail has one.
LEMMA ReadyInTail ==
  ASSUME NEW S, NEW s \in Seq(S), s # << >>, NEW d
  PROVE  ReadyIn(s, d) <=> Wakes(Head(s), d) \/ ReadyIn(Tail(s), d)
<1>1. Head(s) = s[1] /\ 1 \in DOMAIN s
  BY HeadTail
<1>2. \A i \in DOMAIN Tail(s) : i + 1 \in DOMAIN s /\ Tail(s)[i] = s[i + 1]
  BY HeadTail
<1>3. \A i \in DOMAIN s : i # 1 => i - 1 \in DOMAIN Tail(s) /\ Tail(s)[i - 1] = s[i]
  BY HeadTail
<1>4. ASSUME NEW i \in DOMAIN s, Wakes(s[i], d)
      PROVE  Wakes(Head(s), d) \/ \E j \in DOMAIN Tail(s) : Wakes(Tail(s)[j], d)
  <2>1. CASE i = 1
    BY <1>1, <1>4, <2>1, Zenon
  <2>2. CASE i # 1
    BY <1>3, <1>4, <2>2, Zenon
  <2>. QED BY <2>1, <2>2
<1>5. ASSUME NEW i \in DOMAIN Tail(s), Wakes(Tail(s)[i], d)
      PROVE  \E j \in DOMAIN s : Wakes(s[j], d)
  BY <1>2, <1>5, Zenon
<1>6. ASSUME Wakes(Head(s), d)
      PROVE  \E j \in DOMAIN s : Wakes(s[j], d)
  BY <1>1, <1>6, Zenon
<1>. QED BY <1>4, <1>5, <1>6, Zenon DEF ReadyIn

\* An element added to a queue counts.
LEMMA ReadyInAppend ==
  ASSUME NEW S, NEW s \in Seq(S), NEW x \in S, NEW d
  PROVE  ReadyIn(Append(s, x), d) <=> ReadyIn(s, d) \/ Wakes(x, d)
BY AppendFacts DEF ReadyIn

-----------------------------------------------------------------------------
(***************************************************************************)
(* Events and calls.                                                       *)
(***************************************************************************)

CallSet == [kind : {"watch", "stop"}, req : Request]
Item == EventSet \cup CallSet

\* Events and calls are told apart by their kind.
LEMMA ItemFacts ==
  /\ \A e \in EventSet : /\ e.kind = "event" /\ e.depl \in Deployment
                         /\ e.ready \in 0..MaxReady /\ e.gone \in BOOLEAN
  /\ \A c \in CallSet : c.kind \in {"watch", "stop"} /\ c.req \in Request
  /\ \A c \in Item : c.kind = "event" => c \in EventSet
  /\ \A c \in Item : c.kind \in {"watch", "stop"} => c \in CallSet
  /\ Nothing.kind = "none"
BY DEF EventSet, CallSet, Item, Nothing

\* What the handlers put in the broadcaster's queue.
LEMMA CallFacts ==
  ASSUME NEW op \in {"watch", "stop"}, NEW q \in Request
  PROVE  Call(op, q) \in Item /\ Call(op, q).kind = op /\ Call(op, q).req = q
BY DEF Call, CallSet, Item

\* What the informer reports.
LEMMA EventFacts ==
  ASSUME NEW d \in Deployment, NEW ready \in 0..MaxReady, NEW gone \in BOOLEAN
  PROVE  Event(d, ready, gone) \in EventSet
BY DEF Event, EventSet

-----------------------------------------------------------------------------
(***************************************************************************)
(* The inductive invariant: a request that waits has a deployment and is a *)
(* watcher; the broadcaster's queue holds at most one call of a request,   *)
(* which is blocked in it.                                                 *)
(***************************************************************************)

PC == {"idle", "watching", "getting", "selecting", "stopping", "waited", "done"}

\* Every call in the queue s is that of a request blocked in it, and no request
\* has two.
CallsBlocked(s, p) ==
  /\ \A i \in DOMAIN s :
       /\ s[i].kind = "watch" => p[s[i].req] = "watching"
       /\ s[i].kind = "stop" => p[s[i].req] = "stopping"
  /\ \A i, j \in DOMAIN s :
       /\ s[i].kind \in {"watch", "stop"}
       /\ s[j].kind \in {"watch", "stop"}
       /\ s[i].req = s[j].req
       => i = j

Waiting(q) ==
  /\ pc[q] \in {"getting", "selecting"} => q \in watchers
  /\ pc[q] \in {"watching", "getting", "selecting"} => depl[q] \in Deployment

WaitInv == CallsBlocked(incoming, pc) /\ \A q \in Request : Waiting(q)

\* The head of the queue leaves it.
LEMMA CallsTail ==
  ASSUME NEW s \in Seq(Item), s # << >>, NEW p, CallsBlocked(s, p)
  PROVE  CallsBlocked(Tail(s), p)
<1>1. \A i \in DOMAIN Tail(s) : i + 1 \in DOMAIN s /\ Tail(s)[i] = s[i + 1] /\ i \in Nat
  BY HeadTail
<1>. QED BY <1>1 DEF CallsBlocked

\* The request whose call was the head is no longer blocked.
LEMMA CallsServed ==
  ASSUME NEW s \in Seq(Item), s # << >>, NEW p \in [Request -> PC], CallsBlocked(s, p),
         Head(s).kind \in {"watch", "stop"}, NEW x
  PROVE  CallsBlocked(Tail(s), [p EXCEPT ![Head(s).req] = x])
<1>. DEFINE t == Tail(s)
            pp == [p EXCEPT ![Head(s).req] = x]
<1>1. \A i \in DOMAIN t : i + 1 \in DOMAIN s /\ t[i] = s[i + 1] /\ i \in Nat /\ i + 1 # 1
  BY HeadTail
<1>2. 1 \in DOMAIN s /\ Head(s) = s[1]
  BY HeadTail
<1>3. \A i \in DOMAIN t : t[i].kind \in {"watch", "stop"} =>
        t[i].req # Head(s).req /\ t[i].req \in Request
  <2>1. \A i \in DOMAIN t : t[i] \in Item
    BY HeadTail
  <2>2. \A i \in DOMAIN t : t[i].kind \in {"watch", "stop"} => t[i].req # Head(s).req
    BY <1>1, <1>2 DEF CallsBlocked
  <2>. QED BY <2>1, <2>2, ItemFacts
<1>4. CallsBlocked(t, p)
  BY CallsTail
<1>5. \A r \in Request : r # Head(s).req => pp[r] = p[r]
  OBVIOUS
<1>. HIDE DEF t, pp
<1>. QED BY <1>3, <1>4, <1>5 DEF CallsBlocked

\* A request that is not blocked in the queue moves.
LEMMA CallsOther ==
  ASSUME NEW s \in Seq(Item), NEW p \in [Request -> PC], CallsBlocked(s, p),
         NEW q \in Request, p[q] \notin {"watching", "stopping"}, NEW x
  PROVE  CallsBlocked(s, [p EXCEPT ![q] = x])
<1>. DEFINE pp == [p EXCEPT ![q] = x]
<1>1. \A i \in DOMAIN s : s[i].kind \in {"watch", "stop"} => s[i].req \in Request
  <2>1. \A i \in DOMAIN s : s[i] \in Item
    OBVIOUS
  <2>. QED BY <2>1, ItemFacts
<1>2. \A r \in Request : r # q => pp[r] = p[r]
  OBVIOUS
<1>. HIDE DEF pp
<1>. QED BY <1>1, <1>2 DEF CallsBlocked

\* bcaster.Action adds an event.
LEMMA CallsAction ==
  ASSUME NEW s \in Seq(Item), NEW p, CallsBlocked(s, p), NEW e \in EventSet
  PROVE  CallsBlocked(Append(s, e), p)
<1>1. e \in Item /\ e.kind = "event"
  BY ItemFacts DEF Item
<1>2. PICK n \in DOMAIN Append(s, e) :
        /\ Append(s, e)[n] = e
        /\ \A i \in DOMAIN Append(s, e) :
             i # n => i \in DOMAIN s /\ Append(s, e)[i] = s[i]
  BY <1>1, AppendFacts
<1>. QED BY <1>1, <1>2 DEF CallsBlocked

\* A request calls Watch or Stop and is blocked from then on.
LEMMA CallsCall ==
  ASSUME NEW s \in Seq(Item), NEW p \in [Request -> PC], CallsBlocked(s, p),
         NEW q \in Request, p[q] \notin {"watching", "stopping"},
         NEW op \in {"watch", "stop"}, NEW x,
         x = IF op = "watch" THEN "watching" ELSE "stopping"
  PROVE  CallsBlocked(Append(s, Call(op, q)), [p EXCEPT ![q] = x])
<1>. DEFINE c == Call(op, q)
            t == Append(s, c)
            pp == [p EXCEPT ![q] = x]
<1>1. c \in Item /\ c.kind = op /\ c.req = q
  BY CallFacts
<1>2. PICK n \in DOMAIN t :
        t[n] = c /\ \A i \in DOMAIN t : i # n => i \in DOMAIN s /\ t[i] = s[i]
  <2>. HIDE DEF c
  <2>. QED BY <1>1, AppendFacts
<1>3. CallsBlocked(s, pp) /\ pp[q] = x
  BY CallsOther
<1>4. \A i \in DOMAIN s : s[i].kind \in {"watch", "stop"} => s[i].req # q
  BY DEF CallsBlocked
<1>5. CallsBlocked(t, pp)
  <2>. HIDE DEF c, t, pp
  <2>1. \A i \in DOMAIN t : /\ t[i].kind = "watch" => pp[t[i].req] = "watching"
                            /\ t[i].kind = "stop" => pp[t[i].req] = "stopping"
    BY <1>1, <1>2, <1>3 DEF CallsBlocked
  <2>2. \A i, j \in DOMAIN t : /\ t[i].kind \in {"watch", "stop"}
                               /\ t[j].kind \in {"watch", "stop"}
                               /\ t[i].req = t[j].req
                               => i = j
    BY <1>1, <1>2, <1>3, <1>4 DEF CallsBlocked
  <2>. QED BY <2>1, <2>2 DEF CallsBlocked
<1>. QED BY <1>5

-----------------------------------------------------------------------------
(***************************************************************************)
(* Every step keeps the invariant.                                         *)
(***************************************************************************)

\* TypeOK in three parts, one for each of the groups of variables.
InformerOK ==
  /\ cluster \in [Deployment -> {Absent} \cup 0..MaxReady]
  /\ stream \in Seq(EventSet)
  /\ cache \in [Deployment -> {Absent} \cup 0..MaxReady]
  /\ notified \in Seq(EventSet)
  /\ updates \in 0..MaxUpdates

BroadcastOK ==
  /\ incoming \in Seq(Item)
  /\ current \in EventSet \cup {Nothing}
  /\ sending \subseteq watchers /\ watchers \subseteq Request
  /\ \A q \in watchers : pc[q] \in {"getting", "selecting", "stopping"}
  /\ slot \in [Request -> EventSet \cup {Nothing}]

HandlerOK ==
  /\ pc \in [Request -> PC]
  /\ depl \in [Request -> Deployment \cup {NoRoute}]
  /\ outcome \in [Request -> {"none", "error", "warm", "cold", "400", "404", "500", "502"}]

\* The three parts are TypeOK: what the informer, the broadcaster and the handlers
\* keep is shown for each of them alone.
LEMMA TypeParts == TypeOK <=> InformerOK /\ BroadcastOK /\ HandlerOK
BY DEF TypeOK, InformerOK, BroadcastOK, HandlerOK, Item, CallSet, PC

\* WakeupOnItsWay for one request.
Woken(q) ==
  pc[q] = "selecting" /\ CanServe(cache[depl[q]]) =>
    \/ ReadyIn(notified, depl[q])
    \/ ReadyIn(incoming, depl[q])
    \/ q \in sending /\ Wakes(current, depl[q])
    \/ Wakes(slot[q], depl[q])

WakeInv ==
  /\ InformerOK /\ BroadcastOK /\ HandlerOK
  /\ WaitInv
  /\ \A q \in Request : Woken(q)

\* The interceptor starts idle.
LEMMA InitWake == Init => WakeInv
<1>. SUFFICES ASSUME Init PROVE WakeInv
  OBVIOUS
<1>1. InformerOK
  BY BoundsAssumption DEF Init, InformerOK
<1>2. BroadcastOK
  BY DEF Init, BroadcastOK
<1>3. HandlerOK
  BY DEF Init, HandlerOK, PC
<1>4. WaitInv
  BY DEF Init, WaitInv, CallsBlocked, Waiting
<1>5. \A q \in Request : Woken(q)
  BY DEF Init, Woken
<1>. QED BY <1>1, <1>2, <1>3, <1>4, <1>5 DEF WakeInv

\* A deployment is updated or deleted: only the informer's stream learns of it.
LEMMA ClusterWake ==
  ASSUME WakeInv, NEW d \in Deployment,
         \/ \E ready \in 0..MaxReady : UpdateDeployment(d, ready)
         \/ DeleteDeployment(d)
  PROVE  WakeInv'
<1>1. InformerOK'
  <2>1. ASSUME NEW ready \in 0..MaxReady, UpdateDeployment(d, ready)
        PROVE  InformerOK'
    <3>1. Event(d, ready, FALSE) \in EventSet
      BY EventFacts
    <3>2. stream' \in Seq(EventSet)
      BY <2>1, <3>1, AppendFacts DEF UpdateDeployment, WakeInv, InformerOK
    <3>3. cluster' \in [Deployment -> {Absent} \cup 0..MaxReady]
      BY <2>1 DEF UpdateDeployment, WakeInv, InformerOK
    <3>4. updates' \in 0..MaxUpdates
      BY <2>1, BoundsAssumption DEF UpdateDeployment, WakeInv, InformerOK
    <3>. QED BY <2>1, <3>2, <3>3, <3>4 DEF UpdateDeployment, WakeInv, InformerOK
  <2>2. ASSUME DeleteDeployment(d)
        PROVE  InformerOK'
    <3>1. cluster[d] \in 0..MaxReady
      BY <2>2 DEF DeleteDeployment, WakeInv, InformerOK
    <3>2. Event(d, cluster[d], TRUE) \in EventSet
      BY <3>1, EventFacts
    <3>3. stream' \in Seq(EventSet)
      BY <2>2, <3>2, AppendFacts DEF DeleteDeployment, WakeInv, InformerOK
    <3>4. cluster' \in [Deployment -> {Absent} \cup 0..MaxReady]
      BY <2>2 DEF DeleteDeployment, WakeInv, InformerOK
    <3>5. updates' \in 0..MaxUpdates
      BY <2>2, BoundsAssumption DEF DeleteDeployment, WakeInv, InformerOK
    <3>. QED BY <2>2, <3>3, <3>4, <3>5 DEF DeleteDeployment, WakeInv, InformerOK
  <2>. QED BY <2>1, <2>2
<1>2. UNCHANGED <<cache, notified, incoming, current, sending, watchers, slot, pc, depl, outcome>>
  BY DEF UpdateDeployment, DeleteDeployment, broadcastVars, handlerVars
<1>3. BroadcastOK' /\ HandlerOK'
  BY <1>2 DEF WakeInv, BroadcastOK, HandlerOK
<1>4. WaitInv'
  BY <1>2 DEF WakeInv, WaitInv, Waiting
<1>5. \A q \in Request : Woken(q)'
  BY <1>2 DEF WakeInv, Woken
<1>. QED BY <1>1, <1>3, <1>4, <1>5 DEF WakeInv

\* The informer's store changes together with the line of events for the handlers.
LEMMA ObserveWake == ASSUME WakeInv, ObserveChange PROVE WakeInv'
<1>. DEFINE e == Head(stream)
<1>0. UNCHANGED <<cluster, updates, incoming, current, sending, watchers, slot, pc, depl, outcome>>
  BY DEF ObserveChange, broadcastVars, handlerVars
<1>1. /\ e \in EventSet /\ e.kind = "event" /\ e.depl \in Deployment /\ e.ready \in 0..MaxReady
      /\ e.gone \in BOOLEAN /\ Tail(stream) \in Seq(EventSet)
  BY HeadTail, ItemFacts DEF WakeInv, InformerOK, ObserveChange
<1>2. /\ cache' = [cache EXCEPT ![e.depl] = IF e.gone THEN Absent ELSE e.ready]
      /\ notified' = Append(notified, e)
      /\ stream' = Tail(stream)
  BY DEF ObserveChange
<1>. HIDE DEF e
<1>3. notified \in Seq(EventSet) /\ notified' \in Seq(EventSet)
  BY <1>1, <1>2, AppendFacts DEF WakeInv, InformerOK
<1>4. InformerOK'
  BY <1>0, <1>1, <1>2, <1>3 DEF WakeInv, InformerOK
<1>5. BroadcastOK' /\ HandlerOK'
  BY <1>0 DEF WakeInv, BroadcastOK, HandlerOK
<1>6. WaitInv'
  BY <1>0 DEF WakeInv, WaitInv, Waiting
<1>7. ASSUME NEW q \in Request PROVE Woken(q)'
  <2>1. ReadyIn(notified', depl[q]) <=> ReadyIn(notified, depl[q]) \/ Wakes(e, depl[q])
    BY <1>1, <1>2, <1>3, ReadyInAppend
  <2>2. CASE e.depl = depl[q]
    <3>1. CanServe(cache'[depl[q]]) => CanServe(e.ready)
      BY <1>1, <1>2, <2>2 DEF WakeInv, InformerOK, CanServe, Absent
    <3>. QED BY <1>0, <1>1, <2>1, <2>2, <3>1 DEF Woken, Wakes
  <2>3. CASE e.depl # depl[q] /\ pc[q] = "selecting"
    <3>1. cache'[depl[q]] = cache[depl[q]]
      BY <1>1, <1>2, <2>3 DEF WakeInv, WaitInv, Waiting, InformerOK
    <3>. QED BY <1>0, <2>1, <3>1 DEF WakeInv, Woken
  <2>4. CASE pc[q] # "selecting"
    BY <1>0, <2>4 DEF Woken
  <2>. QED BY <2>2, <2>3, <2>4
<1>. QED BY <1>4, <1>5, <1>6, <1>7 DEF WakeInv

\* An event handler passes an event on to the broadcaster.
LEMMA HandleWake == ASSUME WakeInv, HandleEvent PROVE WakeInv'
<1>. DEFINE e == Head(notified)
<1>0. UNCHANGED <<cluster, stream, cache, updates, current, sending, watchers, slot,
                  pc, depl, outcome>>
  BY DEF HandleEvent, handlerVars
<1>1. e \in EventSet /\ e \in Item /\ Tail(notified) \in Seq(EventSet)
  BY HeadTail DEF WakeInv, InformerOK, HandleEvent, Item
<1>2. incoming' = Append(incoming, e) /\ notified' = Tail(notified) /\ notified # << >>
  BY DEF HandleEvent
<1>3. notified \in Seq(EventSet) /\ incoming \in Seq(Item) /\ incoming' \in Seq(Item)
  BY <1>1, <1>2, AppendFacts DEF WakeInv, InformerOK, BroadcastOK
<1>4. InformerOK'
  BY <1>0, <1>1, <1>2 DEF WakeInv, InformerOK
<1>5. BroadcastOK' /\ HandlerOK'
  BY <1>0, <1>3 DEF WakeInv, BroadcastOK, HandlerOK
<1>6. WaitInv'
  <2>1. CallsBlocked(incoming', pc)
    BY <1>1, <1>2, <1>3, CallsAction DEF WakeInv, WaitInv
  <2>. QED BY <1>0, <2>1 DEF WakeInv, WaitInv, Waiting
<1>7. ASSUME NEW q \in Request PROVE Woken(q)'
  <2>1. ReadyIn(notified, depl[q]) <=> Wakes(e, depl[q]) \/ ReadyIn(notified', depl[q])
    BY <1>2, <1>3, ReadyInTail
  <2>2. ReadyIn(incoming', depl[q]) <=> ReadyIn(incoming, depl[q]) \/ Wakes(e, depl[q])
    BY <1>1, <1>2, <1>3, ReadyInAppend
  <2>. QED BY <1>0, <2>1, <2>2 DEF WakeInv, Woken
<1>. QED BY <1>4, <1>5, <1>6, <1>7 DEF WakeInv

\* What taking an item from the broadcaster's queue means.
LEMMA NextIncomingFacts ==
  ASSUME WakeInv, NEW kind, NextIncoming(kind)
  PROVE  /\ sending = {}
         /\ incoming \in Seq(Item) /\ incoming # << >>
         /\ incoming' = Tail(incoming) /\ incoming' \in Seq(Item)
         /\ Head(incoming) \in Item /\ Head(incoming).kind = kind
         /\ \A d : ReadyIn(incoming, d) <=> Wakes(Head(incoming), d) \/ ReadyIn(incoming', d)
<1>1. incoming \in Seq(Item) /\ incoming # << >> /\ incoming' = Tail(incoming)
  BY DEF WakeInv, BroadcastOK, NextIncoming
<1>2. Head(incoming) \in Item /\ Tail(incoming) \in Seq(Item)
  BY <1>1, HeadTail
<1>3. \A d : ReadyIn(incoming, d) <=> Wakes(Head(incoming), d) \/ ReadyIn(Tail(incoming), d)
  BY <1>1, ReadyInTail
<1>. QED BY <1>1, <1>2, <1>3 DEF NextIncoming

\* The broadcaster takes an event: it will send it to every request that waits.
LEMMA TakeWake == ASSUME WakeInv, TakeEvent PROVE WakeInv'
<1>0. /\ UNCHANGED <<cluster, stream, cache, notified, updates, watchers, slot, pc, depl, outcome>>
      /\ current' = Head(incoming) /\ sending' = watchers /\ NextIncoming("event")
  BY DEF TakeEvent, informerVars, handlerVars
<1>1. /\ sending = {} /\ incoming' \in Seq(Item) /\ Head(incoming) \in Item
      /\ Head(incoming).kind = "event"
      /\ incoming \in Seq(Item) /\ incoming # << >> /\ incoming' = Tail(incoming)
      /\ \A d : ReadyIn(incoming, d) <=> Wakes(Head(incoming), d) \/ ReadyIn(incoming', d)
  BY <1>0, NextIncomingFacts
<1>2. current' \in EventSet
  BY <1>0, <1>1, ItemFacts
<1>3. InformerOK' /\ HandlerOK'
  BY <1>0 DEF WakeInv, InformerOK, HandlerOK
<1>4. BroadcastOK'
  BY <1>0, <1>1, <1>2 DEF WakeInv, BroadcastOK
<1>5. WaitInv'
  <2>1. CallsBlocked(incoming', pc)
    BY <1>1, CallsTail DEF WakeInv, WaitInv
  <2>. QED BY <1>0, <2>1 DEF WakeInv, WaitInv, Waiting
<1>6. ASSUME NEW q \in Request PROVE Woken(q)'
  <2>1. pc[q] = "selecting" => q \in watchers
    BY DEF WakeInv, WaitInv, Waiting
  <2>2. Woken(q)
    BY DEF WakeInv
  <2>. QED BY <1>0, <1>1, <2>1, <2>2 DEF Woken
<1>. QED BY <1>3, <1>4, <1>5, <1>6 DEF WakeInv

\* An event about its deployment that is sent to a request arrives in its filter.
LEMMA SendWake ==
  ASSUME WakeInv, NEW q \in Request, SendTo(q)
  PROVE  WakeInv'
<1>0. /\ UNCHANGED <<cluster, stream, cache, notified, updates, incoming, current, watchers,
                     pc, depl, outcome>>
      /\ slot[q] = Nothing /\ sending' = sending \ {q}
      /\ slot' = IF current.depl = depl[q] THEN [slot EXCEPT ![q] = current] ELSE slot
  BY DEF SendTo, informerVars, handlerVars
<1>1. InformerOK' /\ HandlerOK'
  BY <1>0 DEF WakeInv, InformerOK, HandlerOK
<1>2. BroadcastOK'
  <2>1. slot' \in [Request -> EventSet \cup {Nothing}]
    BY <1>0 DEF WakeInv, BroadcastOK
  <2>. QED BY <1>0, <2>1 DEF WakeInv, BroadcastOK
<1>3. WaitInv'
  BY <1>0 DEF WakeInv, WaitInv, Waiting
<1>4. ASSUME NEW r \in Request PROVE Woken(r)'
  <2>1. CASE r # q
    <3>1. slot'[r] = slot[r] /\ (r \in sending' <=> r \in sending)
      BY <1>0, <2>1 DEF WakeInv, BroadcastOK
    <3>. QED BY <1>0, <3>1 DEF WakeInv, Woken
  <2>2. CASE r = q
    <3>1. ~Wakes(slot[q], depl[q])
      BY <1>0, ItemFacts DEF Wakes
    <3>2. Wakes(current, depl[q]) => Wakes(slot'[q], depl[q])
      BY <1>0 DEF Wakes, WakeInv, BroadcastOK
    <3>3. Woken(q)
      BY DEF WakeInv
    <3>. QED BY <1>0, <2>2, <3>1, <3>2, <3>3 DEF Woken
  <2>. QED BY <2>1, <2>2
<1>. QED BY <1>1, <1>2, <1>3, <1>4 DEF WakeInv

\* A request that has been stopped needs no event.
LEMMA SkipWake ==
  ASSUME WakeInv, NEW q \in Request, SkipStopped(q)
  PROVE  WakeInv'
<1>0. /\ UNCHANGED <<cluster, stream, cache, notified, updates, incoming, current, watchers,
                     slot, pc, depl, outcome>>
      /\ sending' = sending \ {q} /\ pc[q] = "stopping"
  BY DEF SkipStopped, informerVars, handlerVars
<1>1. InformerOK' /\ HandlerOK' /\ BroadcastOK'
  BY <1>0 DEF WakeInv, InformerOK, HandlerOK, BroadcastOK
<1>2. WaitInv'
  BY <1>0 DEF WakeInv, WaitInv, Waiting
<1>3. \A r \in Request : Woken(r)'
  BY <1>0 DEF WakeInv, Woken
<1>. QED BY <1>1, <1>2, <1>3 DEF WakeInv

\* The broadcaster serves a call of Watch or of Stop.
LEMMA ServeWake == ASSUME WakeInv, AddWatcher \/ RemoveWatcher PROVE WakeInv'
<1>. DEFINE q == Head(incoming).req
            to == IF Head(incoming).kind = "watch" THEN "getting" ELSE "waited"
<1>0. /\ UNCHANGED <<cluster, stream, cache, notified, updates, current, sending, slot, depl,
                     outcome>>
      /\ NextIncoming("watch") \/ NextIncoming("stop")
      /\ pc' = [pc EXCEPT ![q] = to]
      /\ watchers' = IF Head(incoming).kind = "watch" THEN watchers \cup {q}
                     ELSE watchers \ {q}
  BY DEF AddWatcher, RemoveWatcher, NextIncoming, informerVars
<1>1. /\ sending = {} /\ incoming' \in Seq(Item) /\ Head(incoming) \in Item
      /\ Head(incoming).kind \in {"watch", "stop"}
      /\ incoming \in Seq(Item) /\ incoming # << >> /\ incoming' = Tail(incoming)
      /\ \A d : ReadyIn(incoming, d) <=> Wakes(Head(incoming), d) \/ ReadyIn(incoming', d)
  BY <1>0, NextIncomingFacts
<1>2. q \in Request /\ pc \in [Request -> PC] /\ to \in PC
  BY <1>1, ItemFacts DEF WakeInv, HandlerOK, PC
<1>3. Head(incoming).kind = "watch" => pc[q] = "watching"
  <2>1. 1 \in DOMAIN incoming /\ Head(incoming) = incoming[1]
    BY <1>1, HeadTail
  <2>. QED BY <2>1 DEF WakeInv, WaitInv, CallsBlocked
<1>4. InformerOK' /\ HandlerOK'
  BY <1>0, <1>2 DEF WakeInv, InformerOK, HandlerOK
<1>5. BroadcastOK'
  <2>1. \A r \in watchers' : pc'[r] \in {"getting", "selecting", "stopping"}
    <3>1. \A r \in watchers : r # q => pc'[r] = pc[r] \/ r \notin Request
      BY <1>0, <1>2
    <3>2. watchers \subseteq Request
      BY DEF WakeInv, BroadcastOK
    <3>. QED BY <1>0, <1>1, <1>2, <3>1, <3>2 DEF WakeInv, BroadcastOK
  <2>. QED BY <1>0, <1>1, <1>2, <2>1 DEF WakeInv, BroadcastOK
<1>6. WaitInv'
  <2>1. CallsBlocked(incoming', pc')
    BY <1>0, <1>1, <1>2, CallsServed DEF WakeInv, WaitInv
  <2>2. ASSUME NEW r \in Request PROVE Waiting(r)'
    <3>1. CASE r = q
      BY <1>0, <1>1, <1>2, <1>3, <3>1 DEF WakeInv, WaitInv, Waiting
    <3>2. CASE r # q
      BY <1>0, <1>2, <3>2 DEF WakeInv, WaitInv, Waiting
    <3>. QED BY <3>1, <3>2
  <2>. QED BY <2>1, <2>2 DEF WaitInv
<1>7. ASSUME NEW r \in Request PROVE Woken(r)'
  <2>1. ~Wakes(Head(incoming), depl[r])
    BY <1>1 DEF Wakes
  <2>2. pc'[r] = "selecting" => pc[r] = "selecting"
    BY <1>0, <1>1, <1>2
  <2>. QED BY <1>0, <1>1, <2>1, <2>2 DEF WakeInv, Woken
<1>. QED BY <1>4, <1>5, <1>6, <1>7 DEF WakeInv

\* The handler answers: the request is not, or no longer, known to the broadcaster.
LEMMA ReplyWake ==
  ASSUME WakeInv, NEW q \in Request,
         \/ \E status \in {"400", "404"} : Refuse(q, status)
         \/ \E urlOK \in BOOLEAN : FinishHandler(q, urlOK)
  PROVE  WakeInv'
<1>0. /\ UNCHANGED <<cluster, stream, cache, notified, updates, incoming, current, sending,
                     watchers, slot>>
      /\ pc[q] \in {"idle", "waited"}
      /\ pc' = [pc EXCEPT ![q] = "done"] /\ depl' = [depl EXCEPT ![q] = NoRoute]
  BY DEF Refuse, FinishHandler, Reply, informerVars, broadcastVars
<1>1. outcome' \in [Request -> {"none", "error", "warm", "cold", "400", "404", "500", "502"}]
  <2>1. outcome[q] \in {"none", "error", "warm", "cold", "400", "404", "500", "502"}
    BY DEF WakeInv, HandlerOK
  <2>2. PICK x \in {"none", "error", "warm", "cold", "400", "404", "500", "502"} :
          outcome' = [outcome EXCEPT ![q] = x]
    BY <2>1 DEF Refuse, FinishHandler, Reply
  <2>. QED BY <2>2 DEF WakeInv, HandlerOK
<1>2. InformerOK' /\ HandlerOK'
  BY <1>0, <1>1 DEF WakeInv, InformerOK, HandlerOK, PC
<1>3. q \notin watchers
  BY <1>0 DEF WakeInv, BroadcastOK
<1>4. BroadcastOK'
  BY <1>0, <1>3 DEF WakeInv, BroadcastOK, HandlerOK
<1>5. WaitInv'
  <2>1. CallsBlocked(incoming, pc')
    BY <1>0, CallsOther DEF WakeInv, WaitInv, BroadcastOK, HandlerOK
  <2>. QED BY <1>0, <2>1 DEF WakeInv, WaitInv, Waiting, HandlerOK
<1>6. ASSUME NEW r \in Request PROVE Woken(r)'
  BY <1>0 DEF WakeInv, Woken, HandlerOK
<1>. QED BY <1>2, <1>4, <1>5, <1>6 DEF WakeInv

\* deployCache.Watch is called: the request is blocked in the broadcaster's queue.
LEMMA CallWatchWake ==
  ASSUME WakeInv, NEW q \in Request, NEW d \in Deployment, CallWatch(q, d)
  PROVE  WakeInv'
<1>0. /\ UNCHANGED <<cluster, stream, cache, notified, updates, current, sending, watchers,
                     slot, outcome>>
      /\ pc[q] = "idle" /\ pc' = [pc EXCEPT ![q] = "watching"]
      /\ depl' = [depl EXCEPT ![q] = d]
      /\ incoming' = Append(incoming, Call("watch", q))
  BY DEF CallWatch, informerVars
<1>1. Call("watch", q) \in Item /\ incoming \in Seq(Item) /\ pc \in [Request -> PC]
  BY CallFacts DEF WakeInv, BroadcastOK, HandlerOK
<1>2. incoming' \in Seq(Item) /\ \A x : ReadyIn(incoming, x) => ReadyIn(incoming', x)
  BY <1>0, <1>1, AppendFacts, ReadyInAppend
<1>3. InformerOK' /\ HandlerOK'
  BY <1>0 DEF WakeInv, InformerOK, HandlerOK, PC
<1>4. BroadcastOK'
  BY <1>0, <1>1, <1>2 DEF WakeInv, BroadcastOK
<1>5. WaitInv'
  <2>1. CallsBlocked(incoming', pc')
    BY <1>0, <1>1, CallsCall DEF WakeInv, WaitInv
  <2>. QED BY <1>0, <1>1, <2>1 DEF WakeInv, WaitInv, Waiting, HandlerOK
<1>6. ASSUME NEW r \in Request PROVE Woken(r)'
  <2>1. pc'[r] = "selecting" => r # q /\ pc[r] = "selecting" /\ depl'[r] = depl[r]
    BY <1>0, <1>1 DEF WakeInv, HandlerOK
  <2>. QED BY <1>0, <1>2, <2>1 DEF WakeInv, Woken
<1>. QED BY <1>3, <1>4, <1>5, <1>6 DEF WakeInv

\* The wait ends: the request is blocked in the queue until it is no watcher any more.
LEMMA LeaveWake ==
  ASSUME WakeInv, NEW q \in Request, pc[q] \in {"getting", "selecting"},
         NEW result \in {"error", "warm", "cold"}, LeaveWait(q, result),
         UNCHANGED <<cluster, stream, cache, notified, updates, current, sending, watchers, depl>>,
         slot' \in {slot, [slot EXCEPT ![q] = Nothing]}
  PROVE  WakeInv'
<1>0. /\ outcome' = [outcome EXCEPT ![q] = result]
      /\ pc' = [pc EXCEPT ![q] = "stopping"]
      /\ incoming' = Append(incoming, Call("stop", q))
  BY DEF LeaveWait
<1>1. Call("stop", q) \in Item /\ incoming \in Seq(Item) /\ pc \in [Request -> PC]
  BY CallFacts DEF WakeInv, BroadcastOK, HandlerOK
<1>2. incoming' \in Seq(Item) /\ \A x : ReadyIn(incoming, x) => ReadyIn(incoming', x)
  BY <1>0, <1>1, AppendFacts, ReadyInAppend
<1>3. InformerOK' /\ HandlerOK'
  BY <1>0 DEF WakeInv, InformerOK, HandlerOK, PC
<1>4. BroadcastOK'
  <2>1. slot' \in [Request -> EventSet \cup {Nothing}]
    BY DEF WakeInv, BroadcastOK
  <2>. QED BY <1>0, <1>1, <1>2, <2>1 DEF WakeInv, BroadcastOK
<1>5. WaitInv'
  <2>1. CallsBlocked(incoming', pc')
    BY <1>0, <1>1, CallsCall DEF WakeInv, WaitInv
  <2>. QED BY <1>0, <1>1, <2>1 DEF WakeInv, WaitInv, Waiting
<1>6. ASSUME NEW r \in Request PROVE Woken(r)'
  <2>1. pc'[r] = "selecting" => pc[r] = "selecting" /\ slot'[r] = slot[r]
    BY <1>0, <1>1 DEF WakeInv, BroadcastOK
  <2>. QED BY <1>2, <2>1 DEF WakeInv, Woken
<1>. QED BY <1>3, <1>4, <1>5, <1>6 DEF WakeInv

\* deployCache.Get: a request goes to sleep only if the store has no ready replica.
LEMMA GetWake ==
  ASSUME WakeInv, NEW q \in Request, GetDeployment(q)
  PROVE  WakeInv'
<1>0. /\ UNCHANGED <<cluster, stream, cache, notified, updates, current, sending, watchers,
                     slot, depl>>
      /\ pc[q] = "getting"
  BY DEF GetDeployment, informerVars
<1>1. CASE LeaveWait(q, "error") \/ LeaveWait(q, "warm")
  BY <1>0, <1>1, LeaveWake
<1>2. CASE /\ cache[depl[q]] = 0
           /\ pc' = [pc EXCEPT ![q] = "selecting"]
           /\ UNCHANGED <<incoming, outcome>>
  <2>1. InformerOK' /\ HandlerOK'
    BY <1>0, <1>2 DEF WakeInv, InformerOK, HandlerOK, PC
  <2>2. BroadcastOK'
    BY <1>0, <1>2 DEF WakeInv, BroadcastOK, HandlerOK
  <2>3. WaitInv'
    <3>1. CallsBlocked(incoming, pc')
      BY <1>0, <1>2, CallsOther DEF WakeInv, WaitInv, BroadcastOK, HandlerOK
    <3>. QED BY <1>0, <1>2, <3>1 DEF WakeInv, WaitInv, Waiting, HandlerOK
  <2>4. ASSUME NEW r \in Request PROVE Woken(r)'
    <3>1. CASE r = q
      BY <1>0, <1>2, <3>1 DEF Woken, CanServe
    <3>2. CASE r # q
      <4>1. pc'[r] = pc[r]
        BY <1>2, <3>2 DEF WakeInv, HandlerOK
      <4>. QED BY <1>0, <1>2, <4>1 DEF WakeInv, Woken
    <3>. QED BY <3>1, <3>2
  <2>. QED BY <2>1, <2>2, <2>3, <2>4 DEF WakeInv
<1>. QED BY <1>1, <1>2 DEF GetDeployment

\* An event ends the wait, or was not the one that wakes.
LEMMA ReceiveWake ==
  ASSUME WakeInv, NEW q \in Request, ReceiveEvent(q)
  PROVE  WakeInv'
<1>0. /\ UNCHANGED <<cluster, stream, cache, notified, updates, current, sending, watchers, depl>>
      /\ pc[q] = "selecting" /\ slot' = [slot EXCEPT ![q] = Nothing]
  BY DEF ReceiveEvent, informerVars
<1>1. CASE LeaveWait(q, "cold")
  BY <1>0, <1>1, LeaveWake
<1>2. CASE ~CanServe(slot[q].ready) /\ UNCHANGED <<incoming, pc, outcome>>
  <2>1. InformerOK' /\ HandlerOK'
    BY <1>0, <1>2 DEF WakeInv, InformerOK, HandlerOK
  <2>2. BroadcastOK'
    BY <1>0, <1>2 DEF WakeInv, BroadcastOK
  <2>3. WaitInv'
    BY <1>0, <1>2 DEF WakeInv, WaitInv, Waiting
  <2>4. ASSUME NEW r \in Request PROVE Woken(r)'
    <3>1. ~Wakes(slot[q], depl[q])
      BY <1>2 DEF Wakes
    <3>2. r # q => slot'[r] = slot[r]
      BY <1>0 DEF WakeInv, BroadcastOK
    <3>. QED BY <1>0, <1>2, <3>1, <3>2 DEF WakeInv, Woken
  <2>. QED BY <2>1, <2>2, <2>3, <2>4 DEF WakeInv
<1>. QED BY <1>1, <1>2 DEF ReceiveEvent

\* The timeout, or the client is gone.
LEMMA ContextWake ==
  ASSUME WakeInv, NEW q \in Request, ContextDone(q)
  PROVE  WakeInv'
BY LeaveWake DEF ContextDone, informerVars

\* Every step keeps the invariant.
LEMMA WakeStep == WakeInv /\ [Next]_vars => WakeInv'
<1>. SUFFICES ASSUME WakeInv, [Next]_vars PROVE WakeInv'
  OBVIOUS
<1>1. CASE UNCHANGED vars
  <2>1. InformerOK' /\ BroadcastOK' /\ HandlerOK'
    BY <1>1 DEF vars, WakeInv, InformerOK, BroadcastOK, HandlerOK
  <2>2. WaitInv' /\ \A q \in Request : Woken(q)'
    BY <1>1 DEF vars, WakeInv, WaitInv, Waiting, Woken
  <2>. QED BY <2>1, <2>2 DEF WakeInv
<1>2. CASE Broadcast
  BY <1>2, TakeWake, SendWake, SkipWake, ServeWake DEF Broadcast
<1>3. ASSUME NEW q \in Request, Handler(q) PROVE WakeInv'
  BY <1>3, GetWake, ReceiveWake, ContextWake, ReplyWake DEF Handler
<1>. QED
  BY <1>1, <1>2, <1>3, ClusterWake, ObserveWake, HandleWake, ReplyWake, CallWatchWake
     DEF Next

\* The invariant holds throughout.
LEMMA WakeInvHolds == Spec => []WakeInv
BY InitWake, WakeStep, PTL DEF Spec

\* TypeOK of the informer, the broadcaster and the handlers; in particular only
\* requests inside the wait function are watchers.
THEOREM ForwardWaitTypeCorrect == Spec => []TypeOK
<1>1. WakeInv => TypeOK
  BY TypeParts DEF WakeInv
<1>. QED BY <1>1, WakeInvHolds, PTL

\* No wakeup is lost: however the informer, the broadcaster, the filters and the
\* handlers interleave, a request that sleeps in the select of newDeployReplicasForwardWaitFunc
\* while the store has a ready replica has an event on its way that wakes it.
THEOREM NoLostWakeup == Spec => []WakeupOnItsWay
<1>1. WakeInv => WakeupOnItsWay
  BY DEF WakeInv, Woken, WakeupOnItsWay
<1>. QED BY <1>1, WakeInvHolds, PTL
=============================================================================
