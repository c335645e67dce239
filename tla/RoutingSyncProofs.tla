-------------------------- MODULE RoutingSyncProofs --------------------------
(***************************************************************************)
(* The routing table is always one that the ConfigMap had, for any number  *)
(* of versions, pings, events and restarts.                                *)
(***************************************************************************)
EXTENDS RoutingSync, TLAPS

\* The versions that the ConfigMap has had and that can be decoded.
Served == {v \in Version : v <= cm /\ Tables[v] # Undecodable}

\* What is on its way to the table, in an event or in a ping, is no newer than the
\* ConfigMap; a ping has decoded what it holds.
RoutingInv ==
  /\ TypeOK
  /\ \A i \in 1..Len(events) : events[i] <= cm
  /\ \A p \in Ping : pingpc[p] = "fetched" => fetched[p] \in Served

\* The first state.
LEMMA InitRouting == Init => RoutingInv
<1>. SUFFICES ASSUME Init PROVE RoutingInv
  OBVIOUS
<1>1. Len(Tables) \in Nat \ {0} /\ 1 \in Version
  BY TablesAssumption DEF Version
<1>2. events \in Seq(Version) /\ Len(events) = 0
  BY DEF Init
<1>3. TypeOK
  BY <1>1, <1>2, BoundsAssumption DEF Init, TypeOK, None
<1>. QED BY <1>2, <1>3 DEF Init, RoutingInv

\* The ConfigMap gets its next version: what was served before still was.
LEMMA WriteRouting ==
  ASSUME RoutingInv, WriteConfigMap
  PROVE  RoutingInv'
<1>1. /\ cm' = cm + 1 /\ cm' \in Version /\ cm \in Version
      /\ UNCHANGED <<cache, events, process, loop, table, pingpc, fetched, restarts>>
  BY TablesAssumption DEF WriteConfigMap, RoutingInv, TypeOK, Version
<1>2. \A v \in Int : v <= cm => v <= cm'
  BY <1>1 DEF Version
<1>3. Served \subseteq Served'
  BY <1>1, <1>2 DEF Served, Version
<1>4. cache' <= cm'
  BY <1>1, <1>2 DEF RoutingInv, TypeOK, None, Version
<1>5. table' \in {None} \cup Served'
  BY <1>1, <1>3 DEF RoutingInv, TypeOK, Served
<1>6. TypeOK'
  BY <1>1, <1>4, <1>5 DEF RoutingInv, TypeOK, Served
<1>7. \A i \in 1..Len(events') : events'[i] <= cm'
  <2>1. \A i \in 1..Len(events) : events[i] \in Int
    BY DEF RoutingInv, TypeOK, Version
  <2>. QED BY <1>1, <1>2, <2>1 DEF RoutingInv
<1>. QED BY <1>1, <1>3, <1>6, <1>7 DEF RoutingInv

\* An event is queued: Observe, Resync.
LEMMA QueueRouting ==
  ASSUME RoutingInv, NEW v \in Version, v <= cm, Len(events) <= Room,
         events' = Append(events, v), cache' \in {cache, v},
         UNCHANGED <<cm, process, loop, table, pingpc, fetched, restarts>>
  PROVE  RoutingInv'
<1>1. events \in Seq(Version) /\ Len(events) \in Nat
  BY DEF RoutingInv, TypeOK
<1>2. events' \in Seq(Version) /\ Len(events') = Len(events) + 1
  BY <1>1
<1>3. Len(events') <= Room + 1
  BY <1>1, <1>2, BoundsAssumption
<1>4. \A i \in 1..Len(events') : events'[i] <= cm'
  BY <1>1, <1>2 DEF RoutingInv
<1>5. TypeOK'
  BY <1>2, <1>3 DEF RoutingInv, TypeOK
<1>. QED BY <1>4, <1>5 DEF RoutingInv, Served

\* The updater takes an event.
LEMMA ApplyRouting ==
  ASSUME RoutingInv, ApplyEvent
  PROVE  RoutingInv'
<1>1. events \in Seq(Version) /\ events # <<>> /\ Len(events) \in Nat \ {0}
  BY DEF ApplyEvent, RoutingInv, TypeOK
<1>2. /\ events' \in Seq(Version) /\ Len(events') = Len(events) - 1
      /\ Head(events) = events[1] /\ Head(events) \in Version
      /\ \A i \in 1..Len(events') : events'[i] = events[i + 1]
  BY <1>1 DEF ApplyEvent
<1>3. Head(events) <= cm
  BY <1>1, <1>2 DEF RoutingInv
<1>4. \A i \in 1..Len(events') : events'[i] <= cm
  <2>1. \A i \in 1..Len(events') : i + 1 \in 1..Len(events)
    BY <1>1, <1>2
  <2>. QED BY <1>2, <2>1 DEF RoutingInv
<1>5. Len(events') <= Room + 1
  BY <1>1, <1>2, BoundsAssumption DEF RoutingInv, TypeOK
<1>6. UNCHANGED <<cm, cache, process, pingpc, fetched, restarts>> /\ loop' \in BOOLEAN
  BY DEF ApplyEvent, RoutingInv, TypeOK
<1>7. /\ table' \in {None} \cup Served
      /\ process' = "running" => table' # None
  <2>1. Head(events) # None
    BY <1>2 DEF Version, None
  <2>. QED BY <1>2, <1>3, <2>1 DEF ApplyEvent, Decodes, RoutingInv, TypeOK, Served
<1>8. TypeOK'
  BY <1>2, <1>5, <1>6, <1>7 DEF RoutingInv, TypeOK, Served
<1>. QED BY <1>4, <1>6, <1>8 DEF RoutingInv, Served

\* GET /routing_ping.
LEMMA PingRouting ==
  ASSUME RoutingInv, NEW p \in Ping, PingFetch(p) \/ PingReplace(p)
  PROVE  RoutingInv'
<1>1. UNCHANGED <<cm, cache, events, process, loop, restarts>>
  BY DEF PingFetch, PingReplace
<1>2. Served' = Served
  BY <1>1 DEF Served
<1>3. CASE PingFetch(p)
  <2>1. cm \in Served
    BY <1>3 DEF PingFetch, Decodes, RoutingInv, TypeOK, Served, Version
  <2>2. TypeOK'
    BY <1>1, <1>3 DEF PingFetch, RoutingInv, TypeOK
  <2>. QED BY <1>1, <1>2, <1>3, <2>1, <2>2 DEF PingFetch, RoutingInv, TypeOK
<1>4. CASE PingReplace(p)
  <2>1. fetched[p] \in Served /\ fetched[p] # None
    BY <1>4 DEF PingReplace, RoutingInv, Served, Version, None
  <2>2. TypeOK'
    BY <1>1, <1>4, <2>1 DEF PingReplace, RoutingInv, TypeOK, Served
  <2>. QED BY <1>1, <1>2, <1>4, <2>2 DEF PingReplace, RoutingInv, TypeOK
<1>. QED BY <1>3, <1>4

\* The process starts, stops and starts again.
LEMMA ProcessRouting ==
  ASSUME RoutingInv,
         FetchInitialTable \/ Stop \/ LoopStops \/ UpdaterReturns \/ Restart
  PROVE  RoutingInv'
<1>1. CASE FetchInitialTable
  <2>1. UNCHANGED <<cm, cache, events, loop, pingpc, fetched, restarts>>
    BY <1>1 DEF FetchInitialTable
  <2>2. cm # None /\ (Decodes(cm) => cm \in Served)
    BY DEF RoutingInv, TypeOK, Served, Version, None, Decodes
  <2>3. TypeOK'
    BY <1>1, <2>1, <2>2 DEF FetchInitialTable, RoutingInv, TypeOK, Served
  <2>. QED BY <2>1, <2>3 DEF RoutingInv, Served
<1>2. CASE Stop \/ LoopStops \/ UpdaterReturns
  BY <1>2 DEF Stop, LoopStops, UpdaterReturns, RoutingInv, TypeOK, Served
<1>3. CASE Restart
  <2>1. events' \in Seq(Version) /\ Len(events') = 0
    BY <1>3 DEF Restart
  <2>2. restarts' \in 0..MaxRestarts
    BY <1>3, BoundsAssumption DEF Restart, RoutingInv, TypeOK
  <2>3. cache' <= cm' /\ cm' \in Version
    BY <1>3 DEF Restart, RoutingInv, TypeOK, Version, None
  <2>4. Len(events') <= Room + 1
    BY <2>1, BoundsAssumption
  <2>5. TypeOK'
    BY <1>3, <2>1, <2>2, <2>3, <2>4 DEF Restart, TypeOK
  <2>. QED BY <1>3, <2>1, <2>5 DEF Restart, RoutingInv
<1>. QED BY <1>1, <1>2, <1>3

\* Every step keeps the invariant.
LEMMA RoutingStep == RoutingInv /\ [Next]_vars => RoutingInv'
<1>. SUFFICES ASSUME RoutingInv, [Next]_vars PROVE RoutingInv'
  OBVIOUS
<1>1. ASSUME NEW v \in Version, Observe(v) PROVE RoutingInv'
  BY <1>1, QueueRouting DEF Observe, Action
<1>2. CASE Resync
  <2>1. cache \in Version /\ cache <= cm
    BY <1>2 DEF Resync, RoutingInv, TypeOK
  <2>. QED BY <1>2, <2>1, QueueRouting DEF Resync, Action
<1>3. CASE UNCHANGED vars
  BY <1>3 DEF vars, RoutingInv, TypeOK, Served
<1>. QED
  BY <1>1, <1>2, <1>3, WriteRouting, ApplyRouting, PingRouting, ProcessRouting DEF Next

\* However pings and events overtake each other, and across restarts, a running
\* interceptor has a routing table, and the table is one that the ConfigMap really
\* had and that could be decoded (GetTable, StartConfigMapRoutingTableUpdater).
THEOREM TableWasServed == Spec => []TypeOK
<1>1. RoutingInv => TypeOK
  BY DEF RoutingInv
<1>. QED BY <1>1, InitRouting, RoutingStep, PTL DEF Spec
=============================================================================
