----------------------------- MODULE QueueCounts -----------------------------
(***************************************************************************)
(* The interceptor's GET /queue (newSizeHandler, pkg/queue/queue_rpc.go)   *)
(* running beside countMiddleware.  Memory.Current returns the live        *)
(* countMap, so the JSON encoder walks a map that other goroutines write   *)
(* under a lock the encoder does not hold: a data race.  What the Go 1.19  *)
(* build can do with it:                                                   *)
(*   - each entry is copied when the iterator reaches it, so entries may   *)
(*     come from different moments; a key added meanwhile may be visited   *)
(*     or not;                                                             *)
(*   - visiting more keys than the map had at the start overruns the       *)
(*     encoder's slice: the handler panics and the connection is closed;   *)
(*   - an iteration step that meets a write in progress stops the whole    *)
(*     process ("concurrent map iteration and map write"), which restarts  *)
(*     with an empty queue.                                                *)
(***************************************************************************)
EXTENDS CountMiddleware

VARIABLES reader,     \* idle, encoding, sent, failed
          keys,       \* the keys of countMap when encoding began
          encoded     \* the entries copied so far

(***************************************************************************)
(* History, for SteadyRequestReported only.                                *)
(***************************************************************************)
VARIABLE steady       \* the requests served ever since encoding began

readerVars == <<reader, keys, encoded>>
allVars == <<countMap, postponedResizes, enforcer, hostsToModify, pc, host,
             reader, keys, encoded, steady>>

InitRead ==
  /\ Init
  /\ reader = "idle"
  /\ keys = {}
  /\ encoded = EmptyMap
  /\ steady = {}

\* A step of the middleware or of the enforcer.
QueueStep ==
  /\ Next
  /\ steady' = {r \in steady : pc'[r] = "serving"}
  /\ UNCHANGED readerVars

\* q.Current(), and the encoder sizes its slice.
Current ==
  /\ reader = "idle"
  /\ reader' = "encoding"
  /\ keys' = DOMAIN countMap
  /\ encoded' = EmptyMap
  /\ steady' = {r \in Request : pc[r] = "serving"}
  /\ UNCHANGED vars

\* The iterator reaches the entry of h; the slice has one place per initial key.
EncodeEntry(h) ==
  /\ reader = "encoding"
  /\ h \in DOMAIN countMap \ DOMAIN encoded
  /\ IF Cardinality(DOMAIN encoded) < Cardinality(keys)
     THEN encoded' = Store(encoded, h, countMap[h]) /\ UNCHANGED reader
     ELSE reader' = "failed" /\ UNCHANGED encoded
  /\ UNCHANGED <<vars, keys, steady>>

\* Mutant of SendCounts: the answer goes out before every entry is copied.
SendCountsEarly ==
  /\ reader = "encoding"
  /\ reader' = "sent"
  /\ UNCHANGED <<vars, keys, encoded, steady>>

\* The iterator is at its end: it has visited every key that was there when it
\* started (keys are never deleted).
SendCounts ==
  /\ reader = "encoding"
  /\ keys \subseteq DOMAIN encoded
  /\ reader' = "sent"
  /\ UNCHANGED <<vars, keys, encoded, steady>>

\* The handler is done; the scaler may ask again.
EndRead ==
  /\ reader \in {"sent", "failed"}
  /\ reader' = "idle"
  /\ keys' = {}
  /\ encoded' = EmptyMap
  /\ steady' = {}
  /\ UNCHANGED vars

\* Some goroutine can be inside a write of countMap.
WriteInProgress ==
  \/ \E r \in Request : pc[r] \in {"idle", "resizing"}
  \/ enforcer = "modify" /\ hostsToModify # {}

\* The runtime detects the race: the process dies with its requests and its
\* counts, and starts anew.
MapRaceFatal ==
  /\ reader = "encoding"
  /\ DOMAIN countMap # {}
  /\ WriteInProgress
  /\ countMap' = EmptyMap
  /\ postponedResizes' = EmptyMap
  /\ enforcer' = "scan"
  /\ hostsToModify' = {}
  /\ pc' = [r \in Request |-> "idle"]
  /\ host' = host
  /\ reader' = "failed"
  /\ steady' = {}
  /\ UNCHANGED <<keys, encoded>>

NextRead ==
  \/ QueueStep
  \/ Current
  \/ \E h \in Host : EncodeEntry(h)
  \/ SendCounts
  \/ EndRead
  \/ MapRaceFatal

SpecRead == InitRead /\ [][NextRead]_allVars

-----------------------------------------------------------------------------
\* Without the cooldown, and although the answer may mix moments, it never hides
\* a host in use: a request served during the whole encoding shows in the answer
\* of newSizeHandler as a positive count.
SteadyRequestReported ==
  ~ShouldPostpone /\ reader = "sent" =>
    \A r \in steady : host[r] \in DOMAIN encoded /\ encoded[host[r]] > 0
=============================================================================
