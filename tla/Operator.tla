------------------------------- MODULE Operator -------------------------------
(***************************************************************************)
(* The operator's reconciler (operator/controllers/http): it turns the     *)
(* HTTPScaledObjects of the cluster into KEDA ScaledObjects and into the   *)
(* routing table, which it keeps in memory and publishes in a ConfigMap.   *)
(*                                                                         *)
(* One worker reconciles one object at a time, each call to the API server *)
(* is a step of its own, and between two of them users edit objects, calls *)
(* fail, or the operator restarts: its table is then empty, and every      *)
(* object is queued anew.  A write that fails may have been applied.       *)
(*                                                                         *)
(* Names: the ScaledObject "<n>-app" is represented by the name n.  What a *)
(* spec says beyond hosts and deployment is one value per consumer: target *)
(* (service, port, pending-request target) ends up in the routing table,   *)
(* replicas (bounds, cooldown) in the ScaledObject.  A route also carries  *)
(* "by", the object it was added for: history, which no action reads.      *)
(* Status conditions are written and never read: they are left out.        *)
(*                                                                         *)
(* KEDA puts a finalizer of its own on ScaledObjects: one that is deleted  *)
(* is still there, dying, until KEDA lets it go.                           *)
(***************************************************************************)
EXTENDS Integers

CONSTANTS Name,          \* names of HTTPScaledObjects and of deployments
          Host,
          Target,
          Replicas,
          Unset,         \* the replicas of a spec that leaves them out
          Choices,       \* the specs users give an object of each name
          MaxEdits,      \* bound: user operations in a behaviour
          MaxFailures,   \* bound: failed API calls
          MaxRestarts    \* bound: operator restarts

Specs == [host : SUBSET Host, hosts : SUBSET Host, depl : Name,
          target : Target, replicas : Replicas \cup {Unset}]

ASSUME ChoicesAssumption == Choices \in [Name -> SUBSET Specs]
ASSUME BoundsAssumption ==
  MaxEdits \in Nat /\ MaxFailures \in Nat /\ MaxRestarts \in Nat

VARIABLES objs,      \* the HTTPScaledObjects of the cluster
          sos,       \* the ScaledObjects of the cluster that are not deleted
          dying,     \* the deleted ones that KEDA's finalizer still holds
          cm,        \* the routing table in the ConfigMap
          table,     \* the operator's routing table
          queue,     \* the objects the work queue holds
          step,      \* where Reconcile is, "down" while no operator runs
          cur,       \* the object it reconciles
          seen,      \* httpso, its copy of the object
          failed,    \* createOrUpdateApplicationResources failed
          edits, failures, restarts

clusterVars == <<objs, sos, dying, cm>>
vars == <<objs, sos, dying, cm, table, queue, step, cur, seen, failed,
          edits, failures, restarts>>

Put(f, k, v) == [x \in DOMAIN f \cup {k} |-> IF x = k THEN v ELSE f[x]]
Drop(f, S) == [x \in DOMAIN f \ S |-> f[x]]
Empty == [x \in {} |-> x]

NoObject == [spec |-> Empty, deleting |-> FALSE, finalizer |-> FALSE]

-----------------------------------------------------------------------------
\* sanitizeHosts: exactly one of host and hosts must be given.
Sane(s) == (s.host = {}) # (s.hosts = {})

\* The hosts after sanitizeHosts.
SanitizedHosts(s) == IF s.hosts = {} THEN s.host ELSE s.hosts

\* The name under which the ScaledObject is deleted.  It is created under the
\* name of the object.
AppScaledObjectName(s) == s.depl

\* k8s.NewScaledObject
NewScaledObject(s) == [depl |-> s.depl, hosts |-> SanitizedHosts(s), replicas |-> s.replicas]

\* A ScaledObject after Patch: fields that are left out of a merge patch stay as
\* they are.
Patched(so, s) ==
  [NewScaledObject(s) EXCEPT !.replicas = IF @ = Unset THEN so.replicas ELSE @]

\* routing.NewTarget
NewTarget(o, s) == [depl |-> s.depl, target |-> s.target, by |-> o]

\* addAndUpdateRoutingTable on the table: AddTarget refuses a host that is there.
AddTargets(t, o, s) ==
  [h \in DOMAIN t \cup SanitizedHosts(s) |-> IF h \in DOMAIN t THEN t[h] ELSE NewTarget(o, s)]

Init ==
  /\ objs = Empty
  /\ sos = Empty
  /\ dying = {}
  /\ cm = Empty
  /\ table = Empty
  /\ queue = {}
  /\ step = "idle"
  /\ cur \in Name
  /\ seen = NoObject
  /\ failed = FALSE
  /\ edits = 0
  /\ failures = 0
  /\ restarts = 0

-----------------------------------------------------------------------------
(***************************************************************************)
(* Users.  Creations, deletions and changes of the generation are queued.  *)
(***************************************************************************)
UserStep(o) ==
  /\ edits < MaxEdits
  /\ edits' = edits + 1
  /\ queue' = queue \cup {o}
  /\ UNCHANGED <<sos, dying, cm, table, step, cur, seen, failed, failures, restarts>>

CreateObject(o, s) ==
  /\ o \notin DOMAIN objs
  /\ objs' = Put(objs, o, [spec |-> s, deleting |-> FALSE, finalizer |-> FALSE])
  /\ UserStep(o)

EditObject(o, s) ==
  /\ o \in DOMAIN objs
  /\ objs[o].spec # s
  /\ objs' = Put(objs, o, [objs[o] EXCEPT !.spec = s])
  /\ UserStep(o)

\* An object with a finalizer stays until the finalizer is removed.
DeleteObject(o) ==
  /\ o \in DOMAIN objs
  /\ ~objs[o].deleting
  /\ objs' = IF objs[o].finalizer
             THEN Put(objs, o, [objs[o] EXCEPT !.deleting = TRUE])
             ELSE Drop(objs, {o})
  /\ UserStep(o)

-----------------------------------------------------------------------------
(***************************************************************************)
(* Reconcile.                                                              *)
(***************************************************************************)

\* An API call goes well, or fails (within the bound).
Succeeds == UNCHANGED failures
Fails == failures < MaxFailures /\ failures' = failures + 1

\* Reconcile returns nil, or an error that puts the object back in the queue.
Return == step' = "idle" /\ failed' = FALSE /\ UNCHANGED queue
ReturnError == step' = "idle" /\ failed' = FALSE /\ queue' = queue \cup {cur}

Continue(s) == step' = s /\ UNCHANGED <<queue, failed>>

\* createOrUpdateApplicationResources fails: what it made is removed again.
Undo == step' = "removeSO" /\ failed' = TRUE /\ UNCHANGED queue

\* Mutant of GetObject: an object that is gone is reconciled like any other.
GetObjectUnchecked(o) ==
  /\ step = "idle"
  /\ o \in queue
  /\ queue' = queue \ {o}
  /\ cur' = o
  /\ seen' = IF o \in DOMAIN objs THEN objs[o] ELSE NoObject
  /\ step' = IF seen'.deleting THEN "removeSO" ELSE "ensureFinalizer"
  /\ UNCHANGED <<clusterVars, table, failed, edits, failures, restarts>>

\* Client.Get: an object that is gone ends the reconcile; a deletion timestamp
\* starts the removal; another error leaves the object in the queue.
GetObject(o) ==
  /\ step = "idle"
  /\ o \in queue
  /\ \/ /\ Succeeds
        /\ queue' = queue \ {o}
        /\ IF o \in DOMAIN objs
           THEN /\ cur' = o
                /\ seen' = objs[o]
                /\ step' = IF objs[o].deleting THEN "removeSO" ELSE "ensureFinalizer"
           ELSE UNCHANGED <<cur, seen, step>>
     \/ Fails /\ UNCHANGED <<queue, cur, seen, step>>
  /\ UNCHANGED <<clusterVars, table, failed, edits, restarts>>

\* ensureFinalizer and sanitizeHosts.  The Update is refused when the object has
\* changed since it was read (an object that was changed and changed back counts as
\* unchanged here; its resource version would be refused like a failed call).
EnsureFinalizer ==
  /\ step = "ensureFinalizer"
  /\ \/ /\ seen.finalizer
        /\ Succeeds
        /\ UNCHANGED <<objs, seen>>
        /\ IF Sane(seen.spec) THEN Continue("create") ELSE ReturnError
     \/ /\ ~seen.finalizer
        /\ cur \in DOMAIN objs
        /\ objs[cur] = seen
        /\ Succeeds
        /\ seen' = [seen EXCEPT !.finalizer = TRUE]
        /\ objs' = Put(objs, cur, seen')
        /\ IF Sane(seen.spec) THEN Continue("create") ELSE ReturnError
     \/ /\ ~seen.finalizer
        /\ IF cur \in DOMAIN objs THEN objs[cur] # seen ELSE TRUE
        /\ Succeeds
        /\ ReturnError
        /\ UNCHANGED <<objs, seen>>
     \/ /\ ~seen.finalizer
        /\ \/ UNCHANGED objs
           \/ /\ cur \in DOMAIN objs
              /\ objs[cur] = seen
              /\ objs' = Put(objs, cur, [seen EXCEPT !.finalizer = TRUE])
        /\ Fails
        /\ ReturnError
        /\ UNCHANGED seen
  /\ UNCHANGED <<sos, dying, cm, table, cur, edits, restarts>>

\* The API server has a ScaledObject of that name, dying or not.
Exists == cur \in DOMAIN sos \cup dying
Created == IF Exists THEN sos ELSE Put(sos, cur, NewScaledObject(seen.spec))

\* Mutant of CreateScaledObject: an existing ScaledObject is left as it is.
CreateScaledObjectOnce ==
  /\ step = "create"
  /\ \/ sos' = Created /\ Succeeds /\ Continue("route")
     \/ sos' \in {sos, Created} /\ Fails /\ Undo
  /\ UNCHANGED <<objs, dying, cm, table, cur, seen, edits, restarts>>

\* createOrUpdateScaledObject: Create; if it says AlreadyExists, ...
CreateScaledObject ==
  /\ step = "create"
  /\ \/ sos' = Created /\ Succeeds /\ Continue(IF Exists THEN "get" ELSE "route")
     \/ sos' \in {sos, Created} /\ Fails /\ Undo
  /\ UNCHANGED <<objs, dying, cm, table, cur, seen, edits, restarts>>

\* ... Get, which finds nothing if KEDA has let the ScaledObject go meanwhile ...
GetScaledObject ==
  /\ step = "get"
  /\ \/ Exists /\ Succeeds /\ Continue("patch")
     \/ ~Exists /\ Succeeds /\ Undo
     \/ Fails /\ Undo
  /\ UNCHANGED <<objs, sos, dying, cm, table, cur, seen, edits, restarts>>

\* ... and Patch.  A patch of a ScaledObject that is dying succeeds, and is lost
\* with it.
PatchScaledObject ==
  /\ step = "patch"
  /\ LET patched == IF cur \in DOMAIN sos
                    THEN Put(sos, cur, Patched(sos[cur], seen.spec)) ELSE sos
     IN  \/ Exists /\ sos' = patched /\ Succeeds /\ Continue("route")
         \/ ~Exists /\ UNCHANGED sos /\ Succeeds /\ Undo
         \/ sos' \in {sos, patched} /\ Fails /\ Undo
  /\ UNCHANGED <<objs, dying, cm, table, cur, seen, edits, restarts>>

CreateOrUpdateScaledObject ==
  CreateScaledObject \/ GetScaledObject \/ PatchScaledObject

\* addAndUpdateRoutingTable: the table in memory changes first, then the
\* ConfigMap is patched to hold it.
AddRoutes ==
  /\ step = "route"
  /\ table' = AddTargets(table, cur, seen.spec)
  /\ \/ cm' = table' /\ Succeeds /\ Return
     \/ cm' \in {cm, table'} /\ Fails /\ Undo
  /\ UNCHANGED <<objs, sos, dying, cur, seen, edits, restarts>>

\* removeApplicationResources, for a deletion or after a failure: first the
\* ScaledObject (one that is not found is fine) ...
RemoveScaledObject ==
  /\ step = "removeSO"
  /\ LET gone == {AppScaledObjectName(seen.spec)} \cap DOMAIN sos
     IN  \/ /\ sos' = Drop(sos, gone) /\ dying' = dying \cup gone
            /\ Succeeds /\ Continue("removeRoutes")
         \/ /\ \/ sos' = Drop(sos, gone) /\ dying' = dying \cup gone
               \/ UNCHANGED <<sos, dying>>
            /\ Fails /\ ReturnError
  /\ UNCHANGED <<objs, cm, table, cur, seen, edits, restarts>>

\* Mutant of RemoveRoutes: a failure to publish the table does not stop the
\* deletion.
RemoveRoutesRegardless ==
  /\ step = "removeRoutes"
  /\ table' = Drop(table, IF failed THEN SanitizedHosts(seen.spec) ELSE seen.spec.hosts)
  /\ \/ cm' = table' /\ Succeeds
     \/ cm' \in {cm, table'} /\ Fails
  /\ IF failed THEN ReturnError ELSE Continue("finalize")
  /\ UNCHANGED <<objs, sos, dying, cur, seen, edits, restarts>>

\* ... then the routes (RemoveTarget's errors are ignored).  A deleted object has
\* not been through sanitizeHosts: only its hosts field counts.
RemoveRoutes ==
  /\ step = "removeRoutes"
  /\ table' = Drop(table, IF failed THEN SanitizedHosts(seen.spec) ELSE seen.spec.hosts)
  /\ \/ /\ cm' = table'
        /\ Succeeds
        /\ IF failed THEN ReturnError ELSE Continue("finalize")
     \/ cm' \in {cm, table'} /\ Fails /\ ReturnError
  /\ UNCHANGED <<objs, sos, dying, cur, seen, edits, restarts>>

\* finalizeScaledObject: the last Update lets the object go, unless it has changed
\* since it was read.
Finalize ==
  /\ step = "finalize"
  /\ \/ /\ cur \in DOMAIN objs
        /\ objs[cur] = seen
        /\ Succeeds
        /\ objs' = Drop(objs, {cur})
        /\ Return
     \/ /\ IF cur \in DOMAIN objs THEN objs[cur] # seen ELSE TRUE
        /\ Succeeds
        /\ UNCHANGED objs
        /\ ReturnError
     \/ /\ Fails
        /\ \/ UNCHANGED objs
           \/ /\ cur \in DOMAIN objs
              /\ objs[cur] = seen
              /\ objs' = Drop(objs, {cur})
        /\ ReturnError
  /\ UNCHANGED <<sos, dying, cm, table, cur, seen, edits, restarts>>

\* KEDA has cleaned up after a ScaledObject and removes its finalizer.  The
\* operator does not watch ScaledObjects.
KedaFinalize(o) ==
  /\ o \in dying
  /\ dying' = dying \ {o}
  /\ UNCHANGED <<objs, sos, cm, table, queue, step, cur, seen, failed,
                 edits, failures, restarts>>

\* The manager or the admin server fails, a signal comes, or the leadership is
\* lost: the operator's process ends where it is.
Stop ==
  /\ step # "down"
  /\ restarts < MaxRestarts
  /\ restarts' = restarts + 1
  /\ step' = "down"
  /\ failed' = FALSE
  /\ UNCHANGED <<clusterVars, table, queue, cur, seen, edits, failures>>

\* A new process, or another replica, first reads the ConfigMap and exits if it
\* cannot.  Its routing table is new: nothing of the ConfigMap goes into it.  The
\* informer's first list queues every object.
Start ==
  /\ step = "down"
  /\ \/ /\ Succeeds
        /\ table' = Empty
        /\ queue' = DOMAIN objs
        /\ step' = "idle"
     \/ Fails /\ UNCHANGED <<table, queue, step>>
  /\ UNCHANGED <<clusterVars, cur, seen, failed, edits, restarts>>

-----------------------------------------------------------------------------
Reconcile ==
  \/ \E o \in Name : GetObject(o)
  \/ EnsureFinalizer
  \/ CreateOrUpdateScaledObject
  \/ AddRoutes
  \/ RemoveScaledObject
  \/ RemoveRoutes
  \/ Finalize

Next ==
  \/ \E o \in Name : \E s \in Choices[o] : CreateObject(o, s)
  \/ \E o \in Name : \E s \in Choices[o] : EditObject(o, s)
  \/ \E o \in Name : DeleteObject(o)
  \/ \E o \in Name : KedaFinalize(o)
  \/ Reconcile
  \/ Stop
  \/ Start

Spec == Init /\ [][Next]_vars

(***************************************************************************)
(* The worker runs and takes every queued object in the end: the work      *)
(* queue hands out each of its objects.  The kubelet starts the operator   *)
(* again, and KEDA lets ScaledObjects go.                                  *)
(***************************************************************************)
FairSpec ==
  /\ Spec
  /\ WF_vars(Reconcile)
  /\ WF_vars(Start)
  /\ \A o \in Name : SF_vars(GetObject(o)) /\ WF_vars(KedaFinalize(o))

-----------------------------------------------------------------------------
MapOf(f, K, V) == DOMAIN f \subseteq K /\ f \in [DOMAIN f -> V]

Object == [spec : Specs, deleting : BOOLEAN, finalizer : BOOLEAN]
Route == [depl : Name, target : Target, by : Name]
ScaledObject == [depl : Name, hosts : SUBSET Host, replicas : Replicas \cup {Unset}]

\* Types of the cluster's objects, of both routing tables and of the reconciler.
TypeOK ==
  /\ MapOf(objs, Name, Object)
  /\ \A o \in DOMAIN objs : objs[o].spec \in Choices[o]
  /\ MapOf(sos, Name, ScaledObject)
  /\ dying \subseteq Name
  /\ MapOf(cm, Host, Route)
  /\ MapOf(table, Host, Route)
  /\ queue \subseteq Name
  /\ step \in {"down", "idle", "ensureFinalizer", "create", "get", "patch", "route",
               "removeSO", "removeRoutes", "finalize"}
  /\ cur \in Name
  /\ step \notin {"down", "idle"} => seen \in Object /\ seen.spec \in Choices[cur]
  /\ failed \in BOOLEAN
  /\ edits \in 0..MaxEdits /\ failures \in 0..MaxFailures /\ restarts \in 0..MaxRestarts

\* "When the HTTPScaledObject is deleted, the operator reverses all of the
\* aforementioned actions" (docs/design.md): an object that is gone has left
\* neither its ScaledObject nor a route in the ConfigMap or in the operator's
\* table, although calls fail, writes are applied without an answer, users edit
\* objects and the operator restarts at any point of the finalizer protocol.
DeletedLeavesNothing ==
  \A o \in Name \ DOMAIN objs :
    /\ o \notin DOMAIN sos
    /\ \A h \in DOMAIN cm : cm[h].by # o
    /\ \A h \in DOMAIN table : table[h].by # o

(***************************************************************************)
(* Why DeletedLeavesNothing holds.  It needs objects that are named like   *)
(* their deployments and whose hosts field is given and never edited.      *)
(***************************************************************************)
StableChoices ==
  \A o \in Name : \A s, r \in Choices[o] : s.depl = o /\ s.hosts = r.hosts /\ s.hosts # {}

Protected(o) == o \in DOMAIN objs /\ objs[o].finalizer

RoutesOwned(t) ==
  \A h \in DOMAIN t : /\ Protected(t[h].by)
                     /\ \A s \in Choices[t[h].by] : h \in s.hosts

NoRoutesBy(t, o) == \A h \in DOMAIN t : t[h].by # o

\* Whatever exists for an object, or is about to, is under its finalizer; the
\* removal has done its work by the step it has reached.
FinalizerInv ==
  /\ \A o \in DOMAIN objs : objs[o].deleting => objs[o].finalizer
  /\ \A o \in DOMAIN sos : Protected(o)
  /\ RoutesOwned(cm)
  /\ RoutesOwned(table)
  /\ step \in {"down", "idle"} => ~failed
  /\ step \in {"create", "get", "patch", "route"} => ~failed
  /\ step \in {"create", "get", "patch", "route"} \/ failed => Protected(cur)
  /\ step = "ensureFinalizer" => ~failed /\ (seen.finalizer => Protected(cur))
  /\ step = "finalize" => ~failed
  /\ step \in {"removeRoutes", "finalize"} => cur \notin DOMAIN sos
  /\ step = "finalize" => NoRoutesBy(cm, cur) /\ NoRoutesBy(table, cur)

\* The cluster is what the HTTPScaledObjects ask for.
Converged ==
  /\ \A o \in DOMAIN objs :
       /\ ~objs[o].deleting
       /\ o \in DOMAIN sos
       /\ sos[o] = NewScaledObject(objs[o].spec)
       /\ \A h \in SanitizedHosts(objs[o].spec) :
            h \in DOMAIN cm /\ cm[h] = NewTarget(o, objs[o].spec)
  /\ \A h \in DOMAIN cm : \E o \in DOMAIN objs : h \in SanitizedHosts(objs[o].spec)

\* "creates, updates or removes internal machinery as appropriate"
\* (docs/design.md): once users, failures and restarts leave it alone, the
\* operator's retries bring ScaledObjects and the ConfigMap to what the
\* HTTPScaledObjects say, and keep them there.
Converges == <>[]Converged

\* The same, as far as the code goes: if KEDA has always let a ScaledObject go
\* by the time a reconcile creates it again (createOrUpdateScaledObject).
ConvergesAfterKeda == []~(step = "create" /\ cur \in dying) => <>[]Converged
=============================================================================
