---------------------------- MODULE OperatorProofs ----------------------------
(***************************************************************************)
(* Theorems about the operator's reconciler, for any number of objects,    *)
(* hosts, user operations, failed calls and restarts.                      *)
(***************************************************************************)
EXTENDS Operator, TLAPS

\* The steps that a step of a reconcile leads to.
Working == {"idle", "create", "get", "patch", "route", "removeSO", "removeRoutes", "finalize"}

\* Updating a map, and reading it, respects its type.
LEMMA MapTypes ==
  ASSUME NEW K, NEW V, NEW f, MapOf(f, K, V)
  PROVE  /\ \A k \in K, v \in V : MapOf(Put(f, k, v), K, V)
         /\ \A S : MapOf(Drop(f, S), K, V)
         /\ \A k \in DOMAIN f : k \in K /\ f[k] \in V
  BY DEF MapOf, Put, Drop

\* The empty map has every type.
LEMMA EmptyType ==
  ASSUME NEW K, NEW V
  PROVE  MapOf(Empty, K, V)
  BY DEF MapOf, Empty

\* The specs users write are typed.
LEMMA ChoiceType ==
  ASSUME NEW o \in Name, NEW s \in Choices[o]
  PROVE  s \in Specs
  BY ChoicesAssumption

\* TypeOK holds initially.
LEMMA InitType == Init => TypeOK
  <1> SUFFICES ASSUME Init PROVE TypeOK
    OBVIOUS
  <1>1. DOMAIN Empty = {}
    BY DEF Empty
  <1>2. /\ MapOf(objs, Name, Object)
        /\ MapOf(sos, Name, ScaledObject)
        /\ MapOf(cm, Host, Route)
        /\ MapOf(table, Host, Route)
    BY EmptyType DEF Init
  <1>3. \A o \in DOMAIN objs : objs[o].spec \in Choices[o]
    BY <1>1 DEF Init
  <1>4. edits \in 0..MaxEdits /\ failures \in 0..MaxFailures /\ restarts \in 0..MaxRestarts
    BY BoundsAssumption DEF Init
  <1>5. /\ failed \in BOOLEAN /\ step = "idle" /\ queue \subseteq Name /\ cur \in Name
        /\ dying \subseteq Name
    BY DEF Init
  <1> QED
    BY <1>2, <1>3, <1>4, <1>5 DEF TypeOK

\* Writing an object whose spec a user may have given keeps the objects' type.
LEMMA ObjectType ==
  ASSUME TypeOK, NEW o \in Name, NEW v \in Object, v.spec \in Choices[o],
         NEW f, f \in {Put(objs, o, v), Drop(objs, {o}), objs}
  PROVE  MapOf(f, Name, Object) /\ \A p \in DOMAIN f : f[p].spec \in Choices[p]
  <1>0. MapOf(objs, Name, Object) /\ \A p \in DOMAIN objs : objs[p].spec \in Choices[p]
    BY DEF TypeOK
  <1>1. MapOf(f, Name, Object)
    BY <1>0, MapTypes
  <1>2. \A p \in DOMAIN f : f[p].spec \in Choices[p]
    <2>1. CASE f = Put(objs, o, v)
      BY <1>0, <2>1 DEF Put
    <2>2. CASE f = Drop(objs, {o})
      BY <1>0, <2>2 DEF Drop
    <2> QED
      BY <1>0, <2>1, <2>2
  <1> QED
    BY <1>1, <1>2

\* User operations keep the types.
LEMMA UserType ==
  ASSUME TypeOK, NEW o \in Name,
         \/ \E s \in Choices[o] : CreateObject(o, s) \/ EditObject(o, s)
         \/ DeleteObject(o)
  PROVE  TypeOK'
  <1>1. UserStep(o)
    BY DEF CreateObject, EditObject, DeleteObject
  <1>2. \E v \in Object : v.spec \in Choices[o] /\ objs' \in {Put(objs, o, v), Drop(objs, {o})}
    <2>1. ASSUME NEW s \in Choices[o], CreateObject(o, s)
          PROVE  \E v \in Object : v.spec = s /\ objs' = Put(objs, o, v)
      <3> DEFINE v == [spec |-> s, deleting |-> FALSE, finalizer |-> FALSE]
      <3>1. v \in Object /\ v.spec = s
        BY ChoiceType DEF Object
      <3> QED
        BY <2>1, <3>1 DEF CreateObject
    <2>2. ASSUME o \in DOMAIN objs
          PROVE  objs[o] \in Object /\ objs[o].spec \in Choices[o]
      BY <2>2, MapTypes DEF TypeOK
    <2>3. ASSUME NEW s \in Choices[o], EditObject(o, s)
          PROVE  \E v \in Object : v.spec = s /\ objs' = Put(objs, o, v)
      <3> DEFINE v == [objs[o] EXCEPT !.spec = s]
      <3>1. v \in Object /\ v.spec = s
        BY <2>2, <2>3, ChoiceType DEF Object, EditObject
      <3> QED
        BY <2>3, <3>1 DEF EditObject
    <2>4. ASSUME DeleteObject(o)
          PROVE  \E v \in Object : /\ v.spec \in Choices[o]
                                  /\ objs' \in {Put(objs, o, v), Drop(objs, {o})}
      <3> DEFINE v == [objs[o] EXCEPT !.deleting = TRUE]
      <3>1. v \in Object /\ v.spec = objs[o].spec
        BY <2>2, <2>4 DEF Object, DeleteObject
      <3> QED
        BY <2>2, <2>4, <3>1 DEF DeleteObject
    <2> QED
      BY <2>1, <2>3, <2>4
  <1>3. MapOf(objs', Name, Object) /\ \A p \in DOMAIN objs' : objs'[p].spec \in Choices[p]
    BY <1>2, ObjectType
  <1> QED
    BY <1>1, <1>3, BoundsAssumption DEF UserStep, TypeOK

\* What a reconcile builds from a spec is typed.
LEMMA BuiltTypes ==
  ASSUME TypeOK, step \notin {"down", "idle"}
  PROVE  /\ seen \in Object /\ seen.spec \in Choices[cur] /\ seen.spec \in Specs
         /\ SanitizedHosts(seen.spec) \subseteq Host
         /\ NewScaledObject(seen.spec) \in ScaledObject
         /\ cur \in DOMAIN sos => Patched(sos[cur], seen.spec) \in ScaledObject
         /\ MapOf(AddTargets(table, cur, seen.spec), Host, Route)
  <1>1. seen \in Object /\ seen.spec \in Choices[cur] /\ cur \in Name
    BY DEF TypeOK
  <1>2. seen.spec \in Specs
    BY <1>1, ChoiceType
  <1>3. SanitizedHosts(seen.spec) \subseteq Host
    BY <1>2 DEF SanitizedHosts, Specs
  <1>4. NewScaledObject(seen.spec) \in ScaledObject
    BY <1>2, <1>3 DEF NewScaledObject, ScaledObject, Specs
  <1>5. NewTarget(cur, seen.spec) \in Route
    BY <1>1, <1>2 DEF NewTarget, Route, Specs
  <1>6. MapOf(sos, Name, ScaledObject) /\ MapOf(table, Host, Route)
    BY DEF TypeOK
  <1>7. cur \in DOMAIN sos => Patched(sos[cur], seen.spec) \in ScaledObject
    <2>1. cur \in DOMAIN sos => sos[cur] \in ScaledObject
      BY <1>6, MapTypes
    <2> QED
      BY <1>4, <2>1 DEF Patched, ScaledObject
  <1>8. MapOf(AddTargets(table, cur, seen.spec), Host, Route)
    BY <1>3, <1>5, <1>6 DEF MapOf, AddTargets
  <1> QED
    BY <1>1, <1>2, <1>3, <1>4, <1>7, <1>8

\* The counter of failed calls keeps its type.
LEMMA FailureType ==
  ASSUME TypeOK, Succeeds \/ Fails
  PROVE  failures' \in 0..MaxFailures
  BY BoundsAssumption DEF TypeOK, Succeeds, Fails

\* The control state of a reconcile keeps its type.
LEMMA ControlType ==
  ASSUME TypeOK,
         \/ Return \/ ReturnError
         \/ Continue("create") \/ Continue("get") \/ Continue("patch") \/ Continue("route")
         \/ Continue("removeRoutes") \/ Continue("finalize")
         \/ Undo
  PROVE  /\ queue' \subseteq Name
         /\ step' \in Working
         /\ failed' \in BOOLEAN
  BY DEF TypeOK, Return, ReturnError, Continue, Undo, Working

\* The calls that create or update the ScaledObject write at most the one of the
\* object, and go on or undo.
LEMMA CreateOrUpdateStep ==
  ASSUME TypeOK, CreateOrUpdateScaledObject
  PROVE  /\ step \in {"create", "get", "patch"}
         /\ UNCHANGED <<objs, dying, cm, table, cur, seen, edits, restarts>>
         /\ Succeeds \/ Fails
         /\ sos' = sos \/ \E v \in ScaledObject : sos' = Put(sos, cur, v)
         /\ Continue("get") \/ Continue("patch") \/ Continue("route") \/ Undo
  <1>1. CASE CreateScaledObject
    <2>1. Created = sos \/ Created = Put(sos, cur, NewScaledObject(seen.spec))
      BY DEF Created
    <2>2. sos' \in {sos, Created} /\ step = "create"
      BY <1>1 DEF CreateScaledObject
    <2>3. NewScaledObject(seen.spec) \in ScaledObject
      BY <2>2, BuiltTypes
    <2>4. sos' = sos \/ \E v \in ScaledObject : sos' = Put(sos, cur, v)
      BY <2>1, <2>2, <2>3
    <2> QED
      BY <1>1, <2>4 DEF CreateScaledObject
  <1>2. CASE GetScaledObject
    BY <1>2 DEF GetScaledObject
  <1>3. CASE PatchScaledObject
    <2> DEFINE v == Patched(sos[cur], seen.spec)
    <2>1. /\ step = "patch"
          /\ sos' = sos \/ (cur \in DOMAIN sos /\ sos' = Put(sos, cur, v))
      BY <1>3 DEF PatchScaledObject
    <2>2. cur \in DOMAIN sos => v \in ScaledObject
      BY <2>1, BuiltTypes
    <2>3. sos' = sos \/ \E w \in ScaledObject : sos' = Put(sos, cur, w)
      BY <2>1, <2>2
    <2> QED
      BY <1>3, <2>3 DEF PatchScaledObject
  <1> QED
    BY <1>1, <1>2, <1>3 DEF CreateOrUpdateScaledObject

\* The steps of Reconcile, and a restart, keep the types.
LEMMA ReconcileType ==
  ASSUME TypeOK, Reconcile \/ Stop \/ Start
  PROVE  TypeOK'
  <1>1. ASSUME NEW o \in Name, GetObject(o)
        PROVE  TypeOK'
    <2>1. o \in DOMAIN objs => objs[o] \in Object /\ objs[o].spec \in Choices[o]
      BY MapTypes DEF TypeOK
    <2>2. failures' \in 0..MaxFailures
      BY <1>1, FailureType DEF GetObject
    <2>3. /\ cur' \in Name /\ queue' \subseteq Name
          /\ step' \notin {"down", "idle"} => seen' \in Object /\ seen'.spec \in Choices[cur']
      BY <1>1, <2>1 DEF GetObject, TypeOK
    <2> QED
      BY <1>1, <2>1, <2>2, <2>3 DEF GetObject, clusterVars, TypeOK
  <1>2. ASSUME EnsureFinalizer
        PROVE  TypeOK'
    <2> DEFINE v == [seen EXCEPT !.finalizer = TRUE]
    <2>1. v \in Object /\ v.spec = seen.spec /\ seen.spec \in Choices[cur] /\ cur \in Name
      BY <1>2, BuiltTypes DEF EnsureFinalizer, Object, TypeOK
    <2>2. objs' \in {Put(objs, cur, v), objs} /\ seen' \in {v, seen}
      BY <1>2 DEF EnsureFinalizer
    <2>3. MapOf(objs', Name, Object) /\ \A p \in DOMAIN objs' : objs'[p].spec \in Choices[p]
      BY <2>1, <2>2, ObjectType
    <2>4. seen' \in Object /\ seen'.spec \in Choices[cur]
      BY <1>2, <2>1, <2>2, BuiltTypes DEF EnsureFinalizer
    <2>8. Succeeds \/ Fails
      BY <1>2 DEF EnsureFinalizer
    <2>9. /\ queue' \subseteq Name
          /\ step' \in Working
          /\ failed' \in BOOLEAN
      BY <1>2, ControlType DEF EnsureFinalizer
    <2> QED
      BY <1>2, <2>1, <2>3, <2>4, <2>8, <2>9, BuiltTypes, FailureType DEF EnsureFinalizer, Working, TypeOK
  <1>3. ASSUME CreateOrUpdateScaledObject
        PROVE  TypeOK'
    <2>1. MapOf(sos', Name, ScaledObject)
      BY <1>3, CreateOrUpdateStep, MapTypes DEF TypeOK
    <2>9. /\ queue' \subseteq Name
          /\ step' \in Working
          /\ failed' \in BOOLEAN
      BY <1>3, CreateOrUpdateStep, ControlType
    <2> QED
      BY <1>3, <2>1, <2>9, CreateOrUpdateStep, BuiltTypes, FailureType DEF Working, TypeOK
  <1>4. ASSUME AddRoutes
        PROVE  TypeOK'
    <2>1. MapOf(table', Host, Route) /\ MapOf(cm', Host, Route)
      BY <1>4, BuiltTypes DEF AddRoutes, TypeOK
    <2>8. Succeeds \/ Fails
      BY <1>4 DEF AddRoutes
    <2>9. /\ queue' \subseteq Name
          /\ step' \in Working
          /\ failed' \in BOOLEAN
      BY <1>4, ControlType DEF AddRoutes
    <2> QED
      BY <1>4, <2>1, <2>8, <2>9, BuiltTypes, FailureType DEF AddRoutes, Working, TypeOK
  <1>5. ASSUME RemoveScaledObject
        PROVE  TypeOK'
    <2>1. MapOf(sos', Name, ScaledObject)
      <3>1. sos' = sos \/ \E S : sos' = Drop(sos, S)
        BY <1>5 DEF RemoveScaledObject
      <3>2. MapOf(sos, Name, ScaledObject)
        BY DEF TypeOK
      <3> QED
        BY <3>1, <3>2, MapTypes
    <2>2. dying' \subseteq Name
      BY <1>5 DEF RemoveScaledObject, TypeOK, MapOf
    <2>8. Succeeds \/ Fails
      BY <1>5 DEF RemoveScaledObject
    <2>9. /\ queue' \subseteq Name
          /\ step' \in Working
          /\ failed' \in BOOLEAN
      BY <1>5, ControlType DEF RemoveScaledObject
    <2> QED
      BY <1>5, <2>1, <2>2, <2>8, <2>9, BuiltTypes, FailureType DEF RemoveScaledObject, Working, TypeOK
  <1>6. ASSUME RemoveRoutes
        PROVE  TypeOK'
    <2>1. MapOf(table', Host, Route) /\ MapOf(cm', Host, Route)
      BY <1>6, MapTypes DEF RemoveRoutes, TypeOK
    <2>8. Succeeds \/ Fails
      BY <1>6 DEF RemoveRoutes
    <2>9. /\ queue' \subseteq Name
          /\ step' \in Working
          /\ failed' \in BOOLEAN
      BY <1>6, ControlType DEF RemoveRoutes
    <2> QED
      BY <1>6, <2>1, <2>8, <2>9, BuiltTypes, FailureType DEF RemoveRoutes, Working, TypeOK
  <1>7. ASSUME Finalize
        PROVE  TypeOK'
    <2>1. objs' \in {Drop(objs, {cur}), objs}
      BY <1>7 DEF Finalize
    <2>2. MapOf(objs', Name, Object) /\ \A p \in DOMAIN objs' : objs'[p].spec \in Choices[p]
      BY <1>7, <2>1, BuiltTypes, ObjectType DEF Finalize, TypeOK
    <2>8. Succeeds \/ Fails
      BY <1>7 DEF Finalize
    <2>9. /\ queue' \subseteq Name
          /\ step' \in Working
          /\ failed' \in BOOLEAN
      BY <1>7, ControlType DEF Finalize
    <2> QED
      BY <1>7, <2>2, <2>8, <2>9, BuiltTypes, FailureType DEF Finalize, Working, TypeOK
  <1>8. ASSUME Stop
        PROVE  TypeOK'
    <2>1. failed' \in BOOLEAN
      BY <1>8 DEF Stop
    <2>2. restarts \in 0..MaxRestarts /\ restarts < MaxRestarts /\ restarts' = restarts + 1
      BY <1>8 DEF Stop, TypeOK
    <2>3. restarts' \in 0..MaxRestarts
      BY <2>2, BoundsAssumption
    <2> QED
      BY <1>8, <2>1, <2>3 DEF Stop, clusterVars, TypeOK
  <1>9. ASSUME Start
        PROVE  TypeOK'
    <2>1. MapOf(table', Host, Route) /\ queue' \subseteq Name
      BY <1>9, EmptyType DEF Start, TypeOK, MapOf
    <2>2. failures' \in 0..MaxFailures
      BY <1>9, FailureType DEF Start
    <2> QED
      BY <1>9, <2>1, <2>2 DEF Start, clusterVars, TypeOK
  <1> QED
    BY <1>1, <1>2, <1>3, <1>4, <1>5, <1>6, <1>7, <1>8, <1>9 DEF Reconcile

\* Every step keeps the types.
LEMMA TypeStep == TypeOK /\ [Next]_vars => TypeOK'
  <1> SUFFICES ASSUME TypeOK, [Next]_vars PROVE TypeOK'
    OBVIOUS
  <1>1. CASE Reconcile \/ Stop \/ Start
    BY <1>1, ReconcileType
  <1>2. CASE \E o \in Name : \/ \E s \in Choices[o] : CreateObject(o, s) \/ EditObject(o, s)
                            \/ DeleteObject(o)
    BY <1>2, UserType
  <1>3. CASE \E o \in Name : KedaFinalize(o)
    BY <1>3 DEF KedaFinalize, TypeOK
  <1>4. CASE UNCHANGED vars
    BY <1>4 DEF vars, TypeOK
  <1> QED
    BY <1>1, <1>2, <1>3, <1>4 DEF Next

\* Objects, ScaledObjects and both routing tables keep their types, and a
\* reconcile works on a spec a user gave the object.
THEOREM OperatorTypeCorrect == Spec => []TypeOK
  BY InitType, TypeStep, PTL DEF Spec

-----------------------------------------------------------------------------
(***************************************************************************)
(* Deletion.                                                               *)
(***************************************************************************)

\* With stable choices, the hosts of a spec are those of the hosts field, the
\* same for every spec of the object, and the ScaledObject is deleted under the
\* name it was created with.
LEMMA StableSpec ==
  ASSUME StableChoices, TypeOK, step \notin {"down", "idle"}
  PROVE  /\ SanitizedHosts(seen.spec) = seen.spec.hosts
         /\ AppScaledObjectName(seen.spec) = cur
         /\ \A s \in Choices[cur] : s.hosts = seen.spec.hosts
  BY BuiltTypes DEF StableChoices, TypeOK, SanitizedHosts, AppScaledObjectName

\* User operations never take a finalizer away, and delete outright only objects
\* that have none.
LEMMA UserKeeps ==
  ASSUME TypeOK, FinalizerInv, NEW o \in Name,
         \/ \E s \in Choices[o] : CreateObject(o, s) \/ EditObject(o, s)
         \/ DeleteObject(o)
  PROVE  FinalizerInv'
  <1>1. UserStep(o)
    BY DEF CreateObject, EditObject, DeleteObject
  <1>2. \A p \in DOMAIN objs : objs[p] \in Object
    BY MapTypes DEF TypeOK
  <1>3. /\ \A p : Protected(p) => Protected(p)'
        /\ \A p \in DOMAIN objs' : objs'[p].deleting => objs'[p].finalizer
    <2>0. \A p \in DOMAIN objs : objs[p].deleting => objs[p].finalizer
      BY DEF FinalizerInv
    <2>1. ASSUME NEW s \in Choices[o], CreateObject(o, s)
          PROVE  <1>3!:
      BY <2>0, <2>1 DEF CreateObject, Protected, Put
    <2>2. ASSUME NEW s \in Choices[o], EditObject(o, s)
          PROVE  <1>3!:
      BY <1>2, <2>0, <2>2 DEF EditObject, Protected, Put, Object
    <2>3. ASSUME DeleteObject(o)
          PROVE  <1>3!:
      BY <1>2, <2>0, <2>3 DEF DeleteObject, Protected, Put, Drop, Object
    <2> QED
      BY <2>1, <2>2, <2>3
  <1>4. RoutesOwned(cm)' /\ RoutesOwned(table)'
    BY <1>1, <1>3 DEF UserStep, FinalizerInv, RoutesOwned
  <1> QED
    BY <1>1, <1>3, <1>4 DEF UserStep, FinalizerInv, NoRoutesBy

\* Reading an object, and a restart, start from a clean control state.
LEMMA GetKeeps ==
  ASSUME TypeOK, FinalizerInv, (\E o \in Name : GetObject(o)) \/ Stop \/ Start
  PROVE  FinalizerInv'
  <1>1. \A p : Protected(p)' = Protected(p)
    BY DEF GetObject, Stop, Start, clusterVars, Protected
  <1>2. ASSUME NEW o \in Name, GetObject(o)
        PROVE  FinalizerInv'
    <2>1. RoutesOwned(cm)' /\ RoutesOwned(table)'
      BY <1>1, <1>2 DEF GetObject, clusterVars, FinalizerInv, RoutesOwned
    <2>2. CASE o \in DOMAIN objs
      BY <1>1, <1>2, <2>1, <2>2 DEF GetObject, clusterVars, FinalizerInv, Protected
    <2>3. CASE o \notin DOMAIN objs
      BY <1>1, <1>2, <2>1, <2>3 DEF GetObject, clusterVars, FinalizerInv
    <2> QED
      BY <2>2, <2>3
  <1>3. ASSUME Stop \/ Start
        PROVE  FinalizerInv'
    <2>1. RoutesOwned(cm)' /\ RoutesOwned(table)'
      BY <1>1, <1>3 DEF Stop, Start, clusterVars, FinalizerInv, RoutesOwned, Empty
    <2> QED
      BY <1>1, <1>3, <2>1 DEF Stop, Start, clusterVars, FinalizerInv
  <1> QED
    BY <1>2, <1>3

\* The finalizer is in the cluster before anything is created for the object.
LEMMA EnsureFinalizerKeeps ==
  ASSUME TypeOK, FinalizerInv, EnsureFinalizer
  PROVE  FinalizerInv'
  <1>1. seen \in Object /\ step = "ensureFinalizer" /\ ~failed
    BY BuiltTypes DEF EnsureFinalizer, FinalizerInv
  <1>2. objs' = objs \/ (objs' = Put(objs, cur, [seen EXCEPT !.finalizer = TRUE]) /\ objs[cur] = seen)
    BY DEF EnsureFinalizer
  <1>3. /\ \A p : Protected(p) => Protected(p)'
        /\ \A p \in DOMAIN objs' : objs'[p].deleting => objs'[p].finalizer
    BY <1>1, <1>2 DEF Protected, Put, Object, FinalizerInv
  <1>4. UNCHANGED <<sos, cm, table, cur>> /\ ~failed' /\ step' \in {"create", "idle"}
    BY <1>1 DEF EnsureFinalizer, Continue, ReturnError
  <1>5. RoutesOwned(cm)' /\ RoutesOwned(table)'
    BY <1>3, <1>4 DEF FinalizerInv, RoutesOwned
  <1>6. step' = "create" => Protected(cur)'
    <2>1. CASE seen.finalizer
      BY <1>1, <1>3, <1>4, <2>1 DEF FinalizerInv
    <2>2. CASE ~seen.finalizer /\ step' = "create"
      <3>1. objs' = Put(objs, cur, [seen EXCEPT !.finalizer = TRUE])
        BY <2>2 DEF EnsureFinalizer, ReturnError
      <3> QED
        BY <1>1, <1>4, <3>1 DEF Protected, Put, Object
    <2> QED
      BY <2>1, <2>2
  <1> QED
    BY <1>3, <1>4, <1>5, <1>6 DEF FinalizerInv

\* What is created is protected.
LEMMA CreateKeeps ==
  ASSUME StableChoices, TypeOK, FinalizerInv, CreateOrUpdateScaledObject \/ AddRoutes
  PROVE  FinalizerInv'
  <1>1. Protected(cur) /\ ~failed /\ step \notin {"down", "idle"} /\ UNCHANGED <<objs, cur>>
    BY CreateOrUpdateStep DEF AddRoutes, FinalizerInv
  <1>2. \A p : Protected(p)' = Protected(p)
    BY <1>1 DEF Protected
  <1>3. ASSUME CreateOrUpdateScaledObject
        PROVE  FinalizerInv'
    <2>1. UNCHANGED <<objs, cm, table, cur>>
      BY <1>3, CreateOrUpdateStep
    <2>2. \A o \in DOMAIN sos' : Protected(o)'
      BY <1>1, <1>2, <1>3, CreateOrUpdateStep DEF FinalizerInv, Put
    <2>3. RoutesOwned(cm)' /\ RoutesOwned(table)'
      BY <1>2, <2>1 DEF FinalizerInv, RoutesOwned
    <2>4. \/ step' \in {"get", "patch", "route"} /\ ~failed'
          \/ step' = "removeSO" /\ failed'
      BY <1>1, <1>3, CreateOrUpdateStep DEF Continue, Undo
    <2> QED
      BY <1>1, <1>2, <2>1, <2>2, <2>3, <2>4 DEF FinalizerInv
  <1>4. ASSUME AddRoutes
        PROVE  FinalizerInv'
    <2>1. RoutesOwned(table)'
      <3>1. table' = AddTargets(table, cur, seen.spec)
        BY <1>4 DEF AddRoutes
      <3>2. NewTarget(cur, seen.spec).by = cur
        BY DEF NewTarget
      <3>3. \A h \in SanitizedHosts(seen.spec) : \A s \in Choices[cur] : h \in s.hosts
        BY <1>1, StableSpec
      <3>4. RoutesOwned(table)
        BY DEF FinalizerInv
      <3> QED
        BY <1>1, <1>2, <3>1, <3>2, <3>3, <3>4 DEF RoutesOwned, AddTargets
    <2>2. RoutesOwned(cm)'
      <3>1. cm' = cm \/ cm' = table'
        BY <1>4 DEF AddRoutes
      <3> QED
        BY <1>2, <2>1, <3>1 DEF FinalizerInv, RoutesOwned
    <2>3. \/ step' = "idle" /\ ~failed'
          \/ step' = "removeSO" /\ failed'
      BY <1>1, <1>4 DEF AddRoutes, Return, Undo
    <2> QED
      BY <1>1, <1>2, <1>4, <2>1, <2>2, <2>3 DEF AddRoutes, FinalizerInv
  <1> QED
    BY <1>3, <1>4

\* Once the ScaledObject is deleted, none of that name is left.
LEMMA RemoveScaledObjectKeeps ==
  ASSUME StableChoices, TypeOK, FinalizerInv, RemoveScaledObject
  PROVE  FinalizerInv'
  <1>1. \A p : Protected(p)' = Protected(p)
    BY DEF RemoveScaledObject, Protected
  <1>2. AppScaledObjectName(seen.spec) = cur
    BY StableSpec DEF RemoveScaledObject
  <1>3. RoutesOwned(cm)' /\ RoutesOwned(table)'
    BY <1>1 DEF RemoveScaledObject, FinalizerInv, RoutesOwned
  <1>4. \A o \in DOMAIN sos' : Protected(o)'
    BY <1>1 DEF RemoveScaledObject, FinalizerInv, Drop
  <1>5. \/ step' = "idle" /\ ~failed'
        \/ step' = "removeRoutes" /\ failed' = failed /\ cur \notin DOMAIN sos'
    BY <1>2 DEF RemoveScaledObject, Continue, ReturnError, Drop
  <1>6. \A o \in DOMAIN objs' : objs'[o].deleting => objs'[o].finalizer
    BY DEF RemoveScaledObject, FinalizerInv
  <1>7. cur' = cur /\ (failed => Protected(cur))
    BY DEF RemoveScaledObject, FinalizerInv
  <1> QED
    BY <1>1, <1>3, <1>4, <1>5, <1>6, <1>7 DEF FinalizerInv

\* The table that is published no longer has a route of the object, and a
\* deletion goes on only when the table was published.
LEMMA RemoveRoutesKeeps ==
  ASSUME StableChoices, TypeOK, FinalizerInv, RemoveRoutes
  PROVE  FinalizerInv'
  <1>1. (\A p : Protected(p)' = Protected(p)) /\ UNCHANGED <<objs, sos, cur>>
    BY DEF RemoveRoutes, Protected
  <1>2. table' = Drop(table, seen.spec.hosts) /\ seen.spec \in Choices[cur]
    BY StableSpec, BuiltTypes DEF RemoveRoutes
  <1>3. RoutesOwned(table)' /\ NoRoutesBy(table', cur)
    BY <1>1, <1>2 DEF FinalizerInv, RoutesOwned, NoRoutesBy, Drop
  <1>4. RoutesOwned(cm)'
    <2>1. cm' = cm \/ cm' = table'
      BY DEF RemoveRoutes
    <2> QED
      BY <1>1, <1>3, <2>1 DEF FinalizerInv, RoutesOwned
  <1>5. \/ step' = "idle" /\ ~failed'
        \/ step' = "finalize" /\ ~failed' /\ cm' = table'
    BY DEF RemoveRoutes, Continue, ReturnError
  <1>6. cur \notin DOMAIN sos
    BY DEF RemoveRoutes, FinalizerInv
  <1>7. \A o \in DOMAIN sos' : Protected(o)'
    BY <1>1 DEF FinalizerInv
  <1>8. \A o \in DOMAIN objs' : objs'[o].deleting => objs'[o].finalizer
    BY <1>1 DEF FinalizerInv
  <1>9. step' = "finalize" => NoRoutesBy(cm', cur') /\ NoRoutesBy(table', cur')
    BY <1>1, <1>3, <1>5
  <1> QED
    BY <1>1, <1>3, <1>4, <1>5, <1>6, <1>7, <1>8, <1>9 DEF FinalizerInv

\* The object is let go only when nothing of it is left.
LEMMA FinalizeKeeps ==
  ASSUME TypeOK, FinalizerInv, Finalize
  PROVE  FinalizerInv'
  <1>1. objs' = objs \/ objs' = Drop(objs, {cur})
    BY DEF Finalize
  <1>2. \A p : p # cur /\ Protected(p) => Protected(p)'
    BY <1>1 DEF Protected, Drop
  <1>3. cur \notin DOMAIN sos /\ NoRoutesBy(cm, cur) /\ NoRoutesBy(table, cur)
    BY DEF Finalize, FinalizerInv
  <1>4. \A o \in DOMAIN objs' : objs'[o].deleting => objs'[o].finalizer
    BY <1>1 DEF Drop, FinalizerInv
  <1>5. RoutesOwned(cm)' /\ RoutesOwned(table)'
    BY <1>2, <1>3 DEF Finalize, FinalizerInv, RoutesOwned, NoRoutesBy
  <1>6. \A o \in DOMAIN sos' : Protected(o)'
    BY <1>2, <1>3 DEF Finalize, FinalizerInv
  <1>7. step' = "idle" /\ ~failed'
    BY DEF Finalize, Return, ReturnError
  <1> QED
    BY <1>4, <1>5, <1>6, <1>7 DEF FinalizerInv

\* FinalizerInv is inductive.
LEMMA FinalizerStep ==
  ASSUME StableChoices
  PROVE  TypeOK /\ FinalizerInv /\ [Next]_vars => FinalizerInv'
  <1> SUFFICES ASSUME TypeOK, FinalizerInv, [Next]_vars PROVE FinalizerInv'
    OBVIOUS
  <1>1. CASE Reconcile \/ Stop \/ Start
    BY <1>1, GetKeeps, EnsureFinalizerKeeps, CreateKeeps, RemoveScaledObjectKeeps,
       RemoveRoutesKeeps, FinalizeKeeps DEF Reconcile
  <1>2. CASE \E o \in Name : \/ \E s \in Choices[o] : CreateObject(o, s) \/ EditObject(o, s)
                            \/ DeleteObject(o)
    BY <1>2, UserKeeps
  <1>3. CASE UNCHANGED vars \/ \E o \in Name : KedaFinalize(o)
    <2>1. UNCHANGED <<objs, sos, cm, table, step, cur, seen, failed>>
      BY <1>3 DEF vars, KedaFinalize
    <2>2. \A o : Protected(o)' = Protected(o)
      BY <2>1 DEF Protected
    <2>3. RoutesOwned(cm)' /\ RoutesOwned(table)'
      BY <2>1, <2>2 DEF FinalizerInv, RoutesOwned
    <2> QED
      BY <2>1, <2>2, <2>3 DEF FinalizerInv, NoRoutesBy
  <1> QED
    BY <1>1, <1>2, <1>3 DEF Next

\* With objects that are named like their deployments and whose hosts field is
\* given and not edited, a deleted object leaves neither a ScaledObject nor a route
\* behind, whatever calls fail and wherever the operator restarts.
THEOREM DeletionIsComplete ==
  ASSUME StableChoices
  PROVE  Spec => []DeletedLeavesNothing
  <1>1. Init => FinalizerInv
    BY DEF Init, FinalizerInv, RoutesOwned, Empty
  <1>2. TypeOK /\ FinalizerInv => DeletedLeavesNothing
    BY DEF FinalizerInv, DeletedLeavesNothing, RoutesOwned, Protected
  <1> QED
    BY <1>1, <1>2, FinalizerStep, OperatorTypeCorrect, PTL DEF Spec
=============================================================================
