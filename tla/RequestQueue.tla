---------------------------- MODULE RequestQueue ----------------------------
(***************************************************************************)
(* queue.Memory (pkg/queue/queue.go): the pending-request counts of one    *)
(* interceptor process, and the goroutine ProcessPostponedResizes that     *)
(* ends the cooldown of a host.                                            *)
(*                                                                         *)
(* Every method takes r.mut for its whole body, so a call is one step.     *)
(* ProcessPostponedResizes takes it twice in each round, so a round is two *)
(* steps: the scan that collects hostsToModify and the modification.       *)
(*                                                                         *)
(* A Go map is a function whose domain is the set of keys present.  The    *)
(* deadline stored for a host matters only through resizeTime.Before(now): *)
(* it is "running" when stored and "expired" from some later step on.      *)
(***************************************************************************)
EXTENDS Integers

CONSTANTS Host,             \* the keys requests are counted under
          ShouldPostpone    \* KEDA_HTTP_ENABLE_REQUEST_QUEUE_COOLDOWN

ASSUME ShouldPostponeAssumption == ShouldPostpone \in BOOLEAN

VARIABLES countMap,         \* Memory.countMap
          postponedResizes, \* Memory.postponedResizes
          enforcer,         \* where ProcessPostponedResizes is in its loop
          hostsToModify     \* its local variable

queueVars == <<countMap, postponedResizes, enforcer, hostsToModify>>

Deadline == {"running", "expired"}

(***************************************************************************)
(* Go maps.                                                                *)
(***************************************************************************)
Store(m, k, v) == [x \in DOMAIN m \cup {k} |-> IF x = k THEN v ELSE m[x]]

Without(m, S) == [x \in DOMAIN m \ S |-> m[x]]

EmptyMap == [x \in {} |-> 0]

-----------------------------------------------------------------------------
(***************************************************************************)
(* The methods.                                                            *)
(***************************************************************************)
NewMemory ==
  /\ countMap = EmptyMap
  /\ postponedResizes = EmptyMap
  /\ enforcer = "scan"
  /\ hostsToModify = {}

\* Reading an absent key of countMap gives 0.
Count(h) == IF h \in DOMAIN countMap THEN countMap[h] ELSE 0

\* Mutant of Resize: the new size is the delta, not the old size plus it.
ResizeForgetsOldCount(h, delta) == countMap' = Store(countMap, h, delta)

Resize(h, delta) == countMap' = Store(countMap, h, Count(h) + delta)

\* Mutant of PostponeResize: a host that is already waiting for its cooldown
\* loses its deadline.
PostponeResizeToggles(h) ==
  postponedResizes' = IF h \in DOMAIN postponedResizes
                      THEN Without(postponedResizes, {h})
                      ELSE Store(postponedResizes, h, "running")

PostponeResize(h) == postponedResizes' = Store(postponedResizes, h, "running")

\* The clock passes the deadline stored for h.
Expire(h) ==
  /\ h \in DOMAIN postponedResizes
  /\ postponedResizes[h] = "running"
  /\ postponedResizes' = Store(postponedResizes, h, "expired")
  /\ UNCHANGED <<countMap, enforcer, hostsToModify>>

\* First critical section of a round: collect the expired hosts of size 1.
ScanPostponed ==
  /\ enforcer = "scan"
  /\ hostsToModify' = {h \in DOMAIN postponedResizes :
                         postponedResizes[h] = "expired" /\ Count(h) = 1}
  /\ enforcer' = "modify"
  /\ UNCHANGED <<countMap, postponedResizes>>

\* Mutant of ModifyPostponed: the deadline is dropped, the count stays.
ModifyPostponedKeepsCount ==
  /\ enforcer = "modify"
  /\ postponedResizes' = Without(postponedResizes, hostsToModify)
  /\ hostsToModify' = {}
  /\ enforcer' = "scan"
  /\ UNCHANGED countMap

\* Second critical section: nothing is checked again before the counts of the
\* collected hosts are set to zero and their deadlines deleted.
ModifyPostponed ==
  /\ enforcer = "modify"
  /\ countMap' = [x \in DOMAIN countMap \cup hostsToModify |->
                    IF x \in hostsToModify THEN 0 ELSE countMap[x]]
  /\ postponedResizes' = Without(postponedResizes, hostsToModify)
  /\ hostsToModify' = {}
  /\ enforcer' = "scan"

ProcessPostponedResizes == ScanPostponed \/ ModifyPostponed

QueueTypeOK ==
  /\ DOMAIN countMap \subseteq Host
  /\ countMap \in [DOMAIN countMap -> Int]
  /\ DOMAIN postponedResizes \subseteq Host
  /\ postponedResizes \in [DOMAIN postponedResizes -> Deadline]
  /\ enforcer \in {"scan", "modify"}
  /\ hostsToModify \subseteq Host
=============================================================================
