------------------------------ MODULE Bindings ------------------------------
(***************************************************************************)
(* What becomes of a BoundEndpoint once the poller has made it: the        *)
(* BoundEndpoint controller of the api-manager turns it into a Target and  *)
(* an Upstream Service                                                     *)
(* (internal/controller/bindings/boundendpoint_controller.go), and every   *)
(* replica of the bindings-forwarder listens on its port                   *)
(* (forwarder_controller.go, pkg/bindingsdriver/driver.go).                *)
(*                                                                         *)
(* Both controllers run BaseController.Reconcile on the same objects, put  *)
(* the same finalizer on them and take it off: whoever comes first         *)
(* releases the object.  The poller is the environment here; the module    *)
(* BoundEndpointPoller has its details.  The content of the status is left  *)
(* out, and so are labels, annotations and the wire protocol.              *)
(***************************************************************************)
EXTENDS Naturals

CONSTANTS
    None,        \* no object, no Service, no listener
    Names,       \* names of BoundEndpoints
    TargetOf,    \* the Target Service of each name
    Ports,       \* ports the poller gives out
    Manager,     \* the api-manager
    Replicas,    \* the replicas of the bindings-forwarder
    Faults,      \* the kinds of disturbance that may happen
    MaxFaults,   \* how many of them
    MaxObjects   \* bound on BoundEndpoints made by the poller

Procs == {Manager} \cup Replicas

FaultKinds == {"change", "service", "listen", "crash", "user", "drain", "refresh"}

ASSUME BindingsAssumption ==
    /\ Manager \notin Replicas
    /\ \A m, n \in Names : TargetOf[m] = TargetOf[n] => m = n
    /\ Replicas # {}
    /\ Ports \subseteq Nat
    /\ Faults \subseteq FaultKinds
    /\ MaxFaults \in Nat
    /\ MaxObjects \in Nat

VARIABLES
    be,         \* the BoundEndpoints in the API server
    cache,      \* the BoundEndpoints in the cache of each process
    queue,      \* the names in the work queue of each process
    work,       \* the reconcile in progress in each process
    target,     \* the Target Services, in the namespace of the target
    upstream,   \* the Upstream Services, in the operator's namespace
    namespace,  \* the namespace of the targets exists
    listeners,  \* listenerMap of each replica
    draining,   \* what IsDraining answers in the forwarder
    want,       \* version of the bound endpoints the poller has fetched
    objects,    \* number of BoundEndpoints made so far
    clash,      \* ports given out while a BoundEndpoint being deleted had them
    faults      \* number of disturbances so far

services == <<target, upstream, namespace>>
outside == <<draining, want, objects, clash>>
vars == <<be, cache, queue, work, services, listeners, outside, faults>>

Targets == {TargetOf[n] : n \in Names}
Versions == 0..MaxFaults
Uids == 1..MaxObjects

\* gen stands for the fields of Spec other than the port.
BoundEndpoints ==
    [uid : Uids, port : Ports, gen : Versions, deleting : BOOLEAN, finalizer : BOOLEAN]

Services == [name : Names, uid : Uids, port : Ports, gen : Versions]

Steps == {"idle", "register", "unregister",
          "upstream", "target", "status", "deleteTarget", "deleteUpstream",
          "listen", "close"}

Idle == [pc |-> "idle", name |-> None, obj |-> None, failed |-> FALSE]

\* A reconcile: the next step, the name, the copy of the object, and whether the
\* update has failed.
Works == [pc : Steps \ {"idle"}, name : Names, obj : BoundEndpoints, failed : BOOLEAN]

Listeners == [name : Names, uid : Uids]

ASSUME NoneAssumption == None \notin Names \cup BoundEndpoints \cup Services \cup Listeners

TypeOK ==
    /\ be \in [Names -> BoundEndpoints \cup {None}]
    /\ cache \in [Procs -> [Names -> BoundEndpoints \cup {None}]]
    /\ queue \in [Procs -> SUBSET Names]
    /\ work \in [Procs -> Works \cup {Idle}]
    /\ target \in [Targets -> Services \cup {None}]
    /\ upstream \in [Names -> Services \cup {None}]
    /\ namespace \in BOOLEAN
    /\ ~namespace => \A t \in Targets : target[t] = None
    /\ listeners \in [Replicas -> [Ports -> Listeners \cup {None}]]
    /\ draining \in BOOLEAN
    /\ want \in 0..faults
    /\ objects \in 0..MaxObjects
    /\ clash \subseteq Ports
    /\ faults \in 0..MaxFaults

Init ==
    /\ be = [n \in Names |-> None]
    /\ cache = [p \in Procs |-> be]
    /\ queue = [p \in Procs |-> {}]
    /\ work = [p \in Procs |-> Idle]
    /\ target = [t \in Targets |-> None]
    /\ upstream = [n \in Names |-> None]
    /\ namespace = TRUE
    /\ listeners = [r \in Replicas |-> [p \in Ports |-> None]]
    /\ draining = FALSE
    /\ want = 0
    /\ objects = 0
    /\ clash = {}
    /\ faults = 0

Live(n) == be[n] # None /\ ~be[n].deleting

Fault(kind) ==
    /\ kind \in Faults
    /\ faults < MaxFaults
    /\ faults' = faults + 1

(***************************************************************************)
(* The poller.  Its allocator knows no port of a BoundEndpoint that it has *)
(* asked to delete, so a new one may get the port before the old one is    *)
(* gone.  It works on the api-manager's cache.                             *)
(***************************************************************************)
createBinding(n) ==
    /\ be[n] = None
    /\ objects < MaxObjects
    /\ objects' = objects + 1
    /\ \E p \in Ports :
          /\ \A m \in Names : Live(m) => be[m].port # p
          /\ be' = [be EXCEPT ![n] =
                [uid |-> objects + 1, port |-> p, gen |-> want, deleting |-> FALSE,
                 finalizer |-> FALSE]]
          /\ clash' = clash \cup {q \in {p} : \E m \in Names : be[m] # None /\ be[m].port = q}
    /\ UNCHANGED <<cache, queue, work, services, listeners, draining, want, faults>>

updateBinding(n) ==
    /\ be[n] # None
    /\ cache[Manager][n] = be[n]
    /\ be[n].gen # want
    /\ be' = [be EXCEPT ![n].gen = want]
    /\ UNCHANGED <<cache, queue, work, services, listeners, outside, faults>>

deleteBinding(n) ==
    /\ Live(n)
    /\ be' = [be EXCEPT ![n] = IF @.finalizer THEN [@ EXCEPT !.deleting = TRUE] ELSE None]
    /\ UNCHANGED <<cache, queue, work, services, listeners, outside, faults>>

\* The endpoints aggregated under the URL, or the configured metadata, change.
EndpointsChange ==
    /\ Fault("change")
    /\ want' = want + 1
    /\ UNCHANGED <<be, cache, queue, work, services, listeners, draining, objects, clash>>

(***************************************************************************)
(* Users, the KubernetesOperator, the API server's watches.                *)
(***************************************************************************)

\* The owners of the Services in S that the api-manager finds in its cache
\* (findBoundEndpointsForService).
Owners(S) == {n \in Names : cache[Manager][n] # None /\ \E s \in S : s # None /\ s.name = n}

\* An update of a Service passes no predicate; its removal does.
UserDeletesService(n) ==
    /\ Fault("user")
    /\ \/ /\ upstream[n] # None
          /\ upstream' = [upstream EXCEPT ![n] = None]
          /\ queue' = [queue EXCEPT ![Manager] = @ \cup Owners({upstream[n]})]
          /\ UNCHANGED target
       \/ /\ target[TargetOf[n]] # None
          /\ target' = [target EXCEPT ![TargetOf[n]] = None]
          /\ queue' = [queue EXCEPT ![Manager] = @ \cup Owners({target[TargetOf[n]]})]
          /\ UNCHANGED upstream
    /\ UNCHANGED <<be, cache, work, namespace, listeners, outside>>

UserDeletesNamespace ==
    /\ Fault("user")
    /\ namespace
    /\ namespace' = FALSE
    /\ target' = [t \in Targets |-> None]
    /\ queue' = [queue EXCEPT ![Manager] = @ \cup Owners({target[t] : t \in Targets})]
    /\ UNCHANGED <<be, cache, work, upstream, listeners, outside>>

\* findBoundEndpointsForNamespace.
UserCreatesNamespace ==
    /\ ~namespace
    /\ namespace' = TRUE
    /\ queue' = [queue EXCEPT ![Manager] = @ \cup {n \in Names : cache[Manager][n] # None}]
    /\ UNCHANGED <<be, cache, work, target, upstream, listeners, outside, faults>>

\* The deletion of the KubernetesOperator.
SetDraining ==
    /\ Fault("drain")
    /\ ~draining
    /\ draining' = TRUE
    /\ UNCHANGED <<be, cache, queue, work, services, listeners, want, objects, clash>>

\* GenerationChangedPredicate or AnnotationChangedPredicate, in both controllers.
PassesPredicate(old, new) ==
    \/ old = None
    \/ new = None
    \/ old.uid # new.uid
    \/ old.gen # new.gen
    \/ old.deleting # new.deleting

CacheCatchesUp(p) ==
    /\ cache[p] # be
    /\ cache' = [cache EXCEPT ![p] = be]
    /\ queue' = [queue EXCEPT ![p] =
          @ \cup {n \in Names : cache[p][n] # be[n] /\ PassesPredicate(cache[p][n], be[n])}]
    /\ UNCHANGED <<be, work, services, listeners, outside, faults>>

\* RequeueAfter: RefreshDuration; the forwarder has nothing of the kind.
Refresh(n) ==
    /\ Fault("refresh")
    /\ cache[Manager][n] # None
    /\ queue' = [queue EXCEPT ![Manager] = @ \cup {n}]
    /\ UNCHANGED <<be, cache, work, services, listeners, outside>>

\* A process stops and another takes its place; listeners die with it.
Crash(p) ==
    /\ Fault("crash")
    /\ work' = [work EXCEPT ![p] = Idle]
    /\ cache' = [cache EXCEPT ![p] = be]
    /\ queue' = [queue EXCEPT ![p] = {n \in Names : be[n] # None}]
    /\ listeners' = [r \in Replicas |-> IF r = p THEN [q \in Ports |-> None] ELSE listeners[r]]
    /\ UNCHANGED <<be, services, outside>>

(***************************************************************************)
(* BaseController.Reconcile, for both controllers.                         *)
(***************************************************************************)
UpsertStep(p) == IF p = Manager THEN "upstream" ELSE "listen"
DeleteStep(p) == IF p = Manager THEN "deleteTarget" ELSE "close"

\* Mutant of Branch: the finalizer is taken for the sign of a deletion.
BranchOnFinalizer(p, o) ==
    CASE o = None -> "idle"
      [] o # None /\ ~o.finalizer -> "register"
      [] o # None /\ o.finalizer -> DeleteStep(p)

\* Both controllers have a StatusID that is never empty: an upsert is an update.
Branch(p, o) ==
    CASE o = None -> "idle"
      [] o # None /\ ~o.deleting /\ p # Manager /\ draining -> "idle"
      [] o # None /\ ~o.deleting /\ (p = Manager \/ ~draining) ->
            IF o.finalizer THEN UpsertStep(p) ELSE "register"
      [] o # None /\ o.deleting -> IF o.finalizer THEN DeleteStep(p) ELSE "idle"

Reconcile(p, n) ==
    /\ n \in queue[p]
    /\ work[p] = Idle
    /\ queue' = [queue EXCEPT ![p] = @ \ {n}]
    /\ LET next == Branch(p, cache[p][n])
       IN  work' = [work EXCEPT ![p] =
              IF next = "idle" THEN Idle
              ELSE [pc |-> next, name |-> n, obj |-> cache[p][n], failed |-> FALSE]]
    /\ UNCHANGED <<be, cache, services, listeners, outside, faults>>

\* Mutant of Return: the error is logged and forgotten.
ReturnDropsError(p, err) ==
    /\ work' = [work EXCEPT ![p] = Idle]
    /\ UNCHANGED queue

\* Reconcile returns; an error puts the name back in the queue.
Return(p, err) ==
    /\ work' = [work EXCEPT ![p] = Idle]
    /\ queue' = [queue EXCEPT ![p] = IF err THEN @ \cup {work[p].name} ELSE @]

GoOn(p, step, o, failed) ==
    work' = [work EXCEPT ![p] =
                [pc |-> step, name |-> work[p].name, obj |-> o, failed |-> failed]]

\* RegisterAndSyncFinalizer patches by name; the answer replaces the copy.
RegisterFinalizer(p) ==
    LET n == work[p].name
    IN  /\ work[p].pc = "register"
        /\ IF be[n] = None
           THEN Return(p, TRUE) /\ UNCHANGED be
           ELSE /\ be' = [be EXCEPT ![n].finalizer = TRUE]
                /\ GoOn(p, UpsertStep(p), be'[n], FALSE)
                /\ UNCHANGED queue
        /\ UNCHANGED <<cache, services, listeners, outside, faults>>

\* RemoveAndSyncFinalizer patches by name too: the object it meets may be a
\* later one.
RemoveFinalizer(p) ==
    LET n == work[p].name
    IN  /\ work[p].pc = "unregister"
        /\ IF be[n] = None
           THEN Return(p, TRUE) /\ UNCHANGED be
           ELSE /\ be' = [be EXCEPT ![n] = IF @.deleting THEN None
                                           ELSE [@ EXCEPT !.finalizer = FALSE]]
                /\ Return(p, FALSE)
        /\ UNCHANGED <<cache, services, listeners, outside, faults>>

(***************************************************************************)
(* BoundEndpointReconciler.                                                *)
(***************************************************************************)
mgr == work[Manager]

\* convertBoundEndpointToServices.
ServiceFor(n, o) == [name |-> n, uid |-> o.uid, port |-> o.port, gen |-> o.gen]

\* update: the Upstream Service is made or brought up to date ...
UpdateUpstream ==
    /\ mgr.pc = "upstream"
    /\ upstream' = [upstream EXCEPT ![mgr.name] = ServiceFor(mgr.name, mgr.obj)]
    /\ GoOn(Manager, "target", mgr.obj, FALSE)
    /\ UNCHANGED <<be, cache, queue, target, namespace, listeners, outside, faults>>

\* ... then the Target Service.
UpdateTarget ==
    /\ mgr.pc = "target"
    /\ namespace
    /\ target' = [target EXCEPT ![TargetOf[mgr.name]] = ServiceFor(mgr.name, mgr.obj)]
    /\ GoOn(Manager, "status", mgr.obj, FALSE)
    /\ UNCHANGED <<be, cache, queue, upstream, namespace, listeners, outside, faults>>

\* A call fails (a stale copy of the Service is one reason) or the namespace is
\* missing.
UpdateServiceFails ==
    /\ mgr.pc \in {"upstream", "target"}
    /\ \/ Fault("service")
       \/ mgr.pc = "target" /\ ~namespace /\ UNCHANGED faults
    /\ GoOn(Manager, "status", mgr.obj, TRUE)
    /\ UNCHANGED <<be, cache, queue, services, listeners, outside>>

\* After the connectivity test, updateStatus: the write needs the object of the
\* cached copy, and a cache that is not behind.  The error of the update, if
\* any, is what Reconcile returns.
UpdateStatus ==
    LET n == mgr.name
    IN  /\ mgr.pc = "status"
        /\ be[n] # None
        /\ cache[Manager][n] = be[n]
        /\ Return(Manager, mgr.failed)
        /\ UNCHANGED <<be, cache, services, listeners, outside, faults>>

UpdateStatusFails ==
    /\ mgr.pc = "status"
    /\ \/ Fault("service")
       \/ be[mgr.name] = None /\ UNCHANGED faults
       \/ cache[Manager][mgr.name] # be[mgr.name] /\ UNCHANGED faults
    /\ Return(Manager, TRUE)
    /\ UNCHANGED <<be, cache, services, listeners, outside>>

\* deleteBoundEndpointServices, up to the Target Service.  When that one is
\* missing the Upstream Service stays.
DeleteTarget ==
    LET t == TargetOf[mgr.name]
    IN  /\ mgr.pc = "deleteTarget"
        /\ GoOn(Manager,
                IF namespace /\ target[t] = None THEN "unregister" ELSE "deleteUpstream",
                mgr.obj, FALSE)
        /\ target' = [target EXCEPT ![t] = None]
        /\ UNCHANGED <<be, cache, queue, upstream, namespace, listeners, outside, faults>>

DeleteUpstream ==
    /\ mgr.pc = "deleteUpstream"
    /\ upstream' = [upstream EXCEPT ![mgr.name] = None]
    /\ GoOn(Manager, "unregister", mgr.obj, FALSE)
    /\ UNCHANGED <<be, cache, queue, target, namespace, listeners, outside, faults>>

DeleteServiceFails ==
    /\ mgr.pc \in {"deleteTarget", "deleteUpstream"}
    /\ Fault("service")
    /\ Return(Manager, TRUE)
    /\ UNCHANGED <<be, cache, services, listeners, outside>>

(***************************************************************************)
(* ForwarderReconciler and its BindingsDriver.                             *)
(***************************************************************************)

\* update, then Listen: a port that has a listener keeps the one it has, with
\* its handler.
Listen(r) ==
    LET o == work[r].obj
    IN  /\ work[r].pc = "listen"
        /\ listeners' = [listeners EXCEPT ![r][o.port] =
              IF @ = None THEN [name |-> work[r].name, uid |-> o.uid] ELSE @]
        /\ Return(r, FALSE)
        /\ UNCHANGED <<be, cache, services, outside, faults>>

\* The KubernetesOperator has no binding configuration or no ingress endpoint,
\* or the port cannot be opened.
ListenFails(r) ==
    /\ work[r].pc = "listen"
    /\ Fault("listen")
    /\ Return(r, TRUE)
    /\ UNCHANGED <<be, cache, services, listeners, outside>>

\* delete, then Close.
Close(r) ==
    /\ work[r].pc = "close"
    /\ listeners' = [listeners EXCEPT ![r][work[r].obj.port] = None]
    /\ GoOn(r, "unregister", work[r].obj, FALSE)
    /\ UNCHANGED <<be, cache, queue, services, outside, faults>>

-----------------------------------------------------------------------------

BoundEndpointSteps ==
    \/ UpdateUpstream \/ UpdateTarget \/ UpdateServiceFails
    \/ UpdateStatus \/ UpdateStatusFails
    \/ DeleteTarget \/ DeleteUpstream \/ DeleteServiceFails

ForwarderSteps(r) == Listen(r) \/ ListenFails(r) \/ Close(r)

Step(p) ==
    \/ RegisterFinalizer(p)
    \/ RemoveFinalizer(p)
    \/ p = Manager /\ BoundEndpointSteps
    \/ p \in Replicas /\ ForwarderSteps(p)

Poller ==
    \/ EndpointsChange
    \/ \E n \in Names : createBinding(n) \/ updateBinding(n) \/ deleteBinding(n)

Users ==
    \/ UserDeletesNamespace
    \/ UserCreatesNamespace
    \/ \E n \in Names : UserDeletesService(n)

Quiescent ==
    /\ \A p \in Procs : queue[p] = {} /\ work[p] = Idle
    /\ UNCHANGED vars

Next ==
    \/ Poller
    \/ Users
    \/ SetDraining
    \/ \E n \in Names : Refresh(n)
    \/ \E p \in Procs :
          \/ CacheCatchesUp(p)
          \/ Crash(p)
          \/ Step(p)
          \/ \E n \in Names : Reconcile(p, n)
    \/ Quiescent

Spec == Init /\ [][Next]_vars

-----------------------------------------------------------------------------
(***************************************************************************)
(* Properties.                                                             *)
(***************************************************************************)

\* A reconcile of n by p is to come: the name is queued, the cache has an event
\* to deliver, or a reconcile under way will fail, or is at one of the steps
\* with a copy of the present object.
Coming(p, n, steps) ==
    \/ n \in queue[p]
    \/ PassesPredicate(cache[p][n], be[n])
    \/ /\ work[p].name = n
       /\ \/ work[p].failed
          \/ work[p].pc \in steps /\ ~PassesPredicate(work[p].obj, be[n])

\* However a BoundEndpoint is edited, deleted, released by one process under the
\* hands of another and made again, and whatever users do to the Services: the
\* Services of a live BoundEndpoint are made from its present spec, or a
\* reconcile that makes them is to come.
NoMissedServices ==
    \A n \in Names : Live(n) =>
       /\ \/ upstream[n] = ServiceFor(n, be[n])
          \/ Coming(Manager, n, {"register", "upstream"})
       /\ \/ ~namespace
          \/ target[TargetOf[n]] = ServiceFor(n, be[n])
          \/ Coming(Manager, n, {"register", "upstream", "target"})

\* Every replica listens on the port of a live BoundEndpoint or will come to it,
\* although it closes ports by number and another BoundEndpoint may have had the
\* port before; not so when the poller gave out the port before that one was gone.
NoMissedListener ==
    \A r \in Replicas, n \in Names :
       Live(n) /\ ~draining /\ be[n].port \notin clash =>
          \/ listeners[r][be[n].port] # None
          \/ Coming(r, n, {"register", "listen"})

=============================================================================
