---------------------------- MODULE DriverStore ----------------------------
(***************************************************************************)
(* The controllers that feed the driver: of Ingresses, Gateways, Gateway   *)
(* classes, HTTP, TCP and TLS routes, and of the ReferenceGrants and       *)
(* Namespaces, which are only passed on.  Each keeps a copy of its objects *)
(* in the driver's store, a finalizer on them, and asks for a Sync, which  *)
(* makes the endpoints of what the store holds.  Watches of other kinds    *)
(* write the store too, and ask for nothing.                               *)
(*                                                                         *)
(* There is one object of each kind.  What it refers to, its class, its    *)
(* parent, is this operator's ("ours") or not ("other"); what the          *)
(* references mean in detail is in IngressTranslation and                  *)
(* GatewayTranslation, what a Sync does with the endpoints in              *)
(* EndpointSync, who runs it in SyncDebounce.                              *)
(***************************************************************************)
EXTENDS Naturals, FiniteSets

CONSTANTS
    None,
    Objects,   \* the kinds of object there are
    MaxEvents  \* bound on edits, faults and restarts

VARIABLES
    obj,       \* the objects in the API server
    seen,      \* the informer caches
    news,      \* the objects whose generation the caches do not have
    store,     \* what the driver's store knows of each object: where it refers to
    synced,    \* the store as the last Sync read it
    requests,  \* the work queues
    works,     \* the reconciles in progress
    draining,  \* what IsDraining answers
    skipped,   \* ghost: the objects that their last reconcile took for another's
    lost,      \* ghost: the objects whose last write was left out for a stale copy, and
               \* the HTTPRoute when it was skipped before its class came
    cut,       \* ghost: no Sync since the restart
    happened

cluster == <<obj, seen, news>>
ghosts == <<skipped, lost, cut>>
driverVars == <<cluster, store, synced, requests, works, draining, ghosts, happened>>

Kinds == {"ing", "iclass", "svc", "gw", "gclass", "http", "tcp", "tls", "grant", "ns"}
Routes == {"http", "tcp", "tls"}
Refers == {"ing", "gw"} \cup Routes
PassedOn == {"grant", "ns"}
Reconciled == Objects \cap (Kinds \ {"iclass", "svc"})
Targets(o) == IF o \in Refers THEN {"ours", "other"} ELSE {"ours"}

\* told is the condition this operator writes, others what others write in the status.
Object(o) == [to : Targets(o), fin : BOOLEAN, going : BOOLEAN, told : BOOLEAN,
              others : 0..MaxEvents]
New(to) == [to |-> to, fin |-> FALSE, going |-> FALSE, told |-> FALSE, others |-> 0]
To(x) == IF x = None THEN None ELSE x.to
Idle == [at |-> "idle", copy |-> None]

TypeOK ==
    /\ \A o \in Objects : obj[o] \in Object(o) \cup {None} /\ seen[o] \in Object(o) \cup {None}
    /\ \A o \in Objects : store[o] \in Targets(o) \cup {None} /\ synced[o] \in Targets(o) \cup {None}
    /\ requests \subseteq Reconciled /\ news \subseteq Objects
    /\ \A o \in Reconciled :
          /\ works[o].at \in {"idle", "act", "sync"}
          /\ works[o].copy \in Object(o) \cup {None}
    /\ skipped \subseteq Objects
    /\ lost \subseteq {"http", "gclass"}
    /\ {draining, cut} \subseteq BOOLEAN
    /\ happened \in 0..MaxEvents

\* Nothing is there yet, or everything is and has been dealt with.
Settled(o) == [New("ours") EXCEPT !.fin = o \in Reconciled \ PassedOn,
                                  !.told = o \in {"http", "gclass"}]
Init ==
    /\ obj \in {[o \in Objects |-> None], [o \in Objects |-> Settled(o)]}
    /\ seen = obj
    /\ news = {}
    /\ store = [o \in Objects |-> To(obj[o])]
    /\ synced = store
    /\ requests = {}
    /\ works = [o \in Reconciled |-> Idle]
    /\ draining = FALSE
    /\ skipped = {}
    /\ lost = {}
    /\ cut = FALSE
    /\ happened = 0

Event == happened < MaxEvents /\ happened' = happened + 1
There(from, o) == o \in Objects => from[o] # None

(***************************************************************************)
(* Watches: which work queues an event reaches and what its handlers do.   *)
(***************************************************************************)
GenerationChanged(o) == o \in news \/ seen[o] = None \/ obj[o] = None

OfOurClass(g) == g # None /\ g.to = "ours"
\* Mutant of findGatewayClassForGateway: the old object of an update is not looked at.
findNewClass(o) ==
    IF o = "gw" /\ "gclass" \in Objects /\ GenerationChanged("gw") /\ OfOurClass(obj["gw"])
    THEN {"gclass"} ELSE {}

findGatewayClassForGateway(o) ==
    IF o = "gw" /\ "gclass" \in Objects /\ GenerationChanged("gw")
       /\ (OfOurClass(seen["gw"]) \/ OfOurClass(obj["gw"]))
    THEN {"gclass"} ELSE {}

findHTTPRouteForGateway(o) ==
    IF /\ o = "gw" /\ "http" \in Objects
       /\ There(seen, "gclass")
       /\ OfOurClass(seen["gw"]) \/ OfOurClass(obj["gw"])
       /\ seen["http"] # None
       /\ seen["http"].to = "ours"
    THEN {"http"} ELSE {}

Own(o) ==
    IF o \in Reconciled /\ (o \in {"http", "gclass"} \cup PassedOn => GenerationChanged(o))
    THEN {o} ELSE {}

ControllerEventHandler(o) ==
    store' = IF o \in {"iclass", "svc", "gclass", "http"} \cup PassedOn
             THEN [store EXCEPT ![o] = To(obj[o])] ELSE store

Deliver(o) ==
    /\ seen[o] # obj[o] \/ o \in news
    /\ seen' = [seen EXCEPT ![o] = obj[o]]
    /\ news' = news \ {o}
    /\ ControllerEventHandler(o)
    /\ requests' = requests \cup Own(o) \cup findGatewayClassForGateway(o) \cup findHTTPRouteForGateway(o)
    /\ lost' = IF o = "gclass" /\ seen[o] = None THEN lost \cup (skipped \cap {"http"}) ELSE lost
    /\ UNCHANGED <<obj, synced, works, draining, skipped, cut, happened>>

(***************************************************************************)
(* Reconciles.  Start reads the object, Act decides, patches and writes    *)
(* the store, Sync is the Sync that follows.                               *)
(***************************************************************************)
Start(o) ==
    /\ o \in requests
    /\ works[o] = Idle
    /\ requests' = requests \ {o}
    /\ works' = [works EXCEPT ![o] = [at |-> "act", copy |-> seen[o]]]
    /\ UNCHANGED <<cluster, store, synced, draining, ghosts, happened>>

Then(o, at) == works' = [works EXCEPT ![o] = IF at = "sync" THEN [at |-> "sync", copy |-> None]
                                             ELSE Idle]
Return(o) == Then(o, "idle") /\ UNCHANGED requests
Goto(o) == Then(o, "sync") /\ UNCHANGED requests
Retry(o) == Then(o, "idle") /\ requests' = requests \cup {o}

\* The object after a patch of the finalizer (none is sent when the copy has it so).
Patched(o, fin) ==
    IF works[o].copy.fin = fin \/ obj[o] = None THEN obj[o]
    ELSE IF ~fin /\ obj[o].going THEN None
    ELSE [obj[o] EXCEPT !.fin = fin]
PatchFails(o, fin) == works[o].copy.fin # fin /\ obj[o] = None
Write(o, x) == obj' = [obj EXCEPT ![o] = x]
\* The reconcile goes on with the answer of its patch, when it sent one.
Fresh(o, fin) == IF works[o].copy.fin = fin THEN works[o].copy ELSE Patched(o, fin)
Put(o, to) == store' = [store EXCEPT ![o] = to]

Skip(o) == skipped' = skipped \cup {o} /\ UNCHANGED <<lost, cut>>
Handle(o) == skipped' = skipped \ {o} /\ UNCHANGED <<lost, cut>>

shouldHandleIngress(to) == to = "ours" /\ There(store, "iclass")

ReconcileIngress ==
    LET o == "ing"
        copy == works[o].copy
    IN  \/ /\ copy = None
           /\ Put(o, None) /\ Goto(o) /\ UNCHANGED obj /\ Handle(o)
        \/ /\ copy # None /\ ~shouldHandleIngress(copy.to)
           /\ Put(o, copy.to) /\ Return(o) /\ UNCHANGED obj /\ Skip(o)
        \/ /\ copy # None /\ shouldHandleIngress(copy.to) /\ copy.going
           /\ Write(o, Patched(o, FALSE)) /\ Handle(o)
           /\ IF PatchFails(o, FALSE) THEN Put(o, copy.to) /\ Retry(o) ELSE Put(o, None) /\ Goto(o)
        \/ /\ copy # None /\ shouldHandleIngress(copy.to) /\ ~copy.going /\ draining
           /\ Put(o, None) /\ Return(o) /\ UNCHANGED obj /\ Handle(o)
        \/ /\ copy # None /\ shouldHandleIngress(copy.to) /\ ~copy.going /\ ~draining
           /\ Write(o, Patched(o, TRUE)) /\ Put(o, copy.to) /\ Handle(o)
           /\ IF PatchFails(o, TRUE) THEN Retry(o) ELSE Goto(o)

ShouldHandleGatewayClass(g) == g.to = "ours" /\ There(seen, "gclass")

ReconcileGateway ==
    LET o == "gw"
        copy == works[o].copy
    IN  \/ /\ copy = None
           /\ Put(o, None) /\ Goto(o) /\ UNCHANGED obj /\ Handle(o)
        \/ /\ copy # None /\ copy.going
           /\ Write(o, Patched(o, FALSE)) /\ Handle(o)
           /\ IF PatchFails(o, FALSE) THEN UNCHANGED store /\ Retry(o) ELSE Put(o, None) /\ Return(o)
        \/ /\ copy # None /\ ~copy.going /\ copy.to = "ours" /\ ~There(seen, "gclass")
           /\ Retry(o) /\ UNCHANGED <<obj, store, ghosts>>
        \/ /\ copy # None /\ ~copy.going /\ copy.to = "other"
           /\ Return(o) /\ UNCHANGED <<obj, store>> /\ Skip(o)
        \/ /\ copy # None /\ ~copy.going /\ ShouldHandleGatewayClass(copy) /\ draining
           /\ Return(o) /\ UNCHANGED <<obj, store>> /\ Handle(o)
        \/ /\ copy # None /\ ~copy.going /\ ShouldHandleGatewayClass(copy) /\ ~draining
           /\ Write(o, Patched(o, TRUE)) /\ Handle(o)
           /\ IF PatchFails(o, TRUE) THEN UNCHANGED store /\ Retry(o)
              ELSE Put(o, Fresh(o, TRUE).to) /\ Goto(o)

routeReferencesNgrokGateway(r) ==
    r.to = "ours" /\ There(seen, "gw") /\ ("gw" \in Objects => ShouldHandleGatewayClass(seen["gw"]))

\* Mutant of validateHTTPRoute: the status is written over whatever is there.
validateByForce(o, x) == x # None /\ o = "http"

\* An update of the status of a copy that is not the latest is refused, and
\* validateHTTPRoute's error is dropped.  TCP and TLS routes get no status.
validateHTTPRoute(o, x) == x # None /\ x = Fresh(o, TRUE) /\ o \notin news /\ o = "http"
mergeParentStatuses(o, x) == [x EXCEPT !.told = TRUE, !.others = Fresh(o, TRUE).others]

ReconcileRoute(o) ==
    LET copy == works[o].copy
        now == Patched(o, TRUE)
    IN  \/ /\ copy = None
           /\ Put(o, None) /\ Goto(o) /\ UNCHANGED obj /\ Handle(o)
        \/ /\ copy # None /\ copy.going
           /\ Write(o, Patched(o, FALSE)) /\ Handle(o)
           /\ IF PatchFails(o, FALSE) THEN UNCHANGED store /\ Retry(o)
              ELSE Put(o, None) /\ IF o = "http" THEN Return(o) ELSE Goto(o)
        \/ /\ copy # None /\ ~copy.going /\ ~routeReferencesNgrokGateway(copy)
           /\ Write(o, Patched(o, FALSE)) /\ UNCHANGED store /\ Skip(o)
           /\ IF PatchFails(o, FALSE) THEN Retry(o) ELSE Return(o)
        \/ /\ copy # None /\ ~copy.going /\ routeReferencesNgrokGateway(copy) /\ draining
           /\ Return(o) /\ UNCHANGED <<obj, store>> /\ Handle(o)
        \/ /\ copy # None /\ ~copy.going /\ routeReferencesNgrokGateway(copy) /\ ~draining
           /\ skipped' = skipped \ {o}
           /\ UNCHANGED cut
           /\ IF PatchFails(o, TRUE)
              THEN UNCHANGED <<obj, store, lost>> /\ Retry(o)
              ELSE /\ Put(o, Fresh(o, TRUE).to)
                   /\ Goto(o)
                   /\ IF validateHTTPRoute(o, now)
                      THEN Write(o, mergeParentStatuses(o, now)) /\ lost' = lost \ {o}
                      ELSE Write(o, now) /\ lost' = lost \cup ({o} \cap {"http"})

\* A conflict in reconcileAcceptedCondition is an error, retried.
reconcileGatewayExistsFinalizer == There(seen, "gw") /\ ("gw" \in Objects => seen["gw"].to = "ours")
ReconcileGatewayClass ==
    LET o == "gclass"
        copy == works[o].copy
        now == Patched(o, reconcileGatewayExistsFinalizer)
    IN  /\ UNCHANGED <<store, skipped, cut>>
        /\ \/ copy = None /\ Return(o) /\ UNCHANGED <<obj, lost>>
           \/ copy # None /\ ~copy.told /\ copy # obj[o] /\ Retry(o) /\ UNCHANGED <<obj, lost>>
           \/ /\ copy # None /\ (copy.told \/ copy = obj[o])
              /\ Write(o, IF now = None THEN None ELSE [now EXCEPT !.told = @ \/ ~copy.told])
              /\ lost' = IF now # None /\ now.fin # reconcileGatewayExistsFinalizer
                         THEN lost \cup {o} ELSE lost \ {o}
              /\ IF PatchFails(o, reconcileGatewayExistsFinalizer) THEN Retry(o) ELSE Return(o)

ReconcileHTTPRoute == ReconcileRoute("http")
ReconcileTCPRoute == ReconcileRoute("tcp")
ReconcileTLSRoute == ReconcileRoute("tls")

\* Mutant of PassOn: no Sync follows.
PassOnQuietly(o) == Put(o, To(works[o].copy)) /\ Return(o) /\ UNCHANGED <<obj, ghosts>>

\* ReferenceGrants and Namespaces.
PassOn(o) == Put(o, To(works[o].copy)) /\ Goto(o) /\ UNCHANGED <<obj, ghosts>>
ReconcileReferenceGrant == PassOn("grant")
ReconcileNamespace == PassOn("ns")

Act(o) ==
    /\ works[o].at = "act"
    /\ CASE o = "ing" -> ReconcileIngress
         [] o = "gw" -> ReconcileGateway
         [] o = "http" -> ReconcileHTTPRoute
         [] o = "tcp" -> ReconcileTCPRoute
         [] o = "tls" -> ReconcileTLSRoute
         [] o = "gclass" -> ReconcileGatewayClass
         [] o = "grant" -> ReconcileReferenceGrant
         [] o = "ns" -> ReconcileNamespace
    /\ UNCHANGED <<seen, news, synced, draining, happened>>

Sync(o) ==
    /\ works[o].at = "sync"
    /\ IF draining THEN UNCHANGED <<synced, cut>> ELSE synced' = store /\ cut' = FALSE
    /\ Return(o)
    /\ UNCHANGED <<cluster, store, draining, skipped, lost, happened>>

\* An error of the API server: of the read or the patch (an Ingress is in the
\* store by then), or of the Sync.
Fail(o) ==
    /\ Event
    /\ works[o].at # "idle"
    /\ Retry(o)
    /\ IF o = "ing" /\ works[o].at = "act" /\ works[o].copy # None
       THEN Put(o, works[o].copy.to) ELSE UNCHANGED store
    /\ UNCHANGED <<cluster, synced, draining, ghosts>>

(***************************************************************************)
(* What others do.                                                         *)
(***************************************************************************)
Create(o) == obj[o] = None /\ \E to \in Targets(o) : Write(o, New(to))
Edit(o) == obj[o] # None /\ \E to \in Targets(o) \ {obj[o].to} : Write(o, [obj[o] EXCEPT !.to = to])
Delete(o) ==
    /\ obj[o] # None /\ ~obj[o].going
    /\ Write(o, IF obj[o].fin THEN [obj[o] EXCEPT !.going = TRUE] ELSE None)
WriteStatus(o) ==
    /\ o = "http" /\ obj[o] # None
    /\ Write(o, [obj[o] EXCEPT !.others = @ + 1])
User(o) ==
    /\ Event
    /\ \/ (Create(o) \/ Edit(o) \/ Delete(o)) /\ news' = news \cup {o}
       \/ WriteStatus(o) /\ UNCHANGED news
    /\ UNCHANGED <<seen, store, synced, requests, works, draining, ghosts>>

StartDrain ==
    /\ Event
    /\ ~draining
    /\ draining' = TRUE
    /\ UNCHANGED <<cluster, store, synced, requests, works, ghosts>>

\* The manager starts again: the store is seeded, every object is reconciled.
Seed == [o \in Objects |-> To(obj[o])]
Restart ==
    /\ Event
    /\ seen' = obj
    /\ news' = {}
    /\ store' = Seed
    /\ requests' = {o \in Reconciled : obj[o] # None}
    /\ works' = [o \in Reconciled |-> Idle]
    /\ draining' = FALSE
    /\ cut' = TRUE
    /\ UNCHANGED <<obj, synced, skipped, lost>>

Next ==
    \/ \E o \in Objects : Deliver(o) \/ User(o)
    \/ \E o \in Reconciled : Start(o) \/ Act(o) \/ Sync(o) \/ Fail(o)
    \/ StartDrain
    \/ Restart
Spec == Init /\ [][Next]_driverVars

(***************************************************************************)
(* Properties.                                                             *)
(***************************************************************************)
Needs(o) == Objects \cap IF o = "ing" THEN {"iclass", "svc"} ELSE {"gw", "gclass", "svc"} \cup PassedOn

\* What the endpoints of the last Sync serve.
served == {o \in Objects \cap ({"ing"} \cup Routes) :
             synced[o] = "ours" /\ \A n \in Needs(o) : synced[n] = "ours"}

AtRest ==
    /\ ~draining
    /\ seen = obj /\ news = {}
    /\ requests = {}
    /\ \A o \in Reconciled : works[o] = Idle

Usable(o) == obj[o] # None /\ obj[o].to = "ours" /\ ~obj[o].going

\* A change of a Service or a class is only stored.
Unsynced == \E o \in Objects \cap {"svc", "iclass", "gclass"} : store[o] # synced[o]

\* The reconcile skipped it and nothing will look at it again: an Ingress or a TCPRoute
\* (no watch leads back to them), or an HTTPRoute whose class came back since.
Overlooked(o) == o \in skipped /\ (o = "http" => o \in lost)

\* When the controllers rest, an Ingress or a route of this operator whose class,
\* Gateway, Service and grant exist is served, in whatever order they came, and nothing
\* is served of an object that is gone: unless a kind that is only stored changed since
\* the last Sync.  What is overlooked need not be served.
ServedExactly ==
    AtRest /\ ~cut /\ ~Unsynced =>
        /\ \A o \in Objects \cap ({"ing"} \cup Routes) :
              Usable(o) /\ (\A n \in Needs(o) : Usable(n)) =>
                  o \in served \/ Overlooked(o)
        /\ \A o \in served : obj[o] # None /\ ("gw" \in Needs(o) => obj["gw"] # None)

\* When the controllers rest, no deleted object waits for its finalizer, but for a
\* class that has Gateways, and for what ReconcileIngress skips; and a GatewayClass has
\* the finalizer just when a Gateway is of the class, unless that was decided on a copy
\* older than the controller's own last patch.
FinalizersFit ==
    AtRest =>
        /\ \A o \in Objects : obj[o] # None /\ obj[o].going =>
              \/ o = "gclass" /\ OfOurClass(obj["gw"])
              \/ o = "ing" /\ o \in skipped
        /\ "gclass" \in Objects \ lost /\ obj["gclass"] # None =>
              obj["gclass"].fin = OfOurClass(obj["gw"])

\* The status of a route of a Gateway of this operator says so, unless the write was lost.
AcceptanceTold ==
    AtRest /\ "http" \notin lost /\ Usable("http") /\ Usable("gw") /\ Usable("gclass") => obj["http"].told

\* What other controllers write in the status of a route is never undone.
OthersKept == obj["http"] # None /\ obj'["http"] # None => obj'["http"].others >= obj["http"].others
StatusKept == [][OthersKept]_driverVars

=============================================================================
