-------------------------- MODULE ServiceController --------------------------
(***************************************************************************)
(* The Service controller (internal/controller/service/controller.go): a   *)
(* Service of type LoadBalancer with the class "ngrok" gets an             *)
(* AgentEndpoint, or a CloudEndpoint in front of an internal AgentEndpoint, *)
(* a reserved TCP address or a TLS domain, and a status.                   *)
(*                                                                         *)
(* The controller reads the Service, the endpoints it owns, the policy and *)
(* the Domain from four informers of its own, each of which lags behind    *)
(* the API server by itself, and writes with three kinds of call: patches  *)
(* that never conflict (the finalizer), updates that do (the annotation,   *)
(* the status, an endpoint), and creates under a generated name.           *)
(***************************************************************************)
EXTENDS Naturals, Sequences, Common

CONSTANTS
    Specs,       \* what users may ask for: [handled, ports, verbose, url, policy]
    Names,       \* the names that GenerateName may give to an endpoint
    Addrs,       \* the TCP addresses the ngrok API may reserve
    Policies,    \* contents of the NgrokTrafficPolicy
    MaxEvents    \* bound on edits, failures and restarts together

VARIABLES
    service,        \* the Service in the API server
    serviceFeed,    \* the versions of it that the informer has not delivered
    serviceSeen,    \* the Service in the cache
    endpoints,      \* the endpoints owned by the Service
    endpointsSeen,  \* the same in the cache
    policy,         \* the content of the NgrokTrafficPolicy, or None
    policySeen,
    domain,         \* the Domain of the TLS URL: None, "plain", or "cname" with its target
    domainSeen,
    reserved,       \* the TCP addresses reserved for the Service
    queued,         \* a reconcile is queued, at once or after a delay
    rec,            \* the reconcile in progress
    forgotten,      \* the finalizer is on a Service whose events are filtered out
    misread,        \* the Domain was out of date in the cache when it was last read
    events          \* edits, failures and restarts so far

objects == <<service, serviceFeed, endpoints>>
caches == <<serviceSeen, endpointsSeen, policySeen, domainSeen>>
outside == <<policy, domain, reserved>>
ghosts == <<forgotten, misread>>
serviceVars == <<objects, caches, outside, queued, rec, ghosts, events>>

Kinds == {"cloud", "agent"}
TLS == "tls"

Services == [spec : Specs, finalizer : BOOLEAN, deleting : BOOLEAN,
             computed : Addrs \cup {TLS, None}, status : Addrs \cup {"plain", "cname", None}]

\* domainRef stands for the status: no ref, a ref to the Domain, the Domain is ready.
Endpoints == [kind : Kinds, url : Addrs \cup {TLS, "internal"}, policy : Policies \cup {None},
              domainRef : 0..2, deleting : BOOLEAN]

Nothing == [delete |-> {}, write |-> None, at |-> None]
NoRec == [pc |-> "idle", svc |-> None, fresh |-> FALSE, owned |-> [k \in Kinds |-> {}],
          url |-> None, policy |-> None, plan |-> [k \in Kinds |-> Nothing], failed |-> FALSE, status |-> None]

\* The calls of a sub-reconciler: deletions, and a write, at an endpoint it has or at none.
NewEndpoints == {e \in Endpoints : e.domainRef = 0 /\ ~e.deleting}
Plans == {p \in [delete : SUBSET Names, write : NewEndpoints \cup {None}, at : Names \cup {None}] :
             p.at # None => p.write # None}
Steps == {"cleanup", "release", "register", "build", "annotate", "clear", "apply", "status"}
Recs == [pc : Steps, svc : Services, fresh : BOOLEAN, owned : [Kinds -> SUBSET Names],
         url : Addrs \cup {TLS, None}, policy : Policies \cup {None}, plan : [Kinds -> Plans], failed : BOOLEAN,
         status : Addrs \cup {"plain", "cname", None}]

ServiceTypeOK ==
    /\ {service, serviceSeen} \subseteq Services \cup {None}
    /\ serviceFeed \in Seq(Services \cup {None})
    /\ {endpoints, endpointsSeen} \subseteq [Names -> Endpoints \cup {None}]
    /\ {policy, policySeen} \subseteq Policies \cup {None}
    /\ {domain, domainSeen} \subseteq {"plain", "cname", None}
    /\ reserved \subseteq Addrs
    /\ {queued, forgotten, misread} \subseteq BOOLEAN
    /\ rec \in Recs \cup {NoRec}
    /\ events \in 0..MaxEvents

ASSUME ServiceAssumption ==
    /\ None \notin Services \cup Endpoints \cup Names \cup Addrs \cup {TLS, "plain", "cname"}
    /\ TLS \notin Addrs
    /\ MaxEvents \in Nat

ServiceInit ==
    /\ service \in [spec : Specs, finalizer : {FALSE}, deleting : {FALSE},
                    computed : {None}, status : {None}]
    /\ serviceFeed = <<service>>
    /\ serviceSeen = None
    /\ endpoints = [n \in Names |-> None]
    /\ endpointsSeen = endpoints
    /\ policy \in Policies \cup {None}
    /\ policySeen = policy
    /\ domain = None
    /\ domainSeen = domain
    /\ reserved = {}
    /\ queued = FALSE
    /\ rec = NoRec
    /\ forgotten = FALSE
    /\ misread = FALSE
    /\ events = 0

shouldHandleService(s) == s.spec.handled

Existing(eps) == {n \in Names : eps[n] # None}
Owned(k) == {n \in Existing(endpointsSeen) : endpointsSeen[n].kind = k}

\* A write to the Service by anybody; the informer will deliver every version.
Store(s) ==
    /\ service' = s
    /\ serviceFeed' = IF s = service THEN serviceFeed ELSE Append(serviceFeed, s)

StoreOutside(s) ==
    /\ Store(s)
    /\ rec' = [rec EXCEPT !.fresh = FALSE]

ServiceEvent ==
    /\ events < MaxEvents
    /\ events' = events + 1

(***************************************************************************)
(* The informers and what they enqueue.                                    *)
(***************************************************************************)

\* Mutant of Passes: an Update looks at the new object only.
PassesNewOnly(old, new) == new = None \/ shouldHandleService(new)

\* ShouldHandleServicePredicate: Create looks at the new object, Update at both,
\* and a deletion always passes.
Passes(old, new) ==
    \/ new = None
    \/ shouldHandleService(new)
    \/ old # None /\ shouldHandleService(old)

DeliverService ==
    /\ serviceFeed # <<>>
    /\ serviceSeen' = Head(serviceFeed)
    /\ serviceFeed' = Tail(serviceFeed)
    /\ queued' = (queued \/ Passes(serviceSeen, Head(serviceFeed)))
    /\ UNCHANGED <<service, endpoints, endpointsSeen, policySeen, domainSeen, outside, rec,
                   ghosts, events>>

\* Any change of an owned endpoint enqueues its owner; there is an informer for
\* each kind.
DeliverEndpoints(k) ==
    /\ LET Mine(e) == e # None /\ e.kind = k
           new == {n \in Names : Mine(endpoints[n]) \/ Mine(endpointsSeen[n])}
       IN /\ \E n \in new : endpointsSeen[n] # endpoints[n]
          /\ endpointsSeen' = [n \in Names |-> IF n \in new THEN endpoints[n]
                                               ELSE endpointsSeen[n]]
    /\ queued' = TRUE
    /\ UNCHANGED <<objects, serviceSeen, policySeen, domainSeen, outside, rec, ghosts, events>>

findServicesForTrafficPolicy == serviceSeen # None /\ serviceSeen.spec.policy

DeliverPolicy ==
    /\ policySeen # policy
    /\ policySeen' = policy
    /\ queued' = (queued \/ findServicesForTrafficPolicy)
    /\ UNCHANGED <<objects, serviceSeen, endpointsSeen, domainSeen, outside, rec, ghosts, events>>

\* Domains are read, and not watched.
DeliverDomain ==
    /\ domainSeen # domain
    /\ domainSeen' = domain
    /\ UNCHANGED <<objects, serviceSeen, endpointsSeen, policySeen, outside, queued, rec,
                   ghosts, events>>

(***************************************************************************)
(* Reconcile.                                                              *)
(***************************************************************************)
Finished == rec' = NoRec /\ UNCHANGED queued
Requeue == rec' = NoRec /\ queued' = TRUE

DeleteAll(owned) == [k \in Kinds |-> [Nothing EXCEPT !.delete = owned[k]]]

StartService ==
    /\ rec = NoRec
    /\ queued
    /\ queued' = FALSE
    /\ LET owned == [k \in Kinds |-> Owned(k)]
           Go(pc) == [NoRec EXCEPT !.pc = pc, !.svc = serviceSeen, !.owned = owned,
                                   !.fresh = serviceFeed = <<>>]
           Clean == [Go("cleanup") EXCEPT !.plan = DeleteAll(owned)]
       IN rec' = CASE serviceSeen = None -> NoRec
                   [] serviceSeen # None /\ serviceSeen.deleting -> Clean
                   [] serviceSeen # None /\ ~serviceSeen.deleting
                         /\ ~shouldHandleService(serviceSeen) ->
                         IF owned = NoRec.owned THEN Go("release") ELSE Clean
                   [] OTHER -> CASE ~serviceSeen.spec.ports -> NoRec
                                 [] serviceSeen.spec.ports /\ serviceSeen.finalizer -> Go("build")
                                 [] OTHER -> Go("register")
    /\ UNCHANGED <<objects, caches, outside, ghosts, events>>

\* RegisterAndSyncFinalizer patches the Service and gets the server's copy back.
Register ==
    /\ rec.pc = "register"
    /\ IF service = None
       THEN Requeue /\ UNCHANGED <<service, serviceFeed, forgotten>>
       ELSE LET s == [service EXCEPT !.finalizer = TRUE] IN
            /\ Store(s)
            /\ rec' = [rec EXCEPT !.pc = "build", !.svc = s, !.fresh = TRUE]
            /\ forgotten' = (forgotten \/ ~shouldHandleService(s))
            /\ UNCHANGED queued
    /\ UNCHANGED <<endpoints, caches, outside, misread, events>>

\* The endpoints that the mapping strategy asks for.
Desired(s, url, pol) ==
    LET New(k, u, p) == [kind |-> k, url |-> u, policy |-> p, domainRef |-> 0,
                         deleting |-> FALSE]
        p == IF s.spec.policy THEN pol ELSE None
    IN [k \in Kinds |-> CASE s.spec.verbose /\ k = "agent" -> New(k, "internal", None)
                          [] ~s.spec.verbose /\ k = "cloud" -> None
                          [] OTHER -> New(k, url, p)]

\* The lengths that the code looks at.
Alone(names) == \E n \in names : names = {n}
Pair(names) == \E n, m \in names : n # m /\ names = {n, m}

\* baseSubresourceReconciler.Reconcile for one kind, as the calls it will make.
Plan(d, owned) ==
    CASE d = None -> [Nothing EXCEPT !.delete = owned]
      [] d # None /\ Alone(owned) ->
            [Nothing EXCEPT !.write = d, !.at = CHOOSE n \in owned : TRUE]
      [] OTHER -> [Nothing EXCEPT !.delete = owned, !.write = d]

Applying(s, url, pol) ==
    LET d == Desired(s, url, pol) IN
    [rec EXCEPT !.pc = "apply", !.svc = s, !.url = None, !.policy = None,
                !.plan = [k \in Kinds |-> Plan(d[k], rec.owned[k])]]

\* buildEndpoints up to the URL: the policy must be there, and the URL is the
\* annotation of the user, the one computed before, or that of a new address.
tcpAddressIsReserved(a) == a \in reserved

buildEndpoints ==
    /\ rec.pc = "build"
    /\ LET s == rec.svc
           Use(url) == rec' = Applying(s, url, policySeen) /\ UNCHANGED reserved
           Go(pc, url) == rec' = [rec EXCEPT !.pc = pc, !.url = url, !.policy = policySeen]
       IN \/ /\ s.spec.policy /\ policySeen = None
             /\ Requeue
             /\ UNCHANGED reserved
          \/ /\ s.spec.policy => policySeen # None
             /\ UNCHANGED queued
             /\ CASE s.spec.url = TLS /\ s.computed = TLS -> Use(TLS)
                  [] s.spec.url = TLS /\ s.computed # TLS ->
                        Go("annotate", TLS) /\ UNCHANGED reserved
                  [] s.spec.url # TLS /\ s.computed = None ->
                        \E a \in Addrs \ reserved :
                           Go("annotate", a) /\ reserved' = reserved \cup {a}
                  [] s.spec.url # TLS /\ tcpAddressIsReserved(s.computed) -> Use(s.computed)
                  [] OTHER -> Go("clear", s.computed) /\ UNCHANGED reserved
    /\ UNCHANGED <<objects, caches, policy, domain, ghosts, events>>

\* Mutant of UpdateService: the annotation is written without a version check.
UpdateServiceAnyway(s, after) ==
    IF service # None
    THEN Store([service EXCEPT !.computed = s.computed, !.status = s.status])
         /\ rec' = after /\ UNCHANGED queued
    ELSE Requeue /\ UNCHANGED <<service, serviceFeed>>

\* An Update of the Service fails when the copy is not the latest version.
UpdateService(s, after) ==
    IF rec.fresh
    THEN Store(s) /\ rec' = after /\ UNCHANGED queued
    ELSE Requeue /\ UNCHANGED <<service, serviceFeed>>

setComputedURLAnnotation ==
    /\ rec.pc = "annotate"
    /\ LET s == [rec.svc EXCEPT !.computed = rec.url] IN
       UpdateService(s, Applying(s, rec.url, rec.policy))
    /\ UNCHANGED <<endpoints, caches, outside, ghosts, events>>

\* The reconcile goes on with the URL that it has just cleared.
clearComputedURLAnnotation ==
    /\ rec.pc = "clear"
    /\ LET s == [rec.svc EXCEPT !.computed = None] IN
       UpdateService(s, Applying(s, rec.url, rec.policy))
    /\ UNCHANGED <<endpoints, caches, outside, ghosts, events>>

(***************************************************************************)
(* The two sub-reconcilers run in an errgroup: their calls interleave, and *)
(* the failure of one cancels what the other has not done yet.             *)
(***************************************************************************)
Done(k) == rec.plan[k] = Nothing
After(k, plan) == rec' = [rec EXCEPT !.plan[k] = plan]
Fails(k) ==
    /\ rec' = [rec EXCEPT !.plan[k] = Nothing, !.failed = TRUE]
    /\ UNCHANGED endpoints

\* A Delete of an endpoint that is already gone is an error, and one of an
\* endpoint that is being deleted is not.
deleteOwned(k) ==
    /\ rec.pc \in {"cleanup", "apply"}
    /\ \E n \in rec.plan[k].delete :
          IF endpoints[n] = None
          THEN Fails(k)
          ELSE /\ endpoints' = [endpoints EXCEPT ![n].deleting = TRUE]
               /\ After(k, [rec.plan[k] EXCEPT !.delete = @ \ {n}])
    /\ UNCHANGED <<service, serviceFeed, caches, outside, queued, ghosts, events>>

\* matches compares the specs; the status (domainRef) and the deletion are kept.
Merge(e, d) == [d EXCEPT !.domainRef = e.domainRef, !.deleting = e.deleting]

\* With one owned endpoint: Get, which reads the cache, and Update.
updateOwned(k) ==
    /\ rec.pc = "apply"
    /\ rec.plan[k].at # None
    /\ LET n == rec.plan[k].at
           d == rec.plan[k].write
           e == endpointsSeen[n]
       IN IF e # None /\ (Merge(e, d) = e \/ endpoints[n] = e)
          THEN /\ endpoints' = IF Merge(e, d) = e THEN endpoints
                               ELSE [endpoints EXCEPT ![n] = Merge(e, d)]
               /\ After(k, Nothing)
          ELSE Fails(k)
    /\ UNCHANGED <<service, serviceFeed, caches, outside, queued, ghosts, events>>

createOwned(k) ==
    /\ rec.pc = "apply"
    /\ rec.plan[k].write # None
    /\ rec.plan[k].at = None
    /\ rec.plan[k].delete = {}
    /\ \E n \in Names \ (Existing(endpoints) \cup Existing(endpointsSeen)) :
          endpoints' = [endpoints EXCEPT ![n] = rec.plan[k].write]
    /\ After(k, Nothing)
    /\ UNCHANGED <<service, serviceFeed, caches, outside, queued, ghosts, events>>

Cancelled(k) ==
    /\ rec.failed
    /\ ~Done(k)
    /\ After(k, Nothing)
    /\ UNCHANGED <<objects, caches, outside, queued, ghosts, events>>

AllDone == rec.pc \in {"cleanup", "apply"} /\ \A k \in Kinds : Done(k)

\* updateStatus: a TLS endpoint waits for its domainRef, and the Domain is read
\* from the cache.
StatusFor(s, n) ==
    CASE s.computed \in Addrs -> s.computed
      [] s.computed = TLS /\ endpointsSeen[n].domainRef > 0 -> domainSeen
      [] OTHER -> None

\* getObjectForStatusUpdate: the only endpoint owned, or the CloudEndpoint of two.
StatusObject(s) ==
    {n \in Existing(endpointsSeen) :
        IF s.spec.verbose
        THEN Pair(Existing(endpointsSeen)) /\ endpointsSeen[n].kind = "cloud"
        ELSE Alone(Existing(endpointsSeen))}

\* What follows g.Wait(): on an error the request is retried; a deletion waits until
\* no endpoint is left; otherwise the status is next, if the cache shows what the
\* strategy calls for, and a retry if it does not.
Joined ==
    /\ AllDone
    /\ LET s == rec.svc
           n == CHOOSE n \in StatusObject(s) : TRUE
       IN CASE rec.failed -> Requeue /\ UNCHANGED misread
            [] ~rec.failed /\ rec.pc = "cleanup" ->
                  /\ IF s.deleting /\ Existing(endpointsSeen) # {} THEN Requeue
                     ELSE rec' = [rec EXCEPT !.pc = "release"] /\ UNCHANGED queued
                  /\ UNCHANGED misread
            [] ~rec.failed /\ rec.pc = "apply" /\ StatusObject(s) = {} ->
                  Requeue /\ UNCHANGED misread
            [] OTHER ->
                  /\ IF StatusFor(s, n) = s.status THEN rec' = NoRec
                     ELSE rec' = [rec EXCEPT !.pc = "status", !.status = StatusFor(s, n)]
                  /\ misread' = (s.computed = TLS /\ domainSeen # domain)
                  /\ UNCHANGED queued
    /\ UNCHANGED <<objects, caches, outside, forgotten, events>>

UpdateServiceStatus ==
    /\ rec.pc = "status"
    /\ UpdateService([rec.svc EXCEPT !.status = rec.status], NoRec)
    /\ UNCHANGED <<endpoints, caches, outside, ghosts, events>>

\* RemoveAndSyncFinalizer; the API server drops a deleted Service with it.
Release ==
    /\ rec.pc = "release"
    /\ CASE ~rec.svc.finalizer -> Finished /\ UNCHANGED <<service, serviceFeed>>
         [] rec.svc.finalizer /\ service = None -> Requeue /\ UNCHANGED <<service, serviceFeed>>
         [] OTHER -> /\ Store(IF service.deleting THEN None
                              ELSE [service EXCEPT !.finalizer = FALSE])
                     /\ Finished
    /\ UNCHANGED <<endpoints, caches, outside, ghosts, events>>

ReconcileService ==
    \/ StartService \/ Register \/ buildEndpoints
    \/ setComputedURLAnnotation \/ clearComputedURLAnnotation
    \/ \E k \in Kinds : deleteOwned(k) \/ updateOwned(k) \/ createOwned(k) \/ Cancelled(k)
    \/ Joined \/ UpdateServiceStatus \/ Release

(***************************************************************************)
(* The rest of the cluster.                                                *)
(***************************************************************************)
EditService ==
    /\ service # None /\ ~service.deleting
    /\ \E spec \in Specs \ {service.spec} : StoreOutside([service EXCEPT !.spec = spec])
    /\ ServiceEvent
    /\ UNCHANGED <<endpoints, caches, outside, queued, ghosts>>

DeleteService ==
    /\ service # None /\ ~service.deleting
    /\ StoreOutside(IF service.finalizer THEN [service EXCEPT !.deleting = TRUE] ELSE None)
    /\ ServiceEvent
    /\ UNCHANGED <<endpoints, caches, outside, queued, ghosts>>

EditPolicy ==
    /\ \E p \in (Policies \cup {None}) \ {policy} : policy' = p
    /\ ServiceEvent
    /\ UNCHANGED <<objects, caches, domain, reserved, queued, rec, ghosts>>

\* A user deletes an endpoint, or releases an address in the ngrok dashboard.
DeleteEndpoint(n) ==
    /\ endpoints[n] # None /\ ~endpoints[n].deleting
    /\ endpoints' = [endpoints EXCEPT ![n].deleting = TRUE]
    /\ ServiceEvent
    /\ UNCHANGED <<service, serviceFeed, caches, outside, queued, rec, ghosts>>

ReleaseAddress(a) ==
    /\ a \in reserved
    /\ reserved' = reserved \ {a}
    /\ ServiceEvent
    /\ UNCHANGED <<objects, caches, policy, domain, queued, rec, ghosts>>

\* The garbage collector deletes what a deleted Service owned.
CollectGarbage(n) ==
    /\ service = None
    /\ endpoints[n] # None /\ ~endpoints[n].deleting
    /\ endpoints' = [endpoints EXCEPT ![n].deleting = TRUE]
    /\ UNCHANGED <<service, serviceFeed, caches, outside, queued, rec, ghosts, events>>

\* The endpoint controllers: they finish a deletion, make the Domain of a TLS
\* endpoint and refer to it, and note that it has become ready.
FinishDeletion(n) ==
    /\ endpoints[n] # None /\ endpoints[n].deleting
    /\ endpoints' = [endpoints EXCEPT ![n] = None]
    /\ UNCHANGED <<service, serviceFeed, caches, outside, queued, rec, ghosts, events>>

SetDomainRef(n) ==
    /\ endpoints[n] # None /\ ~endpoints[n].deleting /\ endpoints[n].url = TLS
    /\ \/ /\ endpoints[n].domainRef = 0
          /\ endpoints' = [endpoints EXCEPT ![n].domainRef = 1]
          /\ domain' = IF domain = None THEN "plain" ELSE domain
       \/ /\ endpoints[n].domainRef = 1 /\ domain = "cname"
          /\ endpoints' = [endpoints EXCEPT ![n].domainRef = 2]
          /\ UNCHANGED domain
    /\ UNCHANGED <<service, serviceFeed, caches, policy, reserved, queued, rec, ghosts, events>>

\* The Domain controller learns the CNAME target of a custom domain.
SetCNAMETarget ==
    /\ domain = "plain"
    /\ domain' = "cname"
    /\ UNCHANGED <<objects, caches, policy, reserved, queued, rec, ghosts, events>>

\* A call of the reconcile fails, and the request is retried.
Fault ==
    /\ rec # NoRec
    /\ Requeue
    /\ ServiceEvent
    /\ UNCHANGED <<objects, caches, outside, ghosts>>

\* After a restart every object is delivered as created.
RestartController ==
    /\ rec' = NoRec
    /\ serviceSeen' = service
    /\ serviceFeed' = <<>>
    /\ endpointsSeen' = endpoints
    /\ policySeen' = policy
    /\ domainSeen' = domain
    /\ LET told == \/ service # None /\ Passes(None, service)
                   \/ Existing(endpoints) # {}
                   \/ service # None /\ service.spec.policy /\ policy # None
       IN /\ queued' = told
          /\ forgotten' = (forgotten \/ (~told /\ service # None /\ service.finalizer))
    /\ ServiceEvent
    /\ UNCHANGED <<service, endpoints, outside, misread>>

Inform ==
    \/ DeliverService \/ DeliverPolicy \/ DeliverDomain
    \/ \E k \in Kinds : DeliverEndpoints(k)

Others ==
    \/ SetCNAMETarget
    \/ \E n \in Names : CollectGarbage(n) \/ FinishDeletion(n) \/ SetDomainRef(n)

Disturb ==
    \/ EditService \/ DeleteService \/ EditPolicy \/ Fault \/ RestartController
    \/ \E n \in Names : DeleteEndpoint(n)
    \/ \E a \in Addrs : ReleaseAddress(a)

ServiceNext == ReconcileService \/ Inform \/ Others \/ Disturb

ServiceSpec == ServiceInit /\ [][ServiceNext]_serviceVars

(***************************************************************************)
(* Properties.                                                             *)
(***************************************************************************)

\* Nothing is under way: no reconcile, no request, no event to deliver, and the
\* other controllers have done their part.
Quiet ==
    /\ rec = NoRec
    /\ ~queued
    /\ serviceFeed = <<>>
    /\ <<endpointsSeen, policySeen, domainSeen>> = <<endpoints, policy, domain>>
    /\ \A n \in Existing(endpoints) :
          /\ service # None
          /\ ~endpoints[n].deleting
          /\ endpoints[n].url = TLS => endpoints[n].domainRef > 0
          /\ endpoints[n].url = TLS /\ domain = "cname" => endpoints[n].domainRef = 2

\* The endpoints of the Service are those of its strategy, once each.
Matches(s) ==
    LET d == Desired(s, s.computed, policy) IN
    \A k \in Kinds :
       LET mine == {n \in Existing(endpoints) : endpoints[n].kind = k} IN
       IF d[k] = None THEN mine = {}
       ELSE /\ Alone(mine)
            /\ \A n \in mine : Merge(endpoints[n], d[k]) = endpoints[n]

\* When nothing is under way the cluster is what the Service asks for: one that is
\* no longer handled has no endpoints, and one that is handled has the finalizer, a
\* computed URL of the right kind and exactly the endpoints of its strategy.  A
\* Service that is no longer handled, or is being deleted, has lost its finalizer,
\* unless it was put on (or found by a restart) when the predicate already filtered
\* the events of the Service out.
EndpointsSettle ==
    Quiet /\ service # None =>
       /\ service.deleting => forgotten
       /\ ~shouldHandleService(service) =>
             /\ Existing(endpoints) = {}
             /\ service.finalizer => forgotten
       /\ shouldHandleService(service) /\ service.spec.ports /\ ~service.deleting =>
             /\ service.finalizer
             /\ service.computed # None
             /\ service.computed = TLS <=> service.spec.url = TLS
             /\ Matches(service)

\* When nothing is under way the published status is the computed address, or, for
\* TLS, the CNAME target of the Domain if it has one and its name otherwise; it is
\* neither left empty nor left over from an earlier URL.  This holds unless the
\* Domain was out of date in the cache when it was last read: no change of the
\* Domain itself starts a reconcile.
StatusSettles ==
    /\ Quiet /\ service # None /\ ~service.deleting /\ ~misread
    /\ shouldHandleService(service) /\ service.spec.ports
    => service.status = IF service.computed = TLS THEN domain ELSE service.computed

\* The two together: a Service that nothing is under way for has what it asks for, and
\* its status says where (Reconcile, buildEndpoints, updateStatus).
ServiceSettles == EndpointsSettle /\ StatusSettles

\* As long as a Service wants a TCP address and the one it has stays reserved, it
\* keeps it: a reconcile that works on an old copy may reserve another address, but
\* its update of the annotation fails.
KeepsAddress ==
    \A a \in Addrs :
       /\ service # None /\ service' # None
       /\ service.computed = a /\ service'.computed # a
       => a \notin reserved \/ service.spec.url = TLS

AddressKept == [][KeepsAddress]_serviceVars
=============================================================================
