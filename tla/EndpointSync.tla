---------------------------- MODULE EndpointSync ----------------------------
(***************************************************************************)
(* The body of a sync: Driver.Sync and Driver.SyncEndpoints                *)
(* (pkg/managerdriver/driver.go, endpoints.go, domains.go), which bring    *)
(* the AgentEndpoints, the CloudEndpoints, the Domains and the addresses   *)
(* in the statuses of Ingresses to what the store translates to.           *)
(*                                                                         *)
(* Who may run one and when is module SyncDebounce, what the store holds   *)
(* is module DriverStore, and what it translates to are the modules        *)
(* IngressTranslation, GatewayTranslation and Translation; here that is    *)
(* one function, want.  A sync lists the endpoints once, from a cache, and *)
(* then works its way through the list: what it finds there may be old,    *)
(* and users and other controllers write the same objects meanwhile.       *)
(***************************************************************************)
EXTENDS Naturals, FiniteSets

CONSTANTS None,      \* no object, no value
          Names,     \* hosts; each has one endpoint of each kind and one Domain
          Specs,     \* what an endpoint's spec can be
          MaxEvents  \* bound on edits, interference and restarts

VARIABLES want,      \* Keys -> what the store translates to
          asked,     \* the kinds of sync that are to run
          endpoints, \* Keys -> the endpoint in the API server
          listed,    \* Keys -> the endpoint in the cache
          domains,   \* Names -> the Domain in the API server
          known,     \* Names -> the Domain in the cache
          told,      \* Names -> the address in the status of the Ingress
          copied,    \* Names -> that address in the store's copy
          sync,      \* the sync under way
          drifted,   \* ghost: keys a sync could not see as they are
          unsettled, \* ghost: names whose Domain came or went unnoticed
          events     \* edits, interferences and restarts so far

cluster == <<endpoints, listed, domains, known, told, copied>>
ghosts == <<drifted, unsettled>>
endpointVars == <<want, asked, cluster, sync, ghosts, events>>

Keys == {"agent", "cloud"} \X Names

\* "operator": labelled by this installation; "service": labelled, and owned by
\* a LoadBalancer Service; "user": not labelled.
Owners == {"operator", "service", "user"}

Endpoint == [spec: Specs, owner: Owners, going: BOOLEAN]

ASSUME EndpointAssumption ==
  /\ None \notin Specs \cup Endpoint
  /\ MaxEvents \in Nat

\* A Domain is "pending" until the Domain controller has put an address in its
\* status.
Addresses == {"pending", "ready"}
\* Mutant of AddressOf: an empty host name is not left out.
AddressUnchecked(d) == d

AddressOf(d) == IF d = "ready" THEN "ready" ELSE None

Idle == [at |-> "idle", kind |-> "full", want |-> [k \in Keys |-> None],
         list |-> [k \in Keys |-> None], todo |-> {}, left |-> {}, news |-> [n \in {} |-> None]]

Syncs == [at: {"idle", "domains", "agent", "cloud", "statuses"}, kind: {"full", "partial"},
          want: [Keys -> Specs \cup {None}], list: [Keys -> Endpoint \cup {None}],
          todo: SUBSET Keys, left: SUBSET Keys,
          news: UNION {[N -> {"ready", None}] : N \in SUBSET Names}]

\* The store has an Ingress for the host, and so its Domain is wanted.
Mentioned(w, n) == \E k \in Keys : k[2] = n /\ w[k] # None

Init == /\ want = [k \in Keys |-> None]
        /\ asked = {}
        /\ endpoints = [k \in Keys |-> None]
        /\ listed = endpoints
        /\ domains = [n \in Names |-> None]
        /\ known = domains
        /\ told = [n \in Names |-> None]
        /\ copied = told
        /\ sync = Idle
        /\ drifted = {}
        /\ unsettled = {}
        /\ events = 0

Stays(k, x) == endpoints' = [endpoints EXCEPT ![k] = x]

Others == UNCHANGED <<domains, known, told, copied>>

Happens == events < MaxEvents /\ events' = events + 1

(***************************************************************************)
(* One sync.                                                               *)
(***************************************************************************)
\* Mutant of shouldBeSkippedInApply: owner references are not looked at.
shouldBeSkippedByLabel(o) == o.owner = "user"

\* An endpoint of the user's or of the Service controller is passed over.
shouldBeSkippedInApply(o) == o.owner # "operator"

\* The selectors of listAgentEndpointsForController find what has the labels.
Listed == [k \in Keys |-> IF listed[k] # None /\ listed[k].owner # "user" THEN listed[k] ELSE None]

\* What the loop over the current endpoints of a kind, and the one over the
\* desired ones, are about to go through.
Enter(s, kind) == [s EXCEPT !.at = kind,
                            !.todo = {k \in Keys : k[1] = kind /\ s.list[k] # None},
                            !.left = {k \in Keys : k[1] = kind /\ s.want[k] # None}]

\* What an endpoint list of this moment does not show as it will be.
Misread == {k \in Keys : \/ listed[k] # endpoints[k]
                         \/ listed[k] # None /\ listed[k].going}

\* Sync and SyncEndpoints translate the store and list the endpoints.  A full
\* sync stands for the partial ones that wait.
Start(kind) ==
  LET began == [Idle EXCEPT !.kind = kind, !.want = want, !.list = Listed]
  IN  /\ sync.at = "idle"
      /\ kind \in asked
      /\ asked' = IF kind = "full" THEN {} ELSE asked \ {"partial"}
      /\ sync' = IF kind = "full" THEN [began EXCEPT !.at = "domains"] ELSE Enter(began, "agent")
      /\ drifted' = Misread
      /\ UNCHANGED <<want, cluster, unsettled, events>>

\* Mutant of Fail: the error is dropped.
FailQuietly == /\ sync' = Idle
               /\ asked' = asked
               /\ UNCHANGED <<want, cluster, ghosts, events>>

\* The reconcile that called returns the error and is run again.
Fail == /\ sync' = Idle
        /\ asked' = asked \cup {sync.kind}
        /\ UNCHANGED <<want, cluster, ghosts, events>>

\* CreateOrPatch for every Domain, in goroutines that all run to their end; it
\* fails for one the cache does not show as it is.
applyDomains ==
  LET wanted == {n \in Names : Mentioned(sync.want, n)}
      right  == {n \in wanted : (known[n] = None) <=> (domains[n] = None)}
  IN  /\ sync.at = "domains"
      /\ domains' = [n \in Names |-> IF n \in right /\ domains[n] = None THEN "pending" ELSE domains[n]]
      /\ IF right = wanted
         THEN sync' = Enter(sync, "agent") /\ asked' = asked
         ELSE sync' = Idle /\ asked' = asked \cup {sync.kind}
      /\ UNCHANGED <<want, endpoints, listed, known, told, copied, ghosts, events>>

\* One turn of the loop over the current endpoints: skip, update, delete.
\* Update is refused unless the object is still the one listed; Delete takes
\* whatever has the name, and with a finalizer the object stays a while.
ApplyListed(k) ==
  LET o == sync.list[k]
      next == [sync EXCEPT !.todo = @ \ {k}]
  IN  /\ k \in sync.todo
      /\ IF shouldBeSkippedInApply(o)
         THEN sync' = next /\ endpoints' = endpoints
         ELSE IF sync.want[k] = None
         THEN /\ sync' = next
              /\ \/ /\ endpoints[k] # None
                    /\ \E x \in {None, [endpoints[k] EXCEPT !.going = TRUE]} : Stays(k, x)
                 \/ endpoints[k] = None /\ endpoints' = endpoints
         ELSE /\ sync' = [next EXCEPT !.left = @ \ {k}]
              /\ IF o.spec = sync.want[k]
                 THEN endpoints' = endpoints
                 ELSE endpoints[k] = o /\ Stays(k, [o EXCEPT !.spec = sync.want[k]])
      /\ UNCHANGED <<want, asked, listed, ghosts, events>> /\ Others

Conflict(k) == /\ k \in sync.todo
               /\ ~shouldBeSkippedInApply(sync.list[k])
               /\ sync.want[k] \notin {None, sync.list[k].spec}
               /\ endpoints[k] # sync.list[k]
               /\ Fail

\* One turn of the loop over what is left of the desired endpoints.
ApplyLeft(k) ==
  /\ sync.todo = {}
  /\ k \in sync.left
  /\ IF endpoints[k] = None
     THEN /\ Stays(k, [spec |-> sync.want[k], owner |-> "operator", going |-> FALSE])
          /\ sync' = [sync EXCEPT !.left = @ \ {k}]
          /\ UNCHANGED <<want, asked, listed, ghosts, events>> /\ Others
     ELSE Fail

\* The statuses to write: those that are not, in the store's copy, what the
\* Domains in the cache say.
updateIngressStatuses ==
  [n \in {x \in Names : Mentioned(want, x) /\ copied[x] # AddressOf(known[x])} |-> AddressOf(known[n])]

\* AgentEndpoints first, then CloudEndpoints, then, in a full sync, statuses.
NextStage ==
  /\ sync.at \in {"agent", "cloud"}
  /\ sync.todo = {} /\ sync.left = {}
  /\ sync' = IF sync.at = "agent" THEN Enter(sync, "cloud")
             ELSE IF sync.kind = "partial" THEN Idle
             ELSE [sync EXCEPT !.at = "statuses", !.news = updateIngressStatuses]
  /\ unsettled' = IF sync'.at = "statuses" THEN unsettled \ {n \in Names : known[n] = domains[n]} ELSE unsettled
  /\ UNCHANGED <<want, asked, cluster, drifted, events>>

\* The write reads the Ingress again and repeats on a conflict, so what was
\* computed is written over whatever is there.
WriteStatuses ==
  /\ sync.at = "statuses"
  /\ told' = [n \in Names |-> IF n \in DOMAIN sync.news /\ Mentioned(want, n) THEN sync.news[n] ELSE told[n]]
  /\ sync' = Idle
  /\ UNCHANGED <<want, asked, endpoints, listed, domains, known, copied, ghosts, events>>

Apply(k) == ApplyListed(k) \/ Conflict(k) \/ ApplyLeft(k)
applyAgentEndpoints == \E n \in Names : Apply(<<"agent", n>>)
applyCloudEndpoints == \E n \in Names : Apply(<<"cloud", n>>)

Sync == \/ \E kind \in {"full", "partial"} : Start(kind)
        \/ applyDomains
        \/ applyAgentEndpoints
        \/ applyCloudEndpoints
        \/ NextStage
        \/ WriteStatuses
        \/ sync.at # "idle" /\ Fail

(***************************************************************************)
(* The caches and the other controllers.                                   *)
(***************************************************************************)
DeliverEndpoint(k) ==
  /\ listed[k] # endpoints[k]
  /\ listed' = [listed EXCEPT ![k] = endpoints[k]]
  /\ UNCHANGED <<want, asked, endpoints, sync, ghosts, events>> /\ Others

\* Mutant of DeliverDomain: the statuses are left to the next sync.
DeliverQuietly(n) ==
  /\ known[n] # domains[n]
  /\ known' = [known EXCEPT ![n] = domains[n]]
  /\ UNCHANGED <<want, asked, endpoints, listed, domains, told, copied, sync, ghosts, events>>

\* The handler of an update of a Domain computes and writes the statuses too,
\* beside the sync that may be running, and only logs a failure; the handlers
\* of a creation and of a deletion do not.
DeliverDomain(n) ==
  /\ known[n] # domains[n]
  /\ known' = [known EXCEPT ![n] = domains[n]]
  /\ IF known[n] # None /\ domains[n] # None /\ Mentioned(want, n)
     THEN \/ /\ told' = [told EXCEPT ![n] = IF copied[n] = AddressOf(domains[n]) THEN @ ELSE AddressOf(domains[n])]
             /\ unsettled' = unsettled
          \/ unsettled' = unsettled \cup {n} /\ told' = told
     ELSE /\ told' = told
          /\ unsettled' = IF AddressOf(domains[n]) = told[n] THEN unsettled ELSE unsettled \cup {n}
  /\ UNCHANGED <<want, asked, endpoints, listed, domains, copied, sync, drifted, events>>

\* A written status is an event of the Ingress: its reconcile stores the new
\* copy and asks for a sync.
DeliverIngress(n) ==
  /\ copied[n] # told[n]
  /\ copied' = [copied EXCEPT ![n] = told[n]]
  /\ asked' = asked \cup {"full"}
  /\ UNCHANGED <<want, endpoints, listed, domains, known, told, sync, ghosts, events>>

\* The Domain controller sets the address, and may take it back.
DomainStep(n) ==
  /\ \/ domains[n] = "pending" /\ domains' = [domains EXCEPT ![n] = "ready"] /\ events' = events
     \/ domains[n] = "ready" /\ domains' = [domains EXCEPT ![n] = "pending"] /\ Happens
  /\ UNCHANGED <<want, asked, endpoints, listed, known, told, copied, sync, ghosts>>

\* An endpoint's own controller removes its finalizer.
FinishDeletion(k) ==
  /\ endpoints[k] # None
  /\ endpoints[k].going
  /\ Stays(k, None)
  /\ UNCHANGED <<want, asked, listed, sync, ghosts, events>> /\ Others

(***************************************************************************)
(* Edits, interference and restarts.                                       *)
(***************************************************************************)
\* A reconcile has changed the store and asks for a sync: an Ingress for a full
\* one, a traffic policy, which only changes specs, for one of the endpoints.
EditStore ==
  /\ Happens
  /\ \E k \in Keys, s \in Specs \cup {None}, kind \in {"full", "partial"} :
       LET w == [want EXCEPT ![k] = s]
           gone == ~Mentioned(w, k[2])
       IN  /\ s # want[k]
           /\ kind = "partial" => None \notin {s, want[k]}
           /\ want' = w
           /\ asked' = asked \cup {kind}
           /\ told' = [told EXCEPT ![k[2]] = IF gone THEN None ELSE @]
           /\ copied' = [copied EXCEPT ![k[2]] = IF gone THEN None ELSE @]
  /\ UNCHANGED <<endpoints, listed, domains, known, sync, ghosts>>

\* Somebody else writes an endpoint, deletes one or edits one of the operator's:
\* nothing watches the endpoints for it.
Interfere(k) ==
  /\ Happens
  /\ \/ /\ endpoints[k] = None
        /\ \E o \in {"user", "service"}, s \in Specs : Stays(k, [spec |-> s, owner |-> o, going |-> FALSE])
     \/ /\ endpoints[k] # None
        /\ \E s \in Specs : Stays(k, [endpoints[k] EXCEPT !.spec = s])
     \/ /\ endpoints[k] # None
        /\ Stays(k, [endpoints[k] EXCEPT !.going = TRUE])
  /\ drifted' = drifted \cup {k}
  /\ UNCHANGED <<want, asked, listed, sync, unsettled>> /\ Others

DeleteDomain(n) ==
  /\ Happens
  /\ domains[n] # None
  /\ domains' = [domains EXCEPT ![n] = None]
  /\ unsettled' = unsettled \cup {n}
  /\ UNCHANGED <<want, asked, endpoints, listed, known, told, copied, sync, drifted>>

\* The api-manager starts again: its caches and its store are read anew, and
\* every Ingress there is asks for a sync.
Restart ==
  /\ Happens
  /\ sync' = Idle
  /\ listed' = endpoints
  /\ known' = domains
  /\ copied' = told
  /\ IF \E n \in Names : Mentioned(want, n)
     THEN asked' = {"full"} /\ drifted' = drifted
     ELSE asked' = {} /\ drifted' = Keys
  /\ UNCHANGED <<want, endpoints, domains, told, unsettled>>

Next == \/ Sync
        \/ \E k \in Keys : DeliverEndpoint(k) \/ FinishDeletion(k) \/ Interfere(k)
        \/ \E n \in Names : DeliverDomain(n) \/ DeliverIngress(n) \/ DomainStep(n) \/ DeleteDomain(n)
        \/ EditStore
        \/ Restart

Spec == Init /\ [][Next]_endpointVars

(***************************************************************************)
(* Properties.                                                             *)
(***************************************************************************)
TypeOK ==
  /\ want \in [Keys -> Specs \cup {None}]
  /\ asked \subseteq {"full", "partial"}
  /\ endpoints \in [Keys -> Endpoint \cup {None}] /\ listed \in [Keys -> Endpoint \cup {None}]
  /\ domains \in [Names -> Addresses \cup {None}] /\ known \in [Names -> Addresses \cup {None}]
  /\ told \in [Names -> {"ready", None}] /\ copied \in [Names -> {"ready", None}]
  /\ sync \in Syncs
  /\ drifted \subseteq Keys /\ unsettled \subseteq Names
  /\ events \in 0..MaxEvents

\* No sync is under way and none is to come.
AtRest == asked = {} /\ sync.at = "idle" /\ copied = told

\* What a user would call in order.
InOrder(k) == IF want[k] = None
              THEN endpoints[k] = None \/ endpoints[k].going \/ endpoints[k].owner # "operator"
              ELSE endpoints[k] = [spec |-> want[k], owner |-> "operator", going |-> FALSE]

\* When the last sync asked for has returned, every endpoint the operator owns is
\* wanted and as wanted, and every wanted one is there (Sync, applyAgentEndpoints,
\* applyCloudEndpoints): whatever failed, conflicted, or changed in the store
\* during the sync has been made up for.  Excused are the keys the sync's one
\* list showed wrongly, or showed an object being deleted for, and those others
\* wrote since: nothing watches the endpoints and brings a sync back to them.
EndpointsConverge == AtRest => \A k \in Keys \ drifted : InOrder(k)

\* A sync writes and deletes no endpoint that is the user's or the Service
\* controller's (shouldBeSkippedInApply), and none of its own that is as wanted
\* (the comparison before Update), unless its list showed the key wrongly.
SparesOthers ==
  \A k \in Keys \ drifted :
    /\ sync' # sync
    /\ endpoints[k] # None
    /\ endpoints[k].owner # "operator" \/ endpoints[k].spec = sync.want[k]
    => endpoints'[k] = endpoints[k]
OthersSpared == [][SparesOthers]_endpointVars

\* At rest the status of an Ingress names the address its Domain has
\* (updateIngressStatuses), although two writers, the sync and the handler of
\* Domain updates, compute it from the cache, compare it with the store's copy
\* and write it later, one over the other.  Excused is a Domain that came or went,
\* or whose update could not be written: no handler makes up for those.
AddressTold ==
  AtRest => \A n \in Names \ unsettled :
              (Mentioned(want, n) /\ known[n] = domains[n]) => told[n] = AddressOf(domains[n])
=============================================================================
