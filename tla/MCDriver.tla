------------------------------- MODULE MCDriver -------------------------------
(***************************************************************************)
(* The manager's driver, from the store to the endpoints, each part on     *)
(* small instances.  As in MCControllers, focus says which part takes the  *)
(* steps of a behaviour; the variables of the others are None, those of    *)
(* EndpointSync what they are at first.                                    *)
(***************************************************************************)
EXTENDS EndpointSync, Sequences, TLC

CONSTANTS sa, sb, sc

VARIABLES focus,
    hosts, made,
    source, taken, irHosts, irDomains,
    gwSource, todo, vhosts,
    obj, seen, news, store, synced, requests, works, draining, skipped, lost, cut, happened

Cases == INSTANCE TranslationCases

Routing == INSTANCE Translation WITH
    Inputs <- Cases!Inputs, Policies <- Cases!Policies, Requests <- Cases!Requests, Draws <- 0..5
Ingresses == INSTANCE IngressTranslation WITH
    Sources <- Cases!IngressSources, Internal <- {"internal"}, hosts <- irHosts, domains <- irDomains
Gateways == INSTANCE GatewayTranslation WITH
    Sources <- Cases!GatewaySources, Labels <- Cases!Labels, Paths <- Cases!Paths, source <- gwSource

\* An Ingress with its class and Service; a Gateway with its class and an
\* HTTPRoute; a Gateway with a TCPRoute to another namespace; a Gateway with a
\* TLSRoute, whose namespace it selects by label.
IngressStore == INSTANCE DriverStore WITH Objects <- {"ing", "iclass", "svc"}, MaxEvents <- 5
GatewayStore == INSTANCE DriverStore WITH Objects <- {"gw", "gclass", "http"}, MaxEvents <- 2
RouteStore == INSTANCE DriverStore WITH Objects <- {"gw", "tcp", "grant"}, MaxEvents <- 3
SelectStore == INSTANCE DriverStore WITH Objects <- {"gw", "tls", "ns"}, MaxEvents <- 3

\* Specs of endpoints are only compared.
SpecSymmetry == Permutations(Specs)

Focuses == {"routing", "ingresses", "gateways", "ingressStore", "gatewayStore", "routeStore", "selectStore",
            "endpoints"}

routingAll == <<hosts, made>>
ingressAll == <<source, taken, irHosts, irDomains>>
gatewayAll == <<gwSource, todo, vhosts>>
storeAll == <<obj, seen, news, store, synced, requests, works, draining, skipped, lost, cut, happened>>
all == <<focus, routingAll, ingressAll, gatewayAll, storeAll, endpointVars>>

First ==
    /\ focus \in Focuses
    /\ IF focus = "routing" THEN Routing!Init ELSE hosts = None /\ made = None
    /\ IF focus = "ingresses" THEN Ingresses!Init
       ELSE source = None /\ taken = None /\ irHosts = None /\ irDomains = None
    /\ IF focus = "gateways" THEN Gateways!Init ELSE gwSource = None /\ todo = None /\ vhosts = None
    /\ CASE focus = "ingressStore" -> IngressStore!Init
         [] focus = "gatewayStore" -> GatewayStore!Init
         [] focus = "routeStore" -> RouteStore!Init
         [] focus = "selectStore" -> SelectStore!Init
         [] OTHER -> /\ obj = None /\ seen = None /\ news = None /\ store = None /\ synced = None
                     /\ requests = None /\ works = None /\ draining = None /\ skipped = None
                     /\ lost = None /\ cut = None /\ happened = None
    /\ Init

Step ==
    /\ UNCHANGED focus
    /\ \/ focus = "routing" /\ Routing!Next /\ UNCHANGED <<ingressAll, gatewayAll, storeAll, endpointVars>>
       \/ focus = "ingresses" /\ Ingresses!Next /\ UNCHANGED <<routingAll, gatewayAll, storeAll, endpointVars>>
       \/ focus = "gateways" /\ Gateways!Next /\ UNCHANGED <<routingAll, ingressAll, storeAll, endpointVars>>
       \/ /\ \/ focus = "ingressStore" /\ IngressStore!Next
             \/ focus = "gatewayStore" /\ GatewayStore!Next
             \/ focus = "routeStore" /\ RouteStore!Next
             \/ focus = "selectStore" /\ SelectStore!Next
          /\ UNCHANGED <<routingAll, ingressAll, gatewayAll, endpointVars>>
       \/ focus = "endpoints" /\ Next /\ UNCHANGED <<routingAll, ingressAll, gatewayAll, storeAll>>

Behaviours == First /\ [][Step]_all

(***************************************************************************)
(* Properties: those of the modules, for the part in focus.  Those of      *)
(* EndpointSync hold throughout.                                           *)
(***************************************************************************)

\* Every part keeps its variables within their types.
TypesOK ==
    /\ focus = "ingressStore" => IngressStore!TypeOK
    /\ focus = "gatewayStore" => GatewayStore!TypeOK
    /\ focus = "routeStore" => RouteStore!TypeOK
    /\ focus = "selectStore" => SelectStore!TypeOK
    /\ TypeOK

\* A request gets, from the endpoints and traffic policies that Translate makes of
\* a host, what the first matching route of the host asks for, and SortRoutes puts a
\* more specific route before those that cover it.
RoutedRight == focus = "routing" => Routing!RoutedRight /\ Routing!SpecificFirst

\* Every host that may be served by one AgentEndpoint alone is (validateMappingStrategies).
CollapsedWherePossible == focus = "routing" => Routing!CollapsedWherePossible

\* ingressesToIR merges the Ingresses that agree on a host, in order, and leaves
\* out those that do not; every reservable host of an Ingress or a listener gets a
\* Domain, in its namespace (calculateDomainSet).
HostsMerged == focus = "ingresses" => Ingresses!HostsMerged /\ Ingresses!HostsReserved

\* A route is attached to exactly the listeners that the Gateway API says
\* (findMatchingVHostsForXRoute, matchGatewayListenersToXRoute).
AttachedWhereAllowed == focus = "gateways" => Gateways!AttachedWhereAllowed

\* A reference to another namespace is followed only under a ReferenceGrant
\* (isRefToNamespaceAllowed and its callers).
OnlyGranted == focus = "gateways" => Gateways!OnlyGranted

\* A request or a response under a route's filters becomes what the filters ask for
\* (gatewayAPIFilterToTrafficPolicy).
FiltersAsAsked == focus = "gateways" => Gateways!FiltersAsAsked

\* When the controllers rest, what is usable in the API server is in what the last
\* Sync read, and nothing that is gone (the reconcilers of Ingresses, Gateways and
\* routes); the status of an HTTPRoute tells that it is accepted (validateHTTPRoute).
ServedExactly ==
    /\ focus = "ingressStore" => IngressStore!ServedExactly
    /\ focus = "gatewayStore" => GatewayStore!ServedExactly /\ GatewayStore!AcceptanceTold
    /\ focus = "routeStore" => RouteStore!ServedExactly
    /\ focus = "selectStore" => SelectStore!ServedExactly

\* At rest no object waits, being deleted, for the operator's finalizer, and a
\* GatewayClass is held by its finalizer exactly while a Gateway uses it.
FinalizersFit ==
    /\ focus = "ingressStore" => IngressStore!FinalizersFit
    /\ focus = "gatewayStore" => GatewayStore!FinalizersFit
    /\ focus = "routeStore" => RouteStore!FinalizersFit
    /\ focus = "selectStore" => SelectStore!FinalizersFit

\* validateHTTPRoute keeps the entries that other controllers have in the status.
StatusKept == [][focus = "gatewayStore" => GatewayStore!OthersKept]_all
===============================================================================
