-------------------------- MODULE GatewayTranslation --------------------------
(***************************************************************************)
(* The first half of the translator, for the Gateway API: Gateways and     *)
(* their routes to the hosts that Translation turns into endpoints         *)
(* (pkg/managerdriver/translate_gatewayapi.go).                            *)
(*                                                                         *)
(* One step takes one route; the store lists them in no particular order.  *)
(* A host name is its labels, the top level first, with a leading "*" or   *)
(* without; a path is a sequence of "/" and of texts without one. The      *)
(* Gateways of the store are of this operator's class. A Gateway whose     *)
(* policy or bindings do not resolve is not sound. Weights, labels and     *)
(* annotations are left out.                                               *)
(***************************************************************************)
EXTENDS Naturals, Sequences, SequencesExt, FiniteSets, TLC

CONSTANTS
    None,
    Sources,   \* the contents of the store
    Labels,    \* the labels of the names that clients ask for
    Paths      \* the paths they ask for

VARIABLES source, todo, vhosts

gatewayVars == <<source, todo, vhosts>>

(***************************************************************************)
(* References across namespaces.                                           *)
(***************************************************************************)

\* A mutant of isRefToNamespaceAllowed: one grant names the target, another the source.
isRefAllowedByTwo(fromNs, fromKind, toName, toNs, toKind) ==
    \/ fromNs = toNs
    \/ LET there == {g \in source.grants : g.ns = toNs}
       IN /\ \E g \in there : \E t \in g.to : t.kind = toKind /\ t.name \in {None, toName}
          /\ \E g \in there : \E f \in g.from : f.kind = fromKind /\ f.ns = fromNs

isRefToNamespaceAllowed(fromNs, fromKind, toName, toNs, toKind) ==
    \/ fromNs = toNs
    \/ \E g \in source.grants :
          /\ g.ns = toNs
          /\ \E t \in g.to : t.kind = toKind /\ t.name \in {None, toName}
          /\ \E f \in g.from : f.kind = fromKind /\ f.ns = fromNs

\* A reference without a namespace is to the one of its owner.
In(ref, ns) == IF ref.ns = None THEN ns ELSE ref.ns
Found(table, key) == IF key \in DOMAIN table THEN table[key] ELSE None

(***************************************************************************)
(* Which listeners of a Gateway a route is attached to.                    *)
(***************************************************************************)
Star == [wild |-> TRUE, labels |-> <<>>]

\* The "*" of a glob matches dots as well, and the "*" of another glob.
GlobMatches(g, h) ==
    IF h.wild THEN IsPrefix(g.labels, h.labels) ELSE IsStrictPrefix(g.labels, h.labels)

\* A mutant of doHostGlobsMatch: only the first of the names may be a glob.
doHostGlobMatch(h1, h2) == IF h1.wild THEN GlobMatches(h1, h2) ELSE h1 = h2

doHostGlobsMatch(h1, h2) ==
    CASE h1.wild -> GlobMatches(h1, h2)
      [] ~h1.wild /\ h2.wild -> GlobMatches(h2, h1)
      [] OTHER -> h1 = h2

\* allowedRoutes; source.selected are the namespaces that the selectors match.
AllowedRoutes(gw, l, route) ==
    LET same == gw.ns = route.ns
        a == l.allowed
    IN IF a = None THEN same
       ELSE /\ a.kinds = {} \/ route.kind \in a.kinds
            /\ CASE a.from = "all" -> TRUE
                 [] a.from = "selector" -> route.ns \in source.selected
                 [] OTHER -> same

ListenerHostname(l) == IF l.host = None THEN Star ELSE l.host

\* A listener the route is allowed on that does not fit an address excludes them all.
matchGatewayListenersToXRoute(gw, route, ref) ==
    LET Candidate(l) ==
            /\ ref.section \in {None, l.name}
            /\ ref.port \in {None, l.port}
            /\ AllowedRoutes(gw, l, route)
            /\ gw.addresses = {} => ListenerHostname(l) # Star
        candidates == {i \in DOMAIN gw.listeners : Candidate(gw.listeners[i])}
        Name(i) == ListenerHostname(gw.listeners[i])
    IN IF \E i \in candidates, a \in gw.addresses : ~doHostGlobsMatch(Name(i), a) THEN {}
       ELSE {i \in candidates : \/ route.hosts = {}
                                \/ \E h \in route.hosts : h = Star \/ doHostGlobsMatch(Name(i), h)}

(***************************************************************************)
(* TLS termination. None is an error.                                      *)
(***************************************************************************)
ServerCertificate(gw, ref) ==
    LET key == <<In(ref, gw.ns), ref.name>>
    IN IF /\ ref.kind = "Secret"
          /\ isRefToNamespaceAllowed(gw.ns, "Gateway", ref.name, key[1], "Secret")
          /\ Found(source.secrets, key) = "tls"
       THEN {key} ELSE None

Authority(gw, ref) ==
    LET key == <<In(ref, gw.ns), ref.name>>
    IN IF /\ isRefToNamespaceAllowed(gw.ns, "Gateway", ref.name, key[1], "ConfigMap")
          /\ ref.kind = "ConfigMap"
          /\ Found(source.configs, key) = "ca"
       THEN {key} ELSE None

\* An option of the new prefix takes the place of one of the old prefix.
Options(options) ==
    {o \in options : o.prefix = "new" \/ ~\E n \in options : n.prefix = "new" /\ n.key = o.key}

gatewayTLSTermConfigToIR(gw, tls) ==
    LET server == IF tls.certs = <<>> THEN {} ELSE ServerCertificate(gw, Head(tls.certs))
        clients == {Authority(gw, ref) : ref \in gw.authorities}
    IN IF server = None \/ None \in clients \/ (\E o \in Options(tls.options) : o.key = "reserved")
       THEN None
       ELSE [server |-> server, clients |-> UNION clients,
             options |-> {<<o.key, o.value>> : o \in Options(tls.options)}]

\* What a listener terminates, None when it is left out.
Plain == [server |-> {}, clients |-> {}, options |-> {}]
Terminates(gw, l) ==
    CASE l.proto \notin {"HTTP", "HTTPS", "TCP", "TLS"} -> None
      [] l.tls = None -> Plain
      [] l.proto \in {"HTTP", "TCP"} \/ (l.proto = "HTTPS" /\ l.tls.passthrough) -> None
      [] OTHER -> gatewayTLSTermConfigToIR(gw, l.tls)

(***************************************************************************)
(* The hosts of a route.                                                   *)
(***************************************************************************)
ClientCertificateAllowed(gw) ==
    gw.clientCert # None =>
        isRefToNamespaceAllowed(gw.ns, "Gateway", gw.clientCert.name, In(gw.clientCert, gw.ns), "Secret")

\* The listeners a route is attached to, in the order of its references and of the Gateway.
Attached(route) ==
    LET Gateways(ref) == {g \in source.gateways :
            /\ g.name = ref.name /\ g.ns = In(ref, route.ns)
            /\ g.sound /\ ClientCertificateAllowed(g)}
        Listeners(g, ref) == {i \in matchGatewayListenersToXRoute(g, route, ref) :
            Terminates(g, g.listeners[i]) # None}
        At(ref) == IF Gateways(ref) = {} THEN <<>>
                   ELSE LET g == CHOOSE g \in Gateways(ref) : TRUE
                            l == SetToSortSeq(Listeners(g, ref), <)
                        IN [k \in DOMAIN l |-> [gw |-> g, l |-> g.listeners[l[k]]]]
    IN FlattenSeq([k \in DOMAIN route.parents |-> At(route.parents[k])])

\* The hosts are those of the addresses or, without addresses, of the listener.
Keys(at) ==
    {[gw |-> <<at.gw.ns, at.gw.name>>, host |-> h, port |-> at.l.port, proto |-> at.l.proto] :
        h \in IF at.gw.addresses = {} THEN {at.l.host} ELSE at.gw.addresses}

NewHost(at) ==
    [tls |-> Terminates(at.gw, at.l), owners |-> {}, routes |-> <<>>,
     cert |-> IF at.gw.clientCert = None THEN None
              ELSE <<In(at.gw.clientCert, at.gw.ns), at.gw.clientCert.name>>]

\* A host that is there keeps what the first listener gave it.
findMatchingVHostsForXRoute(known, route) ==
    LET Add(vs, at) == vs @@ [k \in Keys(at) |-> NewHost(at)]
    IN FoldLeft(Add, known, Attached(route))

Hit(route) == UNION {Keys(at) : at \in ToSet(Attached(route))}

(***************************************************************************)
(* Filters, each a sequence of actions, None for an error. A piece of the  *)
(* URL that an action puts together is given, or None: what the request    *)
(* has there.                                                              *)
(***************************************************************************)
HeaderActions(on, f) ==
    <<[do |-> "remove", on |-> on, names |-> f.remove \cup DOMAIN f.set],
      [do |-> "add", on |-> on, values |-> f.set @@ f.add]>>

\* A mutant of PathPieces: the path that replaces all of it is put behind the prefix.
PathPiecesBehind(path) ==
    CASE path = None -> [prefix |-> None, rest |-> None]
      [] path # None /\ path.full -> [prefix |-> None, rest |-> path.to]
      [] OTHER -> [prefix |-> path.to, rest |-> None]

\* What becomes of the path: the part the route matches, and the rest.
PathPieces(path) ==
    CASE path = None -> [prefix |-> None, rest |-> None]
      [] path # None /\ path.full -> [prefix |-> <<>>, rest |-> path.to]
      [] OTHER -> [prefix |-> path.to, rest |-> None]

UrlAction(do, scheme, host, port, path, match) ==
    [do |-> do, match |-> match.path, scheme |-> scheme, host |-> host, port |-> port,
     prefix |-> PathPieces(path).prefix, rest |-> PathPieces(path).rest]

\* The port that is the default of http is left out, and every one but that of https.
RedirectPort(f) ==
    IF \/ f.port = None
       \/ f.scheme = "http" /\ f.port = 80
       \/ f.scheme = "https" /\ f.port # 443
    THEN None ELSE f.port

gwapiRedirectFilterToTrafficPolicy(f, match) ==
    <<UrlAction("redirect", f.scheme, f.host, RedirectPort(f), f.path, match)>>

gwapiURLRewriteFilterToTrafficPolicy(f, match) ==
    IF f.host = None /\ f.path = None THEN None
    ELSE <<UrlAction("rewrite", None, f.host, None, f.path, match)>>

gatewayAPIFilterToTrafficPolicy(f, ns, match) ==
    CASE f.type = "request" -> HeaderActions("request", f)
      [] f.type = "response" -> HeaderActions("response", f)
      [] f.type = "redirect" -> gwapiRedirectFilterToTrafficPolicy(f, match)
      [] f.type = "rewrite" -> gwapiURLRewriteFilterToTrafficPolicy(f, match)
      [] f.type = "policy" /\ Found(source.policies, <<ns, f.name>>) \notin {None, "bad", "tcp"} ->
             <<[do |-> "policy", content |-> source.policies[<<ns, f.name>>]]>>
      [] OTHER -> None

\* The filters that have an error are skipped.
FilterActions(filters, ns, match) ==
    FlattenSeq(SelectSeq([i \in DOMAIN filters |-> gatewayAPIFilterToTrafficPolicy(filters[i], ns, match)],
                         LAMBDA a : a # None))

(***************************************************************************)
(* Backends.                                                               *)
(***************************************************************************)
\* The first port of the number asked for, or without a name.
findServicesPort(ports, number) ==
    LET fits == {i \in DOMAIN ports : ports[i].number = number \/ ports[i].name = None}
    IN IF fits = {} THEN None ELSE ports[CHOOSE i \in fits : \A j \in fits : i <= j].number

\* The scheme that the Service gives for the port, or else the one of the route.
getProtoForServicePort(svc, default) == IF svc.scheme = None THEN default ELSE svc.scheme

\* A destination, or None for an error. One without a Service has its filters only; the
\* certificate is for Services of the secure scheme.
Destination(route, b, default, secure, cert, actions) ==
    LET ns == In(b, route.ns)
        svc == Found(source.services, <<ns, b.name>>)
        port == IF svc = None \/ b.port = None THEN None ELSE findServicesPort(svc.ports, b.port)
    IN CASE b.kind # "Service" -> None
         [] b.kind = "Service" /\ b.name = None -> [to |-> None, cert |-> None, actions |-> actions]
         [] /\ b.kind = "Service" /\ b.name # None /\ port # None
            /\ isRefToNamespaceAllowed(route.ns, route.kind, b.name, ns, "Service") ->
               [to |-> <<ns, b.name, port>>,
                cert |-> IF getProtoForServicePort(svc, default) = secure THEN cert ELSE None,
                actions |-> actions]
         [] OTHER -> None

httpRouteBackendToIR(route, b, match, cert) ==
    Destination(route, b, "http", "https", cert, FilterActions(b.filters, route.ns, match))

tcpBackendToIR(route, b, cert) ==
    Destination(route, b, IF route.kind = "TLSRoute" THEN "tls" ELSE "tcp", "tls", cert, <<>>)

\* The backends that have an error are skipped.
Valid(destinations) == SelectSeq(destinations, LAMBDA d : d # None)

Route(route, match, actions, dests) ==
    [from |-> [kind |-> route.kind, ns |-> route.ns, name |-> route.name],
     match |-> match, actions |-> actions, dests |-> dests]

\* A route for every match of every rule, unless nothing is left of it.
httpRouteRulesToIR(route, cert) ==
    LET One(rule, m) == Route(route, m, FilterActions(rule.filters, route.ns, m),
            Valid([i \in DOMAIN rule.backends |-> httpRouteBackendToIR(route, rule.backends[i], m, cert)]))
        All(rule) == [j \in DOMAIN rule.matches |-> One(rule, rule.matches[j])]
    IN SelectSeq(FlattenSeq([i \in DOMAIN route.rules |-> All(route.rules[i])]),
                 LAMBDA r : r.actions # <<>> \/ r.dests # <<>>)

\* One route with the destinations of all rules.
tcpRouteRulesToIR(route, cert) ==
    LET Of(rule) == Valid([i \in DOMAIN rule.backends |-> tcpBackendToIR(route, rule.backends[i], cert)])
        dests == FlattenSeq([i \in DOMAIN route.rules |-> Of(route.rules[i])])
    IN IF dests = <<>> THEN <<>> ELSE <<Route(route, None, <<>>, dests)>>

RulesToIR(route, cert) ==
    IF route.kind = "HTTPRoute" THEN httpRouteRulesToIR(route, cert) ELSE tcpRouteRulesToIR(route, cert)

(***************************************************************************)
(* The steps.                                                              *)
(***************************************************************************)
Init ==
    /\ source \in Sources
    /\ todo = source.routes
    /\ vhosts = <<>>

XRouteToIR(route) ==
    /\ route \in todo
    /\ todo' = todo \ {route}
    /\ LET found == findMatchingVHostsForXRoute(vhosts, route)
       IN vhosts' = [k \in DOMAIN found |->
              IF k \notin Hit(route) THEN found[k]
              ELSE [found[k] EXCEPT !.owners = @ \cup {route.name},
                                    !.routes = @ \o RulesToIR(route, found[k].cert)]]
    /\ UNCHANGED source

\* HTTPRoutes are taken first, then TCPRoutes, then TLSRoutes.
gatewayAPIToIR ==
    \/ \E r \in todo : r.kind = "HTTPRoute" /\ XRouteToIR(r)
    \/ \E r \in todo : /\ r.kind = "TCPRoute" /\ \A q \in todo : q.kind # "HTTPRoute"
                       /\ XRouteToIR(r)
    \/ \E r \in todo : r.kind = "TLSRoute" /\ (\A q \in todo : q.kind = "TLSRoute") /\ XRouteToIR(r)

Next == gatewayAPIToIR
Spec == Init /\ [][Next]_gatewayVars

(***************************************************************************)
(* What is expected.                                                       *)
(***************************************************************************)
HostNames == UNION {[1..n -> Labels] : n \in 1..3}
Covers(h, name) == IF h.wild THEN IsStrictPrefix(h.labels, name) ELSE h.labels = name

\* A glob of a route that is wider than that of the listener is not recognised.
Wider(h, l) == h # Star /\ h.wild /\ l.wild /\ IsStrictPrefix(h.labels, l.labels)

Wants(route, l) ==
    \/ route.hosts = {}
    \/ \E h \in route.hosts :
          /\ ~Wider(h, ListenerHostname(l))
          /\ \E n \in HostNames : Covers(h, n) /\ Covers(ListenerHostname(l), n)

Admits(gw, l, route, ref) ==
    /\ ref.section \in {None, l.name}
    /\ ref.port \in {None, l.port}
    /\ AllowedRoutes(gw, l, route)
    /\ gw.addresses # {} \/ l.host \notin {None, Star}

\* Where a route is to be found, by the listeners.
Expected(route) ==
    {at \in [gw : source.gateways, l : UNION {ToSet(g.listeners) : g \in source.gateways}] :
        /\ at.l \in ToSet(at.gw.listeners) /\ Terminates(at.gw, at.l) # None
        /\ at.gw.sound /\ ClientCertificateAllowed(at.gw)
        /\ \E ref \in ToSet(route.parents) :
              /\ at.gw.name = ref.name /\ at.gw.ns = In(ref, route.ns)
              /\ Admits(at.gw, at.l, route, ref)
              /\ \A l \in ToSet(at.gw.listeners), a \in at.gw.addresses :
                    Admits(at.gw, l, route, ref) => Covers(ListenerHostname(l), a.labels)
        /\ Wants(route, at.l)}

\* When all routes are taken, in whatever order, a route is in a host exactly when one of its
\* references admits it to a listener of the host: the listener allows its kind and namespace,
\* and some name that clients can ask for is covered by both the listener and the route; all
\* the listeners that admit it have to cover all the addresses of the Gateway
\* (findMatchingVHostsForXRoute, matchGatewayListenersToXRoute, doHostGlobsMatch).
AttachedWhereAllowed ==
    todo = {} => \A r \in source.routes :
        {k \in DOMAIN vhosts : r.name \in vhosts[k].owners} = UNION {Keys(at) : at \in Expected(r)}

Granted(fromKind, fromNs, toKind, to) ==
    \/ fromNs = to[1]
    \/ \E g \in source.grants :
          /\ g.ns = to[1]
          /\ [kind |-> fromKind, ns |-> fromNs] \in g.from
          /\ {[kind |-> toKind, name |-> n] : n \in {None, to[2]}} \cap g.to # {}

\* Nothing of another namespace is used without a ReferenceGrant there that covers both ends:
\* no Service by a route, no certificate, client certificate or authority by a Gateway
\* (isRefToNamespaceAllowed and its four callers).
OnlyGranted ==
    \A k \in DOMAIN vhosts :
        /\ \A r \in ToSet(vhosts[k].routes) : \A d \in ToSet(r.dests) :
              d.to # None => Granted(r.from.kind, r.from.ns, "Service", d.to)
        /\ \A c \in vhosts[k].tls.server \cup ({vhosts[k].cert} \ {None}) :
              Granted("Gateway", k.gw[1], "Secret", c)
        /\ \A c \in vhosts[k].tls.clients : Granted("Gateway", k.gw[1], "ConfigMap", c)

(***************************************************************************)
(* What ngrok makes of the actions (external), and what filters ask for.   *)
(***************************************************************************)
Or(given, otherwise) == IF given = None THEN otherwise ELSE given
After(prefix, path) == SubSeq(path, Len(prefix) + 1, Len(path))

Follow(a, req) ==
    [scheme |-> Or(a.scheme, req.scheme), host |-> Or(a.host, req.host), port |-> Or(a.port, req.port),
     path |-> Or(a.prefix, a.match) \o Or(a.rest, After(a.match, req.path))]

Carry(actions, headers) ==
    LET Step(hs, a) == [n \in DOMAIN hs |->
            CASE a.do = "remove" -> IF n \in a.names THEN {} ELSE hs[n]
              [] a.do = "add" -> IF n \in DOMAIN a.values THEN hs[n] \cup {a.values[n]} ELSE hs[n]]
    IN FoldLeft(Step, headers, actions)

Texts(path) == SelectSeq(path, LAMBDA t : t # "/")
WellFormed(path) == \A i \in 1..(Len(path) - 1) : (path[i] = "/") # (path[i + 1] = "/")
EndsInSlash(path) == path # <<>> /\ Last(path) = "/"
PortOf(url) == Or(url.port, IF url.scheme = "https" THEN 443 ELSE 80)

\* The request is one of the match: of the path, or below it segment by segment.
Meets(m, req) ==
    /\ IsPrefix(m.path, req.path)
    /\ IF m.type = "exact" THEN req.path = m.path
       ELSE IsPrefix(Texts(m.path), Texts(req.path))

\* Cases that the code gets wrong: see the hazards.
PortDropped(f) == f.type = "redirect" /\ f.scheme = "https" /\ f.port \notin {None, 443}
BadlyJoined(f, m) == f.path # None /\ ~f.path.full /\ EndsInSlash(m.path) # EndsInSlash(f.path.to)

UrlAsAsked(f, m, req, url) ==
    /\ url.scheme = IF f.type = "redirect" THEN Or(f.scheme, req.scheme) ELSE req.scheme
    /\ url.host = Or(f.host, req.host)
    /\ PortDropped(f) \/ PortOf(url) = IF f.type = "redirect" THEN Or(f.port, PortOf([req EXCEPT !.scheme = url.scheme]))
                                       ELSE PortOf(req)
    /\ BadlyJoined(f, m) \/ /\ WellFormed(url.path)
                            /\ Texts(url.path) = CASE f.path = None -> Texts(req.path)
                                  [] f.path # None /\ f.path.full -> Texts(f.path.to)
                                  [] OTHER -> Texts(f.path.to) \o After(Texts(m.path), Texts(req.path))

HeadersAsAsked(f, old, new) ==
    \A n \in DOMAIN old :
        new[n] = (IF n \in DOMAIN f.set THEN {f.set[n]}
                  ELSE (IF n \in f.remove THEN {} ELSE old[n]) \cup
                       (IF n \in DOMAIN f.add THEN {f.add[n]} ELSE {}))

Requests == [scheme : {"http", "https"}, host : {"asked"}, port : {None}, path : Paths]

\* A redirect, a rewrite or a change of headers does to every request that the match of its
\* rule lets through what the filter asks for: the scheme, host, port and path it names are
\* replaced and all others kept, a path below the replaced prefix stays below the new one, and
\* a header that is set has one value (gatewayAPIFilterToTrafficPolicy and its four cases).
FiltersAsAsked ==
    \A r \in source.routes : \A rule \in ToSet(r.rules) :
        \A m \in ToSet(rule.matches), f \in ToSet(rule.filters) :
            LET actions == gatewayAPIFilterToTrafficPolicy(f, r.ns, m)
            IN CASE f.type \in {"redirect", "rewrite"} /\ actions # None ->
                      \A req \in Requests : Meets(m, req) => UrlAsAsked(f, m, req, Follow(actions[1], req))
                 [] f.type \in {"request", "response"} ->
                      \A old \in [{"x", "y"} -> {{}, {"old"}}] : HeadersAsAsked(f, old, Carry(actions, old))
                 [] OTHER -> TRUE

==============================================================================
