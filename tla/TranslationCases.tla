--------------------------- MODULE TranslationCases ---------------------------
(***************************************************************************)
(* What the translator is given to translate: hosts for Translation, and   *)
(* contents of the store for IngressTranslation and GatewayTranslation.    *)
(***************************************************************************)
EXTENDS Integers, Sequences, FiniteSets, TLC

CONSTANTS None, sa, sb, sc

(***************************************************************************)
(* Hosts: two routes with all pairs of matches; with all pairs of bodies   *)
(* and defaults; TCP; three hosts that share Services and policies.        *)
(***************************************************************************)
Match(path, type, headers, params, method) ==
    [path |-> path, type |-> type, headers |-> headers, params |-> params, method |-> method]
Path(path, type) == Match(path, type, {}, {}, None)
Dest(weight, actions, svc) == [weight |-> weight, actions |-> actions, svc |-> svc]
Action(do, to) == [do |-> do, to |-> to]
HostRoute(match, actions, dests) == [match |-> match, actions |-> actions, dests |-> dests]
Host(name, proto, collapse, policy, default, routes) ==
    [name |-> name, proto |-> proto, collapse |-> collapse, policy |-> policy,
     default |-> default, routes |-> routes, into |-> None]
To(svc) == <<Dest(None, <<>>, svc)>>

Matches ==
    {None, Path(<<1>>, "exact"), Path(<<1>>, "prefix"), Path(<<1, 1>>, "prefix"),
     Path(<<1, 2>>, "exact"), Path(<<1, 1>>, "regex"), Match(<<1>>, "prefix", {1}, {}, None),
     Match(<<1>>, "prefix", {2}, {1}, None), Match(None, "prefix", {1}, {}, None),
     Match(None, "prefix", {1}, {1}, None), Match(None, "prefix", {}, {}, 1),
     Match(None, "prefix", {}, {1}, 2)}
MatchPairs ==
    {<<Path(<<1>>, "prefix"), Match(<<1>>, "prefix", {1}, {}, None)>>, <<Path(<<1, 1>>, "exact"), None>>,
     <<Match(<<1, 1>>, "prefix", {1}, {}, None), Match(None, "prefix", {1}, {}, 1)>>}
Body(actions, dests) == [actions |-> actions, dests |-> dests]
Bodies ==
    {Body(<<>>, To(sa)), Body(<<>>, To(sb)), Body(<<Action("respond", "r")>>, <<>>),
     Body(<<>>, <<Dest(None, <<>>, sa), Dest(2, <<>>, sb)>>),
     Body(<<>>, <<Dest(0, <<>>, sa), Dest(2, <<>>, sb), Dest(1, <<>>, sc)>>),
     Body(<<>>, <<Dest(1, <<Action("respond", "d")>>, None), Dest(1, <<>>, sc)>>),
     Body(<<Action("rewrite", <<2>>)>>, To(sa)), Body(<<>>, <<Dest(None, <<Action("headers", {})>>, sb)>>)}
WithBody(match, body) == HostRoute(match, body.actions, body.dests)
Defaults ==
    {None, Dest(None, <<>>, sa), Dest(None, <<>>, sc), Dest(None, <<Action("respond", "def")>>, None)}
Services == {<<sa>>, <<sb>>, <<sb, sa>>, <<sc, sb>>}
RoutesTo(svcs) == [i \in DOMAIN svcs |-> HostRoute(Path(<<i>>, "prefix"), <<>>, To(svcs[i]))]

OfMatches ==
    {<<Host("h", "http", c, None, None, <<HostRoute(m, <<>>, To(sa)), HostRoute(n, <<>>, To(sb))>>)>> :
        m \in Matches, n \in Matches, c \in BOOLEAN}
OfBodies ==
    {<<Host("h", "http", c, None, d, <<WithBody(p[1], x), WithBody(p[2], y)>>)>> :
        p \in MatchPairs, c \in BOOLEAN, d \in Defaults, x \in Bodies, y \in Bodies}
OfTCP ==
    {<<Host("h", "tcp", c, None, None, <<HostRoute(None, <<>>, b.dests)>>)>> :
        c \in BOOLEAN, b \in {x \in Bodies : x.dests # <<>> /\ \A i \in DOMAIN x.dests : x.dests[i].svc # None}}
OfHosts ==
    {<<Host("h", "http", TRUE, x, None, RoutesTo(s1)), Host("i", "http", c, y, None, RoutesTo(s2)),
       Host("j", "http", TRUE, None, None, RoutesTo(s3))>> :
        c \in BOOLEAN, x \in {None, 1}, y \in {1, 2}, s1 \in Services, s2 \in Services, s3 \in Services}
Inputs == OfMatches \cup OfBodies \cup OfTCP \cup OfHosts

Policies == <<<<Action("headers", {})>>, <<>> >>
Requests ==
    [path : {<<1>>, <<1, 1>>, <<1, 2>>, <<2>>}, headers : SUBSET {1, 2}, params : {{}}, method : {1}]
    \cup [path : {<<1>>}, headers : SUBSET {1, 2}, params : {{1}}, method : {1, 2}]

(***************************************************************************)
(* Ingresses: two that agree or not, three that share hosts.               *)
(***************************************************************************)
ToService(name, number) == [kind |-> "service", name |-> name, port |-> [number |-> number, name |-> ""]]
ByName(name, port) == [kind |-> "service", name |-> name, port |-> [number |-> 0, name |-> port]]
ToPolicy(name) == [kind |-> "policy", name |-> name, port |-> None]
At(path, backend) == [path |-> path, backend |-> backend]
Rule(host, paths) == [host |-> host, paths |-> paths]
Rules ==
    {<<Rule("h", <<At(1, ToService("s", 1))>>)>>,
     <<Rule("h", <<At(1, ToService("s", 3)), At(2, ByName("s", "y"))>>), Rule("i", <<At(1, ToPolicy("p"))>>)>>,
     <<Rule(None, <<At(1, ToService("s", 1))>>), Rule("i", <<At(1, ToPolicy("tcp")), At(3, ToPolicy("p"))>>)>>,
     <<Rule("h", <<At(1, ToService("s", 1))>>), Rule("h", <<At(2, ToService("s", 2))>>)>>,
     <<Rule("internal", <<At(1, ToService("missing", 1))>>)>>}
Terms(policy, pooling, default, extras) ==
    [policy |-> policy, pooling |-> pooling, default |-> default, extras |-> extras]
AllTerms ==
    {Terms(None, None, None, "e"), Terms("p", None, None, "e"), Terms("tcp", TRUE, None, "e"),
     Terms("bad", None, None, "e"), Terms(None, None, ToService("s", 1), "f"),
     Terms(None, None, ByName("s", "z"), "e"), Terms(None, None, ToPolicy("p"), "e"),
     Terms(None, None, None, "bad"), Terms(None, None, None, "f")}
Ingress(ns, name, t, rules) ==
    [ns |-> ns, name |-> name, policy |-> t.policy, pooling |-> t.pooling, default |-> t.default,
     extras |-> t.extras, rules |-> rules]
IngressSource(ingresses) ==
    [ingresses |-> ingresses, gateways |-> <<[ns |-> 3, listeners |-> {"h", "g", None}]>>,
     services |-> [k \in {1, 2} \X {"s"} |-> <<[number |-> 1, name |-> "x"], [number |-> 2, name |-> "y"]>>],
     policies |-> [k \in {1, 2} \X {"p", "tcp", "bad"} |-> IF k[2] = "p" THEN "rules" ELSE k[2]]]
IngressSources ==
    {IngressSource(<<Ingress(p[1], "a", t, r), Ingress(p[2], "b", u, q)>>) :
        p \in {<<1, 1>>, <<1, 2>>}, t \in AllTerms, u \in AllTerms, r \in Rules, q \in Rules}
    \cup
    {IngressSource(<<Ingress(p[1], "a", t, r), Ingress(p[2], "b", u, q), Ingress(p[3], "c", v, q)>>) :
        p \in {<<1, 1, 1>>, <<1, 1, 2>>, <<1, 2, 2>>}, r \in Rules, q \in Rules,
        t \in {Terms("bad", None, None, "e"), Terms("p", None, None, "e")},
        u \in {Terms("p", None, None, "e"), Terms(None, None, None, "e")}, v \in {Terms("p", None, None, "f")}}

(***************************************************************************)
(* Gateways and routes.                                                    *)
(***************************************************************************)
Name(labels) == [wild |-> FALSE, labels |-> labels]
Glob(labels) == [wild |-> TRUE, labels |-> labels]
HostNames == {Glob(<<>>), Name(<<"com">>), Glob(<<"com">>), Name(<<"com", "a">>), Glob(<<"com", "a">>)}
Anyone == [kinds |-> {}, from |-> "all"]
Listener(name, port, proto, host, allowed, tls) ==
    [name |-> name, port |-> port, proto |-> proto, host |-> host, allowed |-> allowed, tls |-> tls]
Gateway(addresses, listeners) ==
    [name |-> "g", ns |-> 1, sound |-> TRUE, addresses |-> addresses, clientCert |-> None,
     authorities |-> {}, listeners |-> listeners]
Parent(section, port) == [name |-> "g", ns |-> 1, section |-> section, port |-> port]
Backend(name, ns) ==
    [kind |-> "Service", name |-> name, ns |-> ns, port |-> 1, filters |-> <<>>]
Slash == [path |-> <<"/">>, type |-> "prefix"]
XRoute(kind, name, ns, parents, hosts, matches, filters, backends) ==
    [kind |-> kind, name |-> name, ns |-> ns, parents |-> parents, hosts |-> hosts,
     rules |-> <<[matches |-> matches, filters |-> filters, backends |-> backends]>>]
Simple(kind, name, ns, parents, hosts) ==
    XRoute(kind, name, ns, parents, hosts, <<Slash>>, <<>>, <<Backend("s", None)>>)
Source(gws, routes, grants) ==
    [gateways |-> gws, routes |-> routes, grants |-> grants, selected |-> {2},
     services |-> [k \in {1, 2, 3} \X {"s", "t"} |->
                      [ports |-> <<[number |-> 1, name |-> "x"]>>,
                       scheme |-> IF k[2] = "t" THEN "https" ELSE None]],
     policies |-> [k \in {<<1, "p">>} |-> "rules"],
     secrets |-> [k \in {1, 2} \X {"c", "o"} |-> IF k[2] = "c" THEN "tls" ELSE "opaque"],
     configs |-> [k \in {1, 2} \X {"c"} |-> "ca"]]

\* Which listener: by its name, and by the Gateway's addresses.
OfNames ==
    {Source({Gateway(as, <<Listener("l", 443, "HTTPS", h, Anyone, None),
                           Listener("m", 80, "HTTP", i, Anyone, None)>>)},
            {Simple("HTTPRoute", "r", 2, <<Parent(sec, None)>>, hs)}, {}) :
        as \in {{}, {Name(<<"com", "a">>)}, {Name(<<"com", "a">>), Name(<<"com">>)}},
        h \in HostNames \cup {None}, i \in {None, Name(<<"com", "a">>), Glob(<<"com">>)},
        sec \in {None, "l"},
        hs \in {{}, {Name(<<"com", "b">>), Glob(<<"com", "a">>)}} \cup {{n} : n \in HostNames}}

\* Which routes: by kind and namespace, in any order.
Alloweds ==
    {None} \cup [kinds : {{}, {"HTTPRoute"}, {"TCPRoute", "TLSRoute"}}, from : {None, "all", "selector"}]
OfRoutes ==
    {Source({Gateway({}, <<Listener("l", 1, p, Name(<<"com", "a">>), a, None),
                           Listener("m", 2, p, Glob(<<"com">>), b, None)>>)},
            {Simple("HTTPRoute", "r", n, <<Parent(None, None), Parent("m", 2)>>, {}),
             Simple(k, "q", o, <<Parent(None, port)>>, {Glob(<<"com">>)})}, {}) :
        p \in {"HTTP", "UDP"}, a \in Alloweds, b \in {None, Anyone}, n \in {1, 2}, o \in {1, 3},
        k \in {"HTTPRoute", "TCPRoute", "TLSRoute"}, port \in {None, 1}}

\* References across namespaces.
Grant(ns, to, from) == [ns |-> ns, to |-> to, from |-> from]
End(kind, name) == [kind |-> kind, name |-> name]
Start(kind, ns) == [kind |-> kind, ns |-> ns]
Grants ==
    {Grant(2, {End("Service", None)}, {Start("HTTPRoute", 1)}),
     Grant(2, {End("Service", "s"), End("Secret", "c")}, {Start("HTTPRoute", 3), Start("Gateway", 1)}),
     Grant(2, {End("Secret", None)}, {Start("HTTPRoute", 1), Start("Gateway", 3)}),
     Grant(1, {End("Service", None), End("Secret", None)}, {Start("HTTPRoute", 1), Start("Gateway", 1)}),
     Grant(2, {End("ConfigMap", "c")}, {Start("Gateway", 1)})}
Certificate(kind, ns, name) == [kind |-> kind, ns |-> ns, name |-> name]
Tls(certs, options) == [passthrough |-> FALSE, certs |-> certs, options |-> options]
OfGrants ==
    {Source({[Gateway({}, <<Listener("l", 443, "HTTPS", Glob(<<"com">>), Anyone, tls)>>)
                 EXCEPT !.clientCert = client, !.authorities = cas]},
            {XRoute("HTTPRoute", "r", 1, <<Parent("l", None)>>, {}, <<Slash>>, <<>>,
                    <<Backend("s", ns), Backend("t", ns)>>)}, gs) :
        gs \in {g \in SUBSET Grants : Cardinality(g) <= 3}, ns \in {None, 2},
        tls \in {None, Tls(<<Certificate("Secret", 2, "c")>>, {}), Tls(<<Certificate("Secret", None, "o")>>, {}),
                 Tls(<<>>, {[prefix |-> "old", key |-> "k", value |-> 1], [prefix |-> "new", key |-> "k", value |-> 2]})},
        client \in {None, [ns |-> 2, name |-> "c"]},
        cas \in {{}, {Certificate("ConfigMap", 2, "c")}}}

\* Filters.
Filters ==
    LET paths == {None} \cup [full : BOOLEAN, to : {<<"/">>, <<"/", "b">>, <<"/", "b", "/">>}]
        maps == {<<>>, [n \in {"x"} |-> "one"], [n \in {"x", "y"} |-> "two"]}
    IN [type : {"redirect"}, scheme : {None, "http", "https"}, host : {None, "h"},
        port : {None, 80, 443, 8080}, path : paths]
       \cup [type : {"rewrite"}, host : {None, "h"}, path : paths]
       \cup [type : {"request", "response"}, set : maps, add : maps, remove : SUBSET {"x", "y"}]
       \cup {[type |-> "policy", name |-> n] : n \in {"p", "missing"}} \cup {[type |-> "mirror"]}
OfFilters ==
    {Source({Gateway({}, <<Listener("l", 443, "HTTPS", Glob(<<"com">>), Anyone, None)>>)},
            {XRoute("HTTPRoute", "r", 1, <<Parent("l", None)>>, {}, <<[path |-> p, type |-> t]>>, <<f>>, <<>>)}, {}) :
        p \in {<<"/">>, <<"/", "a">>, <<"/", "a", "/">>}, t \in {"prefix", "exact"}, f \in Filters}

GatewaySources == OfNames \cup OfRoutes \cup OfGrants \cup OfFilters
Labels == {"com", "a", "b"}
Paths == {<<"/">>, <<"/", "a">>, <<"/", "a", "/">>, <<"/", "a", "/", "b">>, <<"/", "b">>}
==============================================================================
