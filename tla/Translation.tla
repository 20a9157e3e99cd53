----------------------------- MODULE Translation -----------------------------
(***************************************************************************)
(* The second half of the translator: from the hosts that Ingresses and    *)
(* Gateways ask for to CloudEndpoints, AgentEndpoints and the rules of     *)
(* their traffic policies (pkg/managerdriver/translator.go, internal/ir).  *)
(*                                                                         *)
(* A host has routes, each with a match, actions and destinations, an      *)
(* optional default destination, and an optional policy: the policies are  *)
(* objects that several hosts may share. A condition on a header or a      *)
(* query parameter, a method and a character of a path are numbers, in the *)
(* order in which the code compares their text. The phases of a policy are *)
(* the one in which the host routes: requests for HTTP, connections for    *)
(* TCP. The names of rules, metadata and TLS termination are left out.     *)
(*                                                                         *)
(* Answer is what ngrok makes of the rules; Expected says, without rules,  *)
(* where a request belongs.                                                *)
(***************************************************************************)
EXTENDS Integers, Sequences, SequencesExt, FiniteSets

CONSTANTS
    None,
    Inputs,    \* the sequences of hosts to translate
    Policies,  \* the actions of the policy objects that hosts refer to
    Requests,  \* the requests to answer
    Draws      \* what ngrok's random numbers are taken from, modulo the total weight

VARIABLES hosts, made

translation == <<hosts, made>>

(***************************************************************************)
(* The order of the routes of a host.                                      *)
(***************************************************************************)

\* Above every number that stands for a text.
Absent == 1000

pathTypeOrder(t) == CASE t = "exact" -> 0 [] t = "prefix" -> 1 [] t = "regex" -> 2

LexLess(s, t) ==
    \/ IsStrictPrefix(s, t)
    \/ \E i \in DOMAIN s \cap DOMAIN t : s[i] < t[i] /\ \A j \in 1..(i - 1) : s[j] = t[j]

\* headersToString and queryParamsToString: the conditions, sorted.
TextOf(conditions) == SetToSortSeq(conditions, <)

\* Paths are compared by their type, then the longer one comes first, then by their text.
PathKey(m) == <<pathTypeOrder(m.type), Absent - Len(m.path)>> \o m.path

\* What the routes are compared by, criterion after criterion; a criterion that
\* a route does not have comes last.
Criteria(m) ==
    IF m = None THEN << <<1>> >>
    ELSE << <<0>>,
            IF m.path = None THEN <<Absent>> ELSE PathKey(m),
            IF m.headers = {} THEN <<Absent>> ELSE TextOf(m.headers),
            IF m.params = {} THEN <<Absent>> ELSE TextOf(m.params),
            IF m.method = None THEN <<Absent>> ELSE <<m.method>> >>

Less(a, b) ==
    LET k == Criteria(a)
        l == Criteria(b)
    IN \E i \in DOMAIN k \cap DOMAIN l :
           LexLess(k[i], l[i]) /\ \A j \in 1..(i - 1) : k[j] = l[j]

\* SortRoutes sorts stably: a route goes behind those that are not greater.
SortRoutes(routes) ==
    LET Insert(sorted, r) ==
            InsertAt(sorted, 1 + Cardinality({i \in DOMAIN sorted : ~Less(r.match, sorted[i].match)}), r)
    IN FoldLeft(Insert, <<>>, routes)

(***************************************************************************)
(* Which hosts become AgentEndpoints of their own.                         *)
(***************************************************************************)
Destinations(v) == FlattenSeq([i \in DOMAIN v.routes |-> v.routes[i].dests])
RouteServices(v) == SelectSeq([i \in DOMAIN Destinations(v) |-> Destinations(v)[i].svc], LAMBDA s : s # None)
DefaultServices(v) == IF v.default = None THEN {} ELSE {v.default.svc} \ {None}
Services(v) == ToSet(RouteServices(v)) \cup DefaultServices(v)

\* The Services that one host alone routes to, which wants to be collapsed.
collapsableServices(vs) ==
    {s \in UNION {Services(vs[i]) : i \in DOMAIN vs} :
        \E i \in DOMAIN vs : {j \in DOMAIN vs : s \in Services(vs[j])} = {i} /\ vs[i].collapse}

\* The last collapsable Service of the routes, or that of the default destination,
\* which takes precedence, for the hosts up to the first one of stops.
CollapseUpTo(vs, stops) ==
    LET sole == collapsableServices(vs)
        Local(v) == SelectSeq(RouteServices(v), LAMBDA s : s \in sole)
        Into(i) ==
            CASE ~vs[i].collapse \/ (\E j \in stops : j < i) -> None
              [] DefaultServices(vs[i]) \cap sole # {} -> vs[i].default.svc
              [] OTHER -> IF Local(vs[i]) = <<>> THEN None ELSE Last(Local(vs[i]))
    IN [i \in DOMAIN vs |-> [vs[i] EXCEPT !.into = Into(i)]]

\* A mutant of validateMappingStrategies: it is done when one host is collapsed.
validateFirstOnly(vs) ==
    CollapseUpTo(vs, {i \in DOMAIN vs : vs[i].collapse /\ Services(vs[i]) \cap collapsableServices(vs) # {}})

\* A default destination that is collapsed ends the loop over the hosts.
validateMappingStrategies(vs) ==
    CollapseUpTo(vs, {i \in DOMAIN vs : vs[i].collapse /\ DefaultServices(vs[i]) \cap collapsableServices(vs) # {}})

(***************************************************************************)
(* The rules of a policy: an action under conditions on the request, on    *)
(* whether the local Service was matched, and on the number drawn.         *)
(***************************************************************************)
Always == [match |-> None, saved |-> FALSE, notLocal |-> FALSE, lo |-> 0, hi |-> None]

Rule(when, do, to) == [when |-> when, do |-> do, to |-> to]
Guarded(actions, when) == [i \in DOMAIN actions |-> Rule(when, actions[i].do, actions[i].to)]

actionModifiesRequest(a, m) ==
    /\ m # None
    /\ (a.do = "headers" /\ m.headers # {}) \/ (a.do = "rewrite" /\ m.path # None)

Actions(r) == ToSet(r.actions \o FlattenSeq([i \in DOMAIN r.dests |-> r.dests[i].actions]))

\* A mutant of captureOriginalParams: the destinations' policies are not looked at.
captureForRoutes(v) ==
    \E i \in DOMAIN v.routes : \E a \in ToSet(v.routes[i].actions) : actionModifiesRequest(a, v.routes[i].match)

captureOriginalParams(v) ==
    \E i \in DOMAIN v.routes : \E a \in Actions(v.routes[i]) : actionModifiesRequest(a, v.routes[i].match)

\* An AgentEndpoint: public, in the name of the host that is collapsed into it, or internal.
buildAgentEndpoint(v, s) ==
    [url |-> IF v.into = s THEN <<"public", v.name>> ELSE <<"internal", v.proto, s>>, policy |-> <<>>]

WithAgents(v, cache) ==
    [s \in DOMAIN cache \cup Services(v) |-> IF s \in DOMAIN cache THEN cache[s] ELSE buildAgentEndpoint(v, s)]

\* The rule that ends the routing: remember that the local Service is meant, or
\* forward to the AgentEndpoint of another.
RouteTo(v, agents, s, when) ==
    IF v.into = s THEN Rule(when, "local", TRUE) ELSE Rule(when, "forward", agents[s].url)

Http(v, rules) == IF v.proto = "http" THEN rules ELSE <<>>
Balanced(v) == Len(v.routes) = 1 /\ Len(v.routes[1].dests) > 1

Weight(d) == IF d.weight = None THEN 1 ELSE d.weight
TotalWeight(dests) == FoldLeft(LAMBDA n, d : n + Weight(d), 0, dests)

DestinationRules(v, agents, when, dests, i) ==
    LET lower == TotalWeight(SubSeq(dests, 1, i - 1))
        drawn == IF Len(dests) = 1 THEN when
                 ELSE [when EXCEPT !.lo = lower, !.hi = lower + Weight(dests[i]) - 1]
    IN Http(v, Guarded(dests[i].actions, drawn))
       \o IF dests[i].svc = None \/ (v.proto = "tcp" /\ ~Balanced(v)) THEN <<>>
          ELSE <<RouteTo(v, agents, dests[i].svc, drawn)>>

RouteRules(v, agents, r) ==
    LET when == [Always EXCEPT !.match = r.match, !.saved = captureOriginalParams(v), !.notLocal = v.into # None]
    IN Http(v, Guarded(r.actions, when))
       \o (IF Len(r.dests) > 1 THEN <<Rule(when, "draw", TotalWeight(r.dests))>> ELSE <<>>)
       \o FlattenSeq([i \in DOMAIN r.dests |-> DestinationRules(v, agents, when, r.dests, i)])

buildRoutingPolicy(v, agents) ==
    (IF v.into # None /\ (v.proto = "http" \/ Balanced(v)) THEN <<Rule(Always, "local", FALSE)>> ELSE <<>>)
    \o (IF captureOriginalParams(v) THEN <<Rule(Always, "capture", None)>> ELSE <<>>)
    \o FlattenSeq([i \in DOMAIN v.routes |-> RouteRules(v, agents, v.routes[i])])

\* The condition that is meant to keep the default destination's own actions from
\* requests for the local Service is put on copies of the rules, and lost.
buildDefaultDestinationPolicy(v, agents) ==
    IF v.default = None THEN <<>>
    ELSE Guarded(v.default.actions, Always)
         \o IF v.default.svc = None THEN <<>>
            ELSE <<RouteTo(v, agents, v.default.svc, [Always EXCEPT !.notLocal = v.into # None])>>

default404Rule(v) == Rule([Always EXCEPT !.notLocal = v.into # None], "respond", "404")

(***************************************************************************)
(* IRToEndpoints: host after host, over the policies as the hosts before   *)
(* left them and the AgentEndpoints made so far.                           *)
(***************************************************************************)
TranslateHost(acc, v) ==
    LET agents == WithAgents(v, acc.agents)
        given == IF v.policy = None THEN <<>> ELSE acc.heap[v.policy]
        rules == given \o buildRoutingPolicy(v, agents) \o buildDefaultDestinationPolicy(v, agents)
                 \o Http(v, <<default404Rule(v)>>)
        heap == IF v.policy = None THEN acc.heap ELSE [acc.heap EXCEPT ![v.policy] = rules]
    IN CASE v.policy = None /\ v.routes = <<>> -> acc
         [] v.into # None -> [acc EXCEPT !.heap = heap, !.agents = [agents EXCEPT ![v.into].policy = rules]]
         [] OTHER -> [acc EXCEPT !.heap = heap, !.agents = agents,
                                 !.cloud = [n \in DOMAIN acc.cloud \cup {v.name} |->
                                               IF n = v.name THEN rules ELSE acc.cloud[n]]]

IRToEndpoints(vs) ==
    LET heap == [p \in DOMAIN Policies |-> Guarded(Policies[p], Always)]
        all == FoldLeft(TranslateHost, [heap |-> heap, cloud |-> <<>>, agents |-> <<>>], validateMappingStrategies(vs))
    IN [cloud |-> all.cloud, agents |-> all.agents]

Sorted(v) == [v EXCEPT !.routes = SortRoutes(v.routes)]

Init == hosts \in Inputs /\ made = None

\* Translate: the hosts come out of a map, in any order.
Translate ==
    /\ made = None
    /\ \E vs \in {[i \in DOMAIN hosts |-> Sorted(hosts[p[i]])] : p \in Permutations(DOMAIN hosts)} :
           made' = IRToEndpoints(vs)
    /\ UNCHANGED hosts

Next == Translate
Spec == Init /\ [][Next]_translation

(***************************************************************************)
(* What ngrok does with a request: it takes the rules in order, until one  *)
(* forwards or responds; the policy of an AgentEndpoint ends at its        *)
(* Service, and that of a CloudEndpoint nowhere.                           *)
(***************************************************************************)
Matches(m, req) ==
    \/ m = None
    \/ /\ \/ m.path = None
          \/ m.type = "exact" /\ m.path = req.path
          \/ m.type # "exact" /\ IsPrefix(m.path, req.path)
       /\ m.headers \subseteq req.headers /\ m.params \subseteq req.params
       /\ m.method \in {None, req.method}

Applies(when, s) ==
    /\ Matches(when.match, IF when.saved THEN s.original ELSE s.req)
    /\ when.notLocal => s.local = FALSE
    /\ when.hi # None => s.number # None /\ s.number \in when.lo..when.hi

RunRule(s, rule, draw) ==
    IF s.out # None \/ ~Applies(rule.when, s) THEN s
    ELSE CASE rule.do = "local" -> [s EXCEPT !.local = rule.to]
           [] rule.do = "capture" -> [s EXCEPT !.original = s.req]
           [] rule.do = "draw" -> [s EXCEPT !.number = IF rule.to = 0 THEN None ELSE draw % rule.to]
           [] rule.do = "rewrite" -> [s EXCEPT !.req.path = rule.to]
           [] rule.do = "headers" -> [s EXCEPT !.req.headers = rule.to]
           [] OTHER -> [s EXCEPT !.out = <<rule.do, rule.to>>]

Evaluate(rules, req, draw) ==
    FoldLeft(LAMBDA s, rule : RunRule(s, rule, draw),
             [req |-> req, original |-> req, local |-> None, number |-> None, out |-> None], rules).out

\* Where a request of host v ends up.
Answer(v, req, draw) ==
    LET public == {s \in DOMAIN made.agents : made.agents[s].url = <<"public", v.name>>}
        out == IF public # {} THEN Evaluate(made.agents[CHOOSE s \in public : TRUE].policy, req, draw)
               ELSE IF v.name \in DOMAIN made.cloud THEN Evaluate(made.cloud[v.name], req, draw) ELSE None
        targets == IF out = None THEN public
                   ELSE {s \in DOMAIN made.agents : out = <<"forward", made.agents[s].url>>}
    IN CASE targets # {} -> <<"service", CHOOSE s \in targets : TRUE>>
         [] out # None /\ out[1] = "respond" -> out
         [] OTHER -> <<"nowhere">>

(***************************************************************************)
(* Where a request belongs.                                                *)
(***************************************************************************)
Responses(actions) == SelectSeq(actions, LAMBDA a : a.do = "respond")
Response(actions) == IF Responses(actions) = <<>> THEN <<>> ELSE << <<"respond", Responses(actions)[1].to>> >>
AtDestination(d) == Response(d.actions) \o (IF d.svc = None THEN <<>> ELSE << <<"service", d.svc>> >>)

\* Every destination of a route has as many of the draws as its weight says.
Chosen(dests, draw) ==
    LET slots == FlattenSeq([i \in DOMAIN dests |-> [j \in 1..Weight(dests[i]) |-> i]])
    IN CASE Len(dests) = 1 -> AtDestination(dests[1])
         [] slots = <<>> -> <<>>
         [] OTHER -> AtDestination(dests[slots[1 + (draw % Len(slots))]])

\* The first outcome of: the host's policy, the routes that match, from the most
\* to the least specific one, the default destination, not found.
Expected(v, req, draw) ==
    LET hits == SelectSeq(SortRoutes(v.routes), LAMBDA r : Matches(r.match, req))
        outcomes == (IF v.policy = None THEN <<>> ELSE Response(Policies[v.policy]))
                    \o FlattenSeq([i \in DOMAIN hits |-> Response(hits[i].actions) \o
                                      (IF hits[i].dests = <<>> THEN <<>> ELSE Chosen(hits[i].dests, draw))])
                    \o (IF v.default = None THEN <<>> ELSE AtDestination(v.default))
                    \o << IF v.proto = "http" THEN <<"respond", "404">> ELSE <<"nowhere">> >>
    IN IF v.policy = None /\ v.routes = <<>> THEN <<"nowhere">> ELSE outcomes[1]

(***************************************************************************)
(* Properties.                                                             *)
(***************************************************************************)
\* Policy objects are not copied for the hosts of one Gateway: a second host also
\* has the rules of the first.
PolicyShared(v) == v.policy # None /\ Cardinality({i \in DOMAIN hosts : hosts[i].policy = v.policy}) > 1

\* The default destination's actions also run for requests for the local Service.
DefaultUnguarded(v) ==
    v.default # None /\ v.default.actions # <<>> /\ v.name \notin DOMAIN made.cloud

\* A CloudEndpoint for TCP has a rule to forward only between several destinations.
Unforwarded(v) == v.proto = "tcp" /\ ~Balanced(v) /\ v.name \in DOMAIN made.cloud

\* A request to a host is answered as its routes, weights, default destination and
\* policy say, whatever its endpoints are collapsed into and in whatever order the
\* hosts were translated (IRToEndpoints, buildRoutingPolicy,
\* buildDefaultDestinationPolicy). Left out are the three cases named above.
RoutedRight ==
    made # None =>
        \A i \in DOMAIN hosts : \A req \in Requests, draw \in Draws :
            LET v == hosts[i] IN
            \/ PolicyShared(v) \/ DefaultUnguarded(v) \/ Unforwarded(v)
            \/ Answer(v, req, draw) = Expected(v, req, draw)

\* Every request that m matches is one that n matches.
Covers(n, m) ==
    \/ n = None
    \/ /\ m # None
       /\ n.path # None =>
             /\ m.path # None
             /\ IF n.type = "exact" THEN m.type = "exact" /\ m.path = n.path ELSE IsPrefix(n.path, m.path)
       /\ n.headers \subseteq m.headers /\ n.params \subseteq m.params
       /\ n.method \in {None, m.method}
Regex(m) == m # None /\ m.path # None /\ m.type = "regex"

\* Of two routes, one of which matches fewer requests than the other, the narrower
\* one is tried first (SortRoutes): no route is hidden behind a wider one. Left out
\* are regular expressions, which sort last and match as prefixes. It holds as long
\* as no route has more than one condition on headers, or on parameters.
SpecificFirst ==
    \A h \in DOMAIN hosts :
        LET routes == SortRoutes(hosts[h].routes) IN
        \A i, j \in DOMAIN routes : LET m == routes[i].match
                                         n == routes[j].match
                                     IN Covers(n, m) /\ ~Covers(m, n) /\ ~Regex(m) /\ ~Regex(n) => i < j

\* A host that wants to be collapsed and routes to a Service that no other host
\* uses is collapsed, whatever the order of the hosts (validateMappingStrategies).
CollapsedWherePossible ==
    made # None =>
        \A i \in DOMAIN hosts :
            (\E s \in Services(hosts[i]) : s \in collapsableServices(hosts)) /\ hosts[i].collapse
            /\ (hosts[i].policy # None \/ hosts[i].routes # <<>>) => hosts[i].name \notin DOMAIN made.cloud

==============================================================================
