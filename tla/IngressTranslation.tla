-------------------------- MODULE IngressTranslation --------------------------
(***************************************************************************)
(* The first half of the translator, for Ingresses: the driver's store to  *)
(* the hosts that Translation turns into endpoints                         *)
(* (pkg/managerdriver/translate_ingresses.go), and the set of Domains that *)
(* a Sync creates before it (pkg/managerdriver/domains.go).                *)
(*                                                                         *)
(* One step takes one Ingress, in the order in which the store lists them: *)
(* by namespace and name. A policy is known by its reference and by its    *)
(* content: "tcp" has on_tcp_connect rules, "bad" does not parse. The      *)
(* annotations that nothing is decided by (bindings, mapping strategy,     *)
(* metadata, description) are one value, extras, "bad" when the bindings   *)
(* do not parse. Protocols of a port are left out.                         *)
(***************************************************************************)
EXTENDS Naturals, Sequences, SequencesExt, FiniteSets, TLC

CONSTANTS
    None,
    Sources,   \* the contents of the store: ingresses, gateways, services, policies
    Internal   \* the host names that cannot be reserved

VARIABLES source, taken, hosts, domains

ingressVars == <<source, taken, hosts, domains>>

(***************************************************************************)
(* What an Ingress refers to.                                              *)
(***************************************************************************)

\* The first port of the number, or of the name, asked for; a reference by
\* number has the name "".
findServicesPort(ports, ref) ==
    LET fits == {i \in DOMAIN ports : \/ ref.number > 0 /\ ports[i].number = ref.number
                                      \/ ports[i].name = ref.name}
    IN IF fits = {} THEN None ELSE ports[CHOOSE i \in fits : \A j \in fits : i <= j].number

Found(table, key) == IF key \in DOMAIN table THEN table[key] ELSE None

\* A destination, or None for an error.
ingressBackendToIR(ing, b) ==
    LET key == <<ing.ns, b.name>>
        policy == Found(source.policies, key)
        ports == Found(source.services, key)
        port == IF ports = None THEN None ELSE findServicesPort(ports, b.port)
    IN CASE b.kind = "policy" /\ policy \notin {None, "bad", "tcp"} -> [policy |-> policy, to |-> None]
         [] b.kind = "service" /\ port # None -> [policy |-> None, to |-> <<ing.ns, b.name, port>>]
         [] OTHER -> None

\* The policy of the annotation is there and parses.
trafficPolicyFromAnnotation(ing) ==
    ing.policy = None \/ Found(source.policies, <<ing.ns, ing.policy>>) \notin {None, "bad"}

DefaultDestination(ing) == IF ing.default = None THEN None ELSE ingressBackendToIR(ing, ing.default)

\* The Ingress is not left out as a whole.
Usable(ing) ==
    /\ trafficPolicyFromAnnotation(ing)
    /\ ing.default # None => DefaultDestination(ing) # None
    /\ ing.extras # "bad"

(***************************************************************************)
(* Its hosts.                                                              *)
(***************************************************************************)
ingressPathsToIR(ing, paths) ==
    LET routes == [i \in DOMAIN paths |->
                      [path |-> paths[i].path, dest |-> ingressBackendToIR(ing, paths[i].backend)]]
    IN SelectSeq(routes, LAMBDA r : r.dest # None)

NewHost(ing) ==
    [ns |-> ing.ns, policy |-> ing.policy, pooling |-> ing.pooling, extras |-> ing.extras,
     default |-> DefaultDestination(ing), owners |-> {}, routes |-> <<>>]

\* A mutant of Agrees: a host may be shared by namespaces.
AgreesAnywhere(v, ing) ==
    /\ v.policy = ing.policy
    /\ v.pooling = ing.pooling
    /\ v.default = DefaultDestination(ing)

\* The references to the policies contain the namespace.
Agrees(v, ing) ==
    /\ v.policy = ing.policy
    /\ v.pooling = ing.pooling
    /\ v.ns = ing.ns
    /\ v.default = DefaultDestination(ing)

\* A rule without a host is skipped, and one whose Ingress disagrees with the host.
ingressToIR(known, ing) ==
    LET Rule(hs, rule) ==
            LET v == IF rule.host \in DOMAIN hs THEN hs[rule.host] ELSE NewHost(ing)
            IN IF rule.host = None \/ ~Agrees(v, ing) THEN hs
               ELSE (rule.host :> [v EXCEPT !.owners = @ \cup {<<ing.ns, ing.name>>},
                                            !.routes = @ \o ingressPathsToIR(ing, rule.paths)]) @@ hs
    IN FoldLeft(Rule, known, ing.rules)

(***************************************************************************)
(* The Domains: by name, the namespace they are created in.                *)
(***************************************************************************)
Reservable(names) == names \ (Internal \cup {None})

ingressToDomains(ing) ==
    [h \in Reservable({ing.rules[i].host : i \in DOMAIN ing.rules}) |-> ing.ns]

\* Gateways do not take over a Domain, later Ingresses do.
gatewayToDomains(gw, existing) == [h \in Reservable(gw.listeners) \ DOMAIN existing |-> gw.ns]

calculateDomainSet ==
    LET Add(ds, ing) == ingressToDomains(ing) @@ ds
        AddGateway(ds, gw) == gatewayToDomains(gw, ds) @@ ds
    IN FoldLeft(AddGateway, FoldLeft(Add, <<>>, source.ingresses), source.gateways)

(***************************************************************************)
(* A Sync.                                                                 *)
(***************************************************************************)
Init ==
    /\ source \in Sources
    /\ taken = 0
    /\ hosts = <<>>
    /\ domains = None

ApplyDomains ==
    /\ domains = None
    /\ domains' = calculateDomainSet
    /\ UNCHANGED <<source, taken, hosts>>

ingressesToIR ==
    /\ domains # None
    /\ taken < Len(source.ingresses)
    /\ taken' = taken + 1
    /\ LET ing == source.ingresses[taken']
       IN hosts' = IF Usable(ing) THEN ingressToIR(hosts, ing) ELSE hosts
    /\ UNCHANGED <<source, domains>>

Next == ApplyDomains \/ ingressesToIR
Spec == Init /\ [][Next]_ingressVars

Translated == domains # None /\ taken = Len(source.ingresses)

(***************************************************************************)
(* What is expected.                                                       *)
(***************************************************************************)
Ing(i) == source.ingresses[i]
Mentions(i, h) == \E r \in DOMAIN Ing(i).rules : Ing(i).rules[r].host = h
Claims(h) == {i \in DOMAIN source.ingresses : Usable(Ing(i)) /\ Mentions(i, h)}
Claimed == {h \in UNION {{r.host : r \in ToSet(Ing(i).rules)} : i \in DOMAIN source.ingresses} \ {None} :
               Claims(h) # {}}
Holder(h) == CHOOSE i \in Claims(h) : \A j \in Claims(h) : i <= j
SameTerms(i, j) ==
    /\ Ing(i).ns = Ing(j).ns
    /\ Ing(i).policy = Ing(j).policy
    /\ Ing(i).pooling = Ing(j).pooling
    /\ DefaultDestination(Ing(i)) = DefaultDestination(Ing(j))
Sharers(h) == {i \in Claims(h) : SameTerms(i, Holder(h))}
RoutesFor(i, h) ==
    FlattenSeq([r \in DOMAIN Ing(i).rules |->
        IF Ing(i).rules[r].host = h THEN ingressPathsToIR(Ing(i), Ing(i).rules[r].paths) ELSE <<>>])

\* A host belongs to the first usable Ingress that names it, in the order of the store. It gets
\* the routes of that Ingress and of those that agree with it on namespace, policy, pooling and
\* default backend, in order, and nothing of any other: neither an Ingress that disagrees nor one
\* that is left out adds a route, and none changes what an earlier one has set (ingressesToIR,
\* ingressToIR and their cache of hosts).
HostsMerged ==
    Translated =>
        /\ DOMAIN hosts = Claimed
        /\ \A h \in Claimed :
              /\ hosts[h].ns = Ing(Holder(h)).ns
              /\ hosts[h].policy = Ing(Holder(h)).policy
              /\ hosts[h].extras = Ing(Holder(h)).extras
              /\ hosts[h].owners = {<<Ing(i).ns, Ing(i).name>> : i \in Sharers(h)}
              /\ hosts[h].routes = FlattenSeq([i \in DOMAIN source.ingresses |->
                                       IF i \in Sharers(h) THEN RoutesFor(i, h) ELSE <<>>])

\* Every host that is routed and can be reserved is reserved, and in the namespace of its
\* endpoints unless Ingresses of two namespaces name it: then the Domain goes to the last of
\* them, the endpoints to the first (calculateDomainSet, ingressesToIR).
HostsReserved ==
    Translated => \A h \in DOMAIN hosts \ Internal :
        /\ h \in DOMAIN domains
        /\ \/ domains[h] = hosts[h].ns
           \/ \E i \in DOMAIN source.ingresses : Mentions(i, h) /\ Ing(i).ns # hosts[h].ns
==============================================================================
