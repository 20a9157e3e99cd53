--------------------------- MODULE AgentEndpoints ---------------------------
(***************************************************************************)
(* The AgentEndpoint controller and the agent driver, in every replica of  *)
(* the agent-manager (internal/controller/agent/agent_endpoint_controller.go, *)
(* pkg/agent/driver.go), with the two managers an update goes through: the *)
(* Domain manager (internal/domain/manager.go) and the traffic policy      *)
(* manager (internal/trafficpolicy/manager.go).                            *)
(*                                                                         *)
(* Every replica reconciles every AgentEndpoint, from caches of its own,   *)
(* and keeps a forwarder for it.  The endpoints of the model have the same *)
(* host, hence the same Domain.  The conditions of the status are left     *)
(* out, except for domainRef, which decides what a later reconcile does.   *)
(***************************************************************************)
EXTENDS Naturals, Common

CONSTANTS
    Replicas,    \* the replicas of the agent-manager
    AepNames,    \* names of AgentEndpoints
    Inputs,      \* what an endpoint may refer to: "policy", "secret"
    AepSpecs,    \* [url : {"public", "kubernetes", "tcp"}, refs : SUBSET Inputs]
    Contents,    \* contents of a referenced object; "bad" is one that ngrok rejects
    Pooling,     \* what PoolingEnabled may answer
    MaxAepEvents \* bound on edits, failures, stops and restarts together

VARIABLES
    aep,         \* the AgentEndpoints in the API server
    aepSeen,     \* the same in the cache of each replica
    input,       \* the NgrokTrafficPolicy and the Secret, or None
    inputSeen,
    dom,         \* the Domain of the host
    domSeen,
    domNews,     \* the replicas with an event of the Domain to come
    aepQueue,    \* the names in the work queue of each replica
    aepWork,     \* the reconcile in progress in each replica
    forwarders,  \* endpointForwarderMap of each replica
    stopping,    \* the replicas whose driver has been told to stop
    aepEvents

aepCaches == <<aepSeen, inputSeen, domSeen>>
domVars == <<dom, domNews>>
agentVars == <<aep, input, domVars, aepCaches, aepQueue, aepWork, forwarders, stopping, aepEvents>>

\* gen is metadata.generation and tells a new object from an old one of its name.
Objects == [gen : 1..MaxAepEvents, spec : AepSpecs, finalizer : BOOLEAN, deleting : BOOLEAN,
            domainRef : BOOLEAN]
Domains == [ready : BOOLEAN, deleting : BOOLEAN]
Forwarders == [gen : 1..MaxAepEvents, content : [Inputs -> Contents \cup {None}], open : BOOLEAN,
               pooled : BOOLEAN]

NoWork == [pc |-> "idle", name |-> None, obj |-> None, content |-> None, after |-> "done"]
AepWorks == [pc : {"register", "domain", "resolve", "forward", "status", "close", "unregister"},
             name : AepNames, obj : Objects, content : [Inputs -> Contents \cup {None}] \cup {None},
             after : {"done", "again"}]

AgentTypeOK ==
    /\ aep \in [AepNames -> Objects \cup {None}]
    /\ aepSeen \in [Replicas -> [AepNames -> Objects \cup {None}]]
    /\ input \in [Inputs -> Contents \cup {None}]
    /\ inputSeen \in [Replicas -> [Inputs -> Contents \cup {None}]]
    /\ dom \in Domains \cup {None}
    /\ domSeen \in [Replicas -> Domains \cup {None}]
    /\ domNews \subseteq Replicas
    /\ aepQueue \in [Replicas -> SUBSET AepNames]
    /\ aepWork \in [Replicas -> AepWorks \cup {NoWork}]
    /\ forwarders \in [Replicas -> [AepNames -> Forwarders \cup {None}]]
    /\ stopping \subseteq Replicas
    /\ aepEvents \in 0..MaxAepEvents

ASSUME AgentAssumption ==
    /\ None \notin Objects \cup Domains \cup Forwarders
    /\ \A s \in AepSpecs : s.refs \subseteq Inputs
    /\ Replicas # {}
    /\ Pooling \subseteq BOOLEAN
    /\ MaxAepEvents \in Nat

AgentInit ==
    /\ aep = [n \in AepNames |-> None]
    /\ aepSeen = [r \in Replicas |-> aep]
    /\ input \in [Inputs -> Contents \cup {None}]
    /\ inputSeen = [r \in Replicas |-> input]
    /\ dom = None
    /\ domSeen = [r \in Replicas |-> dom]
    /\ domNews = {}
    /\ aepQueue = [r \in Replicas |-> {}]
    /\ aepWork = [r \in Replicas |-> NoWork]
    /\ forwarders = [r \in Replicas |-> [n \in AepNames |-> None]]
    /\ stopping = {}
    /\ aepEvents = 0

AepEvent ==
    /\ aepEvents < MaxAepEvents
    /\ aepEvents' = aepEvents + 1

ChangeDomain(d) ==
    /\ dom' = d
    /\ domNews' = IF d = dom THEN domNews ELSE Replicas

(***************************************************************************)
(* The watches of SetupWithManager.                                        *)
(***************************************************************************)
Enqueue(r, names) == aepQueue' = [aepQueue EXCEPT ![r] = @ \cup names]

\* GenerationChangedPredicate: the finalizer and the status do not count, the
\* deletion timestamp does.
GenerationChanged(old, new) ==
    \/ old = None \/ new = None
    \/ /\ old # None /\ new # None
       /\ old.gen # new.gen \/ old.deleting # new.deleting

DeliverEndpoint(r, n) ==
    /\ aepSeen[r][n] # aep[n]
    /\ aepSeen' = [aepSeen EXCEPT ![r][n] = aep[n]]
    /\ Enqueue(r, IF GenerationChanged(aepSeen[r][n], aep[n]) THEN {n} ELSE {})
    /\ UNCHANGED <<aep, input, domVars, inputSeen, domSeen, aepWork, forwarders, stopping, aepEvents>>

\* findAgentEndpointForTrafficPolicy and findAgentEndpointForSecret, by index.
Referring(r, i) == {n \in AepNames : aepSeen[r][n] # None /\ i \in aepSeen[r][n].spec.refs}

DeliverInput(r, i) ==
    /\ inputSeen[r][i] # input[i]
    /\ inputSeen' = [inputSeen EXCEPT ![r][i] = input[i]]
    /\ Enqueue(r, Referring(r, i))
    /\ UNCHANGED <<aep, input, domVars, aepSeen, domSeen, aepWork, forwarders, stopping, aepEvents>>

\* Mutant of findAgentEndpointsForDomain: the host of the URL is not looked at.
findAgentEndpointsByRef(r) ==
    {n \in AepNames : aepSeen[r][n] # None /\ aepSeen[r][n].domainRef}

\* By domainRef, and by the host of the URL.
findAgentEndpointsForDomain(r) ==
    {n \in AepNames : /\ aepSeen[r][n] # None
                      /\ aepSeen[r][n].domainRef \/ aepSeen[r][n].spec.url # "tcp"}

DeliverDomainTo(r) ==
    /\ r \in domNews
    /\ domSeen' = [domSeen EXCEPT ![r] = dom]
    /\ domNews' = domNews \ {r}
    /\ Enqueue(r, findAgentEndpointsForDomain(r))
    /\ UNCHANGED <<aep, input, dom, aepSeen, inputSeen, aepWork, forwarders, stopping, aepEvents>>

(***************************************************************************)
(* BaseController.Reconcile for an AgentEndpoint.                          *)
(***************************************************************************)
Work(r, w) == aepWork' = [aepWork EXCEPT ![r] = w]
Finish(r) == Work(r, NoWork) /\ UNCHANGED aepQueue
Retry(r) == Work(r, NoWork) /\ Enqueue(r, {aepWork[r].name})

StartEndpoint(r, n) ==
    /\ aepWork[r] = NoWork
    /\ n \in aepQueue[r]
    /\ aepQueue' = [aepQueue EXCEPT ![r] = @ \ {n}]
    /\ LET o == aepSeen[r][n]
           Go(pc) == [NoWork EXCEPT !.pc = pc, !.name = n, !.obj = o]
       IN Work(r, CASE o = None -> NoWork
                    [] o # None /\ ~o.deleting -> IF o.finalizer THEN Go("domain")
                                                  ELSE Go("register")
                    [] OTHER -> IF o.finalizer THEN Go("close") ELSE NoWork)
    /\ UNCHANGED <<aep, input, domVars, aepCaches, forwarders, stopping, aepEvents>>

\* The patch returns the server's copy; a deleted object takes no new finalizer.
RegisterEndpoint(r) ==
    /\ aepWork[r].pc = "register"
    /\ LET n == aepWork[r].name IN
       IF aep[n] = None THEN Retry(r) /\ UNCHANGED aep
       ELSE LET o == [aep[n] EXCEPT !.finalizer = TRUE] IN
            /\ aep' = [aep EXCEPT ![n] = o]
            /\ Work(r, [aepWork[r] EXCEPT !.pc = "domain", !.obj = o])
            /\ UNCHANGED aepQueue
    /\ UNCHANGED <<input, domVars, aepCaches, forwarders, stopping, aepEvents>>

(***************************************************************************)
(* update: EnsureDomainExists, Resolve and the certificates,               *)
(* CreateAgentEndpoint, updateStatus.                                      *)
(***************************************************************************)
Then(r, pc, o, after) == Work(r, [aepWork[r] EXCEPT !.pc = pc, !.obj = o, !.after = after])

\* A Domain the status refers to is deleted, whoever else needs it.
deleteStaleBindingDomain(o) ==
    ChangeDomain(IF o.domainRef /\ dom # None THEN [dom EXCEPT !.deleting = TRUE] ELSE dom)

checkSkippedDomains(o) == o.spec.url \in {"kubernetes", "tcp"}

\* A Domain that is not ready does not keep the endpoint from being made; the
\* reconcile is repeated.
checkExistingDomain(d) == IF d.ready THEN "done" ELSE "again"

createNewDomain ==
    /\ dom = None
    /\ ChangeDomain([ready |-> FALSE, deleting |-> FALSE])

\* getOrCreateDomain: the Domain is looked up in the cache, and created if it is not
\* there; a create that fails goes to the status, and the reconcile is repeated.
getOrCreateDomain(r, o) ==
    \/ /\ domSeen[r] # None
       /\ Then(r, "resolve", o, checkExistingDomain(domSeen[r]))
       /\ UNCHANGED domVars
    \/ /\ domSeen[r] = None
       /\ createNewDomain
       /\ Then(r, "resolve", o, "again")
    \/ /\ domSeen[r] = None /\ dom # None
       /\ Then(r, "status", aepWork[r].obj, "again")
       /\ UNCHANGED domVars

EnsureDomainExists(r) ==
    /\ aepWork[r].pc = "domain"
    /\ LET o == aepWork[r].obj
           Ref(b) == [o EXCEPT !.domainRef = b]
       IN \/ /\ checkSkippedDomains(o)
             /\ IF o.spec.url = "kubernetes" THEN deleteStaleBindingDomain(o) ELSE UNCHANGED domVars
             /\ Then(r, "resolve", Ref(FALSE), "done")
          \/ /\ ~checkSkippedDomains(o)
             /\ getOrCreateDomain(r, Ref(TRUE))
    /\ UNCHANGED <<aep, input, aepCaches, aepQueue, forwarders, stopping, aepEvents>>

\* Every policy or Secret the spec refers to, as the cache has it.
Fetched(r, o) == [i \in Inputs |-> IF i \in o.spec.refs THEN inputSeen[r][i] ELSE None]

\* resolveRef: the policy the spec names is not in the cache.
PolicyMissing(o, content) == "policy" \in o.spec.refs /\ content["policy"] = None

\* getClientCerts, getAgentTLSTermination: a Secret is missing or cannot be parsed.
CertificateFails(o, content) == "secret" \in o.spec.refs /\ content["secret"] \in {None, "bad"}

\* Resolve ends the reconcile when the policy is missing and waits for its watch;
\* a certificate that fails is an error like any other.
Resolve(r) ==
    /\ aepWork[r].pc = "resolve"
    /\ LET w == aepWork[r]
           content == Fetched(r, w.obj)
       IN \/ /\ PolicyMissing(w.obj, content)
             /\ Then(r, "status", w.obj, "done")
          \/ /\ ~PolicyMissing(w.obj, content) /\ CertificateFails(w.obj, content)
             /\ Then(r, "status", w.obj, "again")
          \/ /\ ~PolicyMissing(w.obj, content) /\ ~CertificateFails(w.obj, content)
             /\ Work(r, [w EXCEPT !.pc = "forward", !.content = content])
    /\ UNCHANGED <<aep, input, domVars, aepCaches, aepQueue, forwarders, stopping, aepEvents>>

\* CreateAgentEndpoint.  A pooled forwarder is closed when the function returns, also
\* when Forward has failed, and stays in the map then; one that is not pooled is
\* closed before Forward.  A policy that ngrok rejects is not tried again.
CreateAgentEndpoint(r) ==
    /\ aepWork[r].pc = "forward"
    /\ LET w == aepWork[r]
           old == forwarders[r][w.name]
           closed == IF old = None THEN None ELSE [old EXCEPT !.open = FALSE]
           Keep(f) == forwarders' = [forwarders EXCEPT ![r][w.name] = f]
       IN CASE r \in stopping ->
                 Then(r, "status", w.obj, "again") /\ UNCHANGED forwarders
            [] r \notin stopping /\ "policy" \in w.obj.spec.refs /\ w.content["policy"] = "bad" ->
                 Keep(closed) /\ Then(r, "status", w.obj, "done")
            [] OTHER ->
                 \E p \in Pooling :
                    /\ Keep([gen |-> w.obj.gen, content |-> w.content, open |-> TRUE,
                             pooled |-> p])
                    /\ Then(r, "status", w.obj, w.after)
    /\ UNCHANGED <<aep, input, domVars, aepCaches, aepQueue, stopping, aepEvents>>

\* Forward fails, or closing a forwarder that is not pooled does.
ForwardFails(r) ==
    /\ aepWork[r].pc = "forward"
    /\ r \notin stopping
    /\ LET w == aepWork[r]
           old == forwarders[r][w.name]
       IN /\ \/ UNCHANGED forwarders /\ (old = None \/ (old # None /\ ~old.pooled))
             \/ /\ old # None
                /\ forwarders' = [forwarders EXCEPT ![r][w.name].open = FALSE]
          /\ Then(r, "status", w.obj, "again")
    /\ AepEvent
    /\ UNCHANGED <<aep, input, domVars, aepCaches, aepQueue, stopping>>

\* updateStatus: a conflict is resolved by writing again, and gives up when the
\* cache stays behind.  Only domainRef matters here.
updateEndpointStatus(r) ==
    /\ aepWork[r].pc = "status"
    /\ LET w == aepWork[r]
           n == w.name
       IN \/ /\ aep[n] # None
             /\ aep' = [aep EXCEPT ![n].domainRef = w.obj.domainRef]
             /\ IF w.after = "again" THEN Retry(r) ELSE Finish(r)
          \/ /\ aep[n] = None \/ (aep[n] # None /\ aepSeen[r][n] # aep[n])
             /\ UNCHANGED aep
             /\ Retry(r)
    /\ UNCHANGED <<input, domVars, aepCaches, forwarders, stopping, aepEvents>>

(***************************************************************************)
(* delete, and the finalizer.                                              *)
(***************************************************************************)
DeleteAgentEndpoint(r) ==
    /\ aepWork[r].pc = "close"
    /\ forwarders' = [forwarders EXCEPT ![r][aepWork[r].name] = None]
    /\ Work(r, [aepWork[r] EXCEPT !.pc = "unregister"])
    /\ UNCHANGED <<aep, input, domVars, aepCaches, aepQueue, stopping, aepEvents>>

CloseFails(r) ==
    /\ aepWork[r].pc = "close"
    /\ forwarders[r][aepWork[r].name] # None
    /\ Retry(r)
    /\ AepEvent
    /\ UNCHANGED <<aep, input, domVars, aepCaches, forwarders, stopping>>

Unregister(r) ==
    /\ aepWork[r].pc = "unregister"
    /\ LET n == aepWork[r].name IN
       IF aep[n] = None THEN Retry(r) /\ UNCHANGED aep
       ELSE /\ aep' = [aep EXCEPT ![n] = IF @.deleting THEN None
                                         ELSE [@ EXCEPT !.finalizer = FALSE]]
            /\ Finish(r)
    /\ UNCHANGED <<input, domVars, aepCaches, forwarders, stopping, aepEvents>>

ReconcileEndpoint(r) ==
    \/ \E n \in AepNames : StartEndpoint(r, n)
    \/ RegisterEndpoint(r) \/ EnsureDomainExists(r) \/ Resolve(r) \/ CreateAgentEndpoint(r)
    \/ updateEndpointStatus(r) \/ DeleteAgentEndpoint(r) \/ Unregister(r)

(***************************************************************************)
(* The rest of the cluster.                                                *)
(***************************************************************************)
WriteObject(n) ==
    /\ \E s \in AepSpecs :
          aep' = [aep EXCEPT ![n] =
             IF aep[n] = None
             THEN [gen |-> aepEvents + 1, spec |-> s, finalizer |-> FALSE, deleting |-> FALSE,
                   domainRef |-> FALSE]
             ELSE [aep[n] EXCEPT !.gen = aepEvents + 1, !.spec = s]]
    /\ aep[n] # None => ~aep[n].deleting
    /\ AepEvent
    /\ UNCHANGED <<input, domVars, aepCaches, aepQueue, aepWork, forwarders, stopping>>

DeleteObject(n) ==
    /\ aep[n] # None /\ ~aep[n].deleting
    /\ aep' = [aep EXCEPT ![n] = IF @.finalizer THEN [@ EXCEPT !.deleting = TRUE] ELSE None]
    /\ AepEvent
    /\ UNCHANGED <<input, domVars, aepCaches, aepQueue, aepWork, forwarders, stopping>>

WriteInput(i) ==
    /\ \E c \in (Contents \cup {None}) \ {input[i]} : input' = [input EXCEPT ![i] = c]
    /\ AepEvent
    /\ UNCHANGED <<aep, domVars, aepCaches, aepQueue, aepWork, forwarders, stopping>>

\* The Domain controller: a Domain becomes ready, and a deleted one goes away.
DomainStep ==
    /\ dom # None
    /\ \/ ~dom.ready /\ ChangeDomain([dom EXCEPT !.ready = TRUE])
       \/ dom.deleting /\ ChangeDomain(None)
    /\ UNCHANGED <<aep, input, aepCaches, aepQueue, aepWork, forwarders, stopping, aepEvents>>

DeleteDomain ==
    /\ dom # None /\ ~dom.deleting
    /\ ChangeDomain([dom EXCEPT !.deleting = TRUE])
    /\ AepEvent
    /\ UNCHANGED <<aep, input, aepCaches, aepQueue, aepWork, forwarders, stopping>>

\* The stop and restart calls of the ngrok service close d.done; the health check
\* fails and the pod is restarted.
StopAgent(r) ==
    /\ r \notin stopping
    /\ stopping' = stopping \cup {r}
    /\ AepEvent
    /\ UNCHANGED <<aep, input, domVars, aepCaches, aepQueue, aepWork, forwarders>>

Reset(r) ==
    /\ aepSeen' = [aepSeen EXCEPT ![r] = aep]
    /\ inputSeen' = [inputSeen EXCEPT ![r] = input]
    /\ domSeen' = [domSeen EXCEPT ![r] = dom]
    /\ domNews' = domNews \ {r}
    /\ aepQueue' = [aepQueue EXCEPT ![r] = {n \in AepNames : aep[n] # None}]
    /\ aepWork' = [aepWork EXCEPT ![r] = NoWork]
    /\ forwarders' = [forwarders EXCEPT ![r] = [n \in AepNames |-> None]]
    /\ stopping' = stopping \ {r}
    /\ UNCHANGED <<aep, input, dom>>

RestartAgent(r) == r \in stopping /\ Reset(r) /\ UNCHANGED aepEvents
Crash(r) == AepEvent /\ Reset(r)

AgentNext ==
    \/ \E r \in Replicas :
          \/ ReconcileEndpoint(r) \/ ForwardFails(r) \/ CloseFails(r)
          \/ StopAgent(r) \/ RestartAgent(r) \/ Crash(r)
          \/ DeliverDomainTo(r)
          \/ \E n \in AepNames : DeliverEndpoint(r, n)
          \/ \E i \in Inputs : DeliverInput(r, i)
    \/ \E n \in AepNames : WriteObject(n) \/ DeleteObject(n)
    \/ \E i \in Inputs : WriteInput(i)
    \/ DomainStep \/ DeleteDomain

AgentSpec == AgentInit /\ [][AgentNext]_agentVars

(***************************************************************************)
(* Properties.                                                             *)
(***************************************************************************)

\* Replica r has nothing to do: no reconcile, no request, no event to come.
Rests(r) ==
    /\ aepWork[r] = NoWork
    /\ aepQueue[r] = {}
    /\ <<aepSeen[r], inputSeen[r], domSeen[r]>> = <<aep, input, dom>>
    /\ r \notin domNews
    /\ r \notin stopping

Live(n) == aep[n] # None /\ ~aep[n].deleting

\* What the spec refers to is there, and ngrok accepts it.
Resolvable(n) == \A i \in aep[n].spec.refs : input[i] \notin {None, "bad"}

\* A replica that has nothing to do forwards for every endpoint whose policy and
\* Secret can be used, with the latest spec and the latest content: no update that
\* fails, loses a race or closes the old forwarder leaves the endpoint without one.
AgentServes ==
    \A r \in Replicas : Rests(r) =>
       \A n \in AepNames : Live(n) /\ Resolvable(n) =>
          LET f == forwarders[r][n] IN
          /\ f # None
          /\ f.open
          /\ f.gen = aep[n].gen
          /\ \A i \in aep[n].spec.refs : f.content[i] = input[i]

\* When every replica rests, a public endpoint has its Domain, although another
\* endpoint of the same host may have deleted it on its way to a Kubernetes binding,
\* and the Domain is referred to in the status of the endpoint.
DomainPresent ==
    (\A r \in Replicas : Rests(r)) =>
       \A n \in AepNames : Live(n) /\ aep[n].spec.url = "public" =>
          dom # None /\ aep[n].domainRef

\* A replica that has nothing to do forwards for no endpoint that has been deleted.
NothingLeftBehind ==
    \A r \in Replicas : Rests(r) =>
       \A n \in AepNames : aep[n] = None => forwarders[r][n] = None

\* The three together: a replica that rests forwards for every usable AgentEndpoint and
\* for no deleted one (CreateAgentEndpoint, DeleteAgentEndpoint); when all rest, a public
\* AgentEndpoint has its Domain (EnsureDomainExists).
AgentsSettle == AgentServes /\ DomainPresent /\ NothingLeftBehind
=============================================================================
