-------------------------- MODULE EndpointSyncProofs --------------------------
(***************************************************************************)
(* Proofs about a sync and those who write the same objects beside it, for *)
(* any hosts, any specs and any number of events.                          *)
(***************************************************************************)
EXTENDS EndpointSync, TLAPS

(***************************************************************************)
(* The inductive invariant.                                                *)
(***************************************************************************)

\* The sync has yet to come to the key as its list has it.
Pending(k) == \/ sync.at = "domains"
              \/ sync.at = "agent" /\ k[1] = "cloud"
              \/ k \in sync.todo

\* The sync is through with the key.
Done(k) == \/ sync.at = "statuses"
           \/ sync.at = "cloud" /\ k[1] = "agent"
           \/ sync.at = k[1] /\ k \notin sync.todo \cup sync.left

\* The list shows the endpoint as it is, and it is not being deleted.
Faithful(k) ==
  /\ sync.list[k] = IF endpoints[k] # None /\ endpoints[k].owner # "user" THEN endpoints[k] ELSE None
  /\ endpoints[k] # None => ~endpoints[k].going

\* The endpoint is what the store asked for when the sync began.
Applied(k) == IF sync.want[k] = None
              THEN endpoints[k] = None \/ endpoints[k].going \/ endpoints[k].owner # "operator"
              ELSE endpoints[k] = [spec |-> sync.want[k], owner |-> "operator", going |-> FALSE]

KeyInv(k) == (Pending(k) => Faithful(k)) /\ (Done(k) => Applied(k))

\* Every key that has not drifted is either as it was listed or as it was wanted, and
\* what was wanted still is unless another sync is asked for.
SyncInv ==
  /\ sync.at \in {"domains", "statuses"} => sync.kind = "full"
  /\ \A k \in sync.todo \cup sync.left : k[1] = sync.at
  /\ \A k \in sync.todo : sync.list[k] # None /\ (sync.want[k] # None => k \in sync.left)
  /\ \A k \in sync.left : sync.want[k] # None
  /\ sync.at # "idle" /\ asked = {} => sync.want = want
  /\ \A k \in Keys \ drifted : KeyInv(k)
  /\ sync.at = "idle" /\ asked = {} => \A k \in Keys \ drifted : InOrder(k)

\* Once its copy has come back, the status is the address in the cache.
Settles(n) == told[n] = copied[n] => told[n] = AddressOf(known[n])

\* While no full sync is to come, a status that is not the address in the cache differs
\* from the store's copy, or will when what the sync has computed is written; so
\* the Ingress is delivered once more.
NameInv(n) ==
  Mentioned(want, n) /\ "full" \notin asked =>
    /\ sync.at = "idle" \/ sync.kind = "partial" => Settles(n)
    /\ sync.at = "statuses" => IF n \in DOMAIN sync.news THEN sync.news[n] # copied[n]
                               ELSE Settles(n)

StatusInv == \A n \in Names \ unsettled : NameInv(n)

(***************************************************************************)
(* Type correctness, and what a step makes of the sync.                    *)
(***************************************************************************)
Kinds == {"agent", "cloud"}

LEMMA KeyParts ==
    /\ \A k \in Keys : k[1] \in Kinds /\ k[2] \in Names
    /\ \A n \in Names, kind \in Kinds : <<kind, n>> \in Keys /\ <<kind, n>>[1] = kind
  BY DEF Keys, Kinds

LEMMA IdleSync ==
    /\ Idle \in Syncs
    /\ Idle.at = "idle" /\ Idle.todo = {} /\ Idle.left = {}
<1>1. [n \in {} |-> None] \in [{} -> {"ready", None}] /\ {} \in SUBSET Names
  BY Zenon
<1>2. QED
  BY <1>1, Zenon DEF Idle, Syncs

LEMMA EnterSync ==
    ASSUME NEW s \in Syncs, NEW kind \in Kinds
    PROVE  /\ Enter(s, kind) \in Syncs
           /\ Enter(s, kind).at = kind
           /\ Enter(s, kind).kind = s.kind
           /\ Enter(s, kind).want = s.want
           /\ Enter(s, kind).list = s.list
           /\ Enter(s, kind).todo = {k \in Keys : k[1] = kind /\ s.list[k] # None}
           /\ Enter(s, kind).left = {k \in Keys : k[1] = kind /\ s.want[k] # None}
  BY Zenon DEF Enter, Syncs, Kinds

\* What a sync begins with.
LEMMA StartSync ==
    ASSUME TypeOK, NEW kind \in {"full", "partial"}, Start(kind)
    PROVE  /\ sync' \in Syncs
           /\ sync'.kind = kind /\ sync'.want = want /\ sync'.list = Listed
           /\ kind = "full" => sync'.at = "domains" /\ sync'.todo = {} /\ sync'.left = {}
           /\ kind = "partial" =>
                 /\ sync'.at = "agent"
                 /\ sync'.todo = {k \in Keys : k[1] = "agent" /\ Listed[k] # None}
                 /\ sync'.left = {k \in Keys : k[1] = "agent" /\ want[k] # None}
<1> DEFINE began == [Idle EXCEPT !.kind = kind, !.want = want, !.list = Listed]
<1>1. Listed \in [Keys -> Endpoint \cup {None}] /\ want \in [Keys -> Specs \cup {None}]
  BY Zenon DEF Listed, TypeOK
<1>2. /\ began \in Syncs /\ began.kind = kind /\ began.want = want /\ began.list = Listed
      /\ began.todo = {} /\ began.left = {}
  BY <1>1, IdleSync, Zenon DEF Syncs
<1>3. CASE kind = "full"
  <2>1. sync' = [began EXCEPT !.at = "domains"]
    BY <1>3, Zenon DEF Start
  <2>2. QED
    BY <1>2, <1>3, <2>1, Zenon DEF Syncs
<1>4. CASE kind = "partial"
  <2>1. sync' = Enter(began, "agent")
    BY <1>4, Zenon DEF Start
  <2> HIDE DEF began
  <2>2. /\ sync' \in Syncs /\ sync'.at = "agent" /\ sync'.kind = began.kind
        /\ sync'.want = began.want /\ sync'.list = began.list
        /\ sync'.todo = {k \in Keys : k[1] = "agent" /\ began.list[k] # None}
        /\ sync'.left = {k \in Keys : k[1] = "agent" /\ began.want[k] # None}
    BY <1>2, <2>1, EnterSync, Zenon DEF Kinds
  <2>3. QED
    BY <1>2, <1>4, <2>2, Zenon
<1>5. QED
  BY <1>3, <1>4, Zenon

\* A turn over the listed endpoints: what it makes of the sync and of the endpoint.
LEMMA ListedStep ==
    ASSUME TypeOK, NEW k \in Keys, sync.list[k] # None, ApplyListed(k)
    PROVE  /\ k \in sync.todo
           /\ sync' \in Syncs
           /\ sync'.at = sync.at /\ sync'.kind = sync.kind /\ sync'.want = sync.want
           /\ sync'.list = sync.list /\ sync'.news = sync.news
           /\ sync'.todo = sync.todo \ {k}
           /\ endpoints' \in [Keys -> Endpoint \cup {None}]
           /\ \A j \in Keys : j # k => endpoints'[j] = endpoints[j]
           /\ UNCHANGED <<want, asked, listed, domains, known, told, copied, drifted, unsettled, events>>
           /\ \/ /\ sync.list[k].owner # "operator"
                 /\ sync'.left = sync.left /\ endpoints' = endpoints
              \/ /\ sync.list[k].owner = "operator" /\ sync.want[k] = None
                 /\ sync'.left = sync.left
                 /\ endpoints'[k] = None \/ endpoints'[k].going
              \/ /\ sync.list[k].owner = "operator" /\ sync.want[k] # None
                 /\ sync'.left = sync.left \ {k}
                 /\ sync.list[k].spec = sync.want[k] /\ endpoints' = endpoints
              \/ /\ sync.list[k].owner = "operator" /\ sync.want[k] # None
                 /\ sync'.left = sync.left \ {k}
                 /\ sync.list[k].spec # sync.want[k] /\ endpoints[k] = sync.list[k]
                 /\ endpoints'[k] = [sync.list[k] EXCEPT !.spec = sync.want[k]]
<1>0. /\ sync \in Syncs /\ k \in sync.todo
      /\ endpoints \in [Keys -> Endpoint \cup {None}]
      /\ sync.want[k] \in Specs \cup {None} /\ sync.list[k] \in Endpoint
      /\ UNCHANGED <<want, asked, listed, domains, known, told, copied, drifted, unsettled, events>>
  BY Zenon DEF TypeOK, ApplyListed, Syncs, ghosts, Others
<1>a. ASSUME NEW x \in Endpoint \cup {None}, Stays(k, x)
      PROVE  /\ endpoints' \in [Keys -> Endpoint \cup {None}] /\ endpoints'[k] = x
             /\ \A j \in Keys : j # k => endpoints'[j] = endpoints[j]
  BY <1>0, <1>a, Zenon DEF Stays
<1>b. ASSUME sync' = [sync EXCEPT !.todo = @ \ {k}]
      PROVE  /\ sync' \in Syncs
             /\ sync'.at = sync.at /\ sync'.kind = sync.kind /\ sync'.want = sync.want
             /\ sync'.list = sync.list /\ sync'.news = sync.news
             /\ sync'.todo = sync.todo \ {k} /\ sync'.left = sync.left
  BY <1>0, <1>b, Zenon DEF Syncs
<1>c. ASSUME sync' = [[sync EXCEPT !.todo = @ \ {k}] EXCEPT !.left = @ \ {k}]
      PROVE  /\ sync' \in Syncs
             /\ sync'.at = sync.at /\ sync'.kind = sync.kind /\ sync'.want = sync.want
             /\ sync'.list = sync.list /\ sync'.news = sync.news
             /\ sync'.todo = sync.todo \ {k} /\ sync'.left = sync.left \ {k}
  BY <1>0, <1>c, Zenon DEF Syncs
<1>1. CASE sync.list[k].owner # "operator"
  <2>1. sync' = [sync EXCEPT !.todo = @ \ {k}] /\ endpoints' = endpoints
    BY <1>1, Zenon DEF ApplyListed, shouldBeSkippedInApply
  <2>2. QED
    BY <1>0, <1>1, <1>b, <2>1, Zenon
<1>2. CASE sync.list[k].owner = "operator" /\ sync.want[k] = None
  <2>1. sync' = [sync EXCEPT !.todo = @ \ {k}]
    BY <1>2, Zenon DEF ApplyListed, shouldBeSkippedInApply
  <2>2. \/ endpoints[k] = None /\ endpoints' = endpoints
        \/ endpoints[k] # None /\ \E x \in {None, [endpoints[k] EXCEPT !.going = TRUE]} : Stays(k, x)
    BY <1>2, Zenon DEF ApplyListed, shouldBeSkippedInApply
  <2>3. CASE endpoints[k] = None /\ endpoints' = endpoints
    BY <1>0, <1>2, <1>b, <2>1, <2>3, Zenon
  <2>4. CASE endpoints[k] # None /\ Stays(k, None)
    BY <1>0, <1>2, <1>a, <1>b, <2>1, <2>4, Zenon
  <2>5. CASE endpoints[k] # None /\ Stays(k, [endpoints[k] EXCEPT !.going = TRUE])
    <3>1. /\ [endpoints[k] EXCEPT !.going = TRUE] \in Endpoint
          /\ [endpoints[k] EXCEPT !.going = TRUE].going
      BY <1>0, <2>5, Zenon DEF Endpoint
    <3>2. QED
      BY <1>0, <1>2, <1>a, <1>b, <2>1, <2>5, <3>1, Zenon
  <2>6. QED
    BY <2>2, <2>3, <2>4, <2>5, Zenon
<1>3. CASE sync.list[k].owner = "operator" /\ sync.want[k] # None
  <2>1. sync' = [[sync EXCEPT !.todo = @ \ {k}] EXCEPT !.left = @ \ {k}]
    BY <1>3, Zenon DEF ApplyListed, shouldBeSkippedInApply
  <2>2. CASE sync.list[k].spec = sync.want[k]
    <3>1. endpoints' = endpoints
      BY <1>3, <2>2, Zenon DEF ApplyListed, shouldBeSkippedInApply
    <3>2. QED
      BY <1>0, <1>3, <1>c, <2>1, <2>2, <3>1, Zenon
  <2>3. CASE sync.list[k].spec # sync.want[k]
    <3>1. endpoints[k] = sync.list[k] /\ Stays(k, [sync.list[k] EXCEPT !.spec = sync.want[k]])
      BY <1>3, <2>3, Zenon DEF ApplyListed, shouldBeSkippedInApply
    <3>2. [sync.list[k] EXCEPT !.spec = sync.want[k]] \in Endpoint
      BY <1>0, <1>3, Zenon DEF Endpoint
    <3>3. QED
      BY <1>0, <1>3, <1>a, <1>c, <2>1, <2>3, <3>1, <3>2, Zenon
  <2>4. QED
    BY <2>2, <2>3, Zenon
<1>4. QED
  BY <1>1, <1>2, <1>3, Zenon

\* The turn that creates an endpoint.
Creates(k) == ApplyLeft(k) /\ endpoints[k] = None

LEMMA CreateStep ==
    ASSUME TypeOK, NEW k \in Keys, sync.want[k] # None, Creates(k)
    PROVE  /\ k \in sync.left /\ sync.todo = {} /\ endpoints[k] = None
           /\ sync' \in Syncs
           /\ sync'.at = sync.at /\ sync'.kind = sync.kind /\ sync'.want = sync.want
           /\ sync'.list = sync.list /\ sync'.news = sync.news
           /\ sync'.todo = sync.todo /\ sync'.left = sync.left \ {k}
           /\ endpoints' \in [Keys -> Endpoint \cup {None}]
           /\ \A j \in Keys : j # k => endpoints'[j] = endpoints[j]
           /\ endpoints'[k] = [spec |-> sync.want[k], owner |-> "operator", going |-> FALSE]
           /\ UNCHANGED <<want, asked, listed, domains, known, told, copied, drifted, unsettled, events>>
<1>1. /\ sync \in Syncs /\ endpoints \in [Keys -> Endpoint \cup {None}]
      /\ sync.want[k] \in Specs
  BY Zenon DEF TypeOK, Syncs
<1>2. /\ k \in sync.left /\ sync.todo = {} /\ endpoints[k] = None
      /\ endpoints' = [endpoints EXCEPT ![k] = [spec |-> sync.want[k], owner |-> "operator", going |-> FALSE]]
      /\ sync' = [sync EXCEPT !.left = @ \ {k}]
      /\ UNCHANGED <<want, asked, listed, domains, known, told, copied, drifted, unsettled, events>>
  BY Zenon DEF Creates, ApplyLeft, Stays, ghosts, Others
<1>3. [spec |-> sync.want[k], owner |-> "operator", going |-> FALSE] \in Endpoint
  BY <1>1, Zenon DEF Endpoint, Owners
<1>4. /\ endpoints' \in [Keys -> Endpoint \cup {None}]
      /\ \A j \in Keys : j # k => endpoints'[j] = endpoints[j]
      /\ endpoints'[k] = [spec |-> sync.want[k], owner |-> "operator", going |-> FALSE]
  BY <1>1, <1>2, <1>3, Zenon
<1>5. /\ sync' \in Syncs
      /\ sync'.at = sync.at /\ sync'.kind = sync.kind /\ sync'.want = sync.want
      /\ sync'.list = sync.list /\ sync'.news = sync.news
      /\ sync'.todo = sync.todo /\ sync'.left = sync.left \ {k}
  BY <1>1, <1>2, Zenon DEF Syncs
<1>6. QED
  BY <1>2, <1>4, <1>5, Zenon

\* A sync that fails is asked for again.
LEMMA FailStep ==
    ASSUME TypeOK, Fail
    PROVE  /\ sync' = Idle
           /\ asked' = asked \cup {sync.kind} /\ asked' # {}
           /\ UNCHANGED <<want, endpoints, listed, domains, known, told, copied, drifted, unsettled, events>>
  BY Zenon DEF Fail, cluster, ghosts

\* The statuses to write, as a function on some of the names.
LEMMA News == updateIngressStatuses \in UNION {[N -> {"ready", None}] : N \in SUBSET Names}
<1> DEFINE N == {x \in Names : Mentioned(want, x) /\ copied[x] # AddressOf(known[x])}
<1>1. N \in SUBSET Names
  BY Zenon
<1>2. updateIngressStatuses \in [N -> {"ready", None}]
  BY Zenon DEF updateIngressStatuses, AddressOf
<1>3. QED
  BY <1>1, <1>2, Zenon

\* From one kind to the next, to the end of a partial sync, or to the statuses.
LEMMA StageStep ==
    ASSUME TypeOK, NextStage
    PROVE  /\ sync.todo = {} /\ sync.left = {}
           /\ sync' \in Syncs
           /\ UNCHANGED <<want, asked, endpoints, listed, domains, known, told, copied, drifted, events>>
           /\ \/ /\ sync.at = "agent" /\ sync'.at = "cloud"
                 /\ sync'.kind = sync.kind /\ sync'.want = sync.want /\ sync'.list = sync.list
                 /\ sync'.todo = {k \in Keys : k[1] = "cloud" /\ sync.list[k] # None}
                 /\ sync'.left = {k \in Keys : k[1] = "cloud" /\ sync.want[k] # None}
                 /\ unsettled' = unsettled
              \/ /\ sync.at = "cloud" /\ sync.kind = "partial" /\ sync' = Idle
                 /\ unsettled' = unsettled
              \/ /\ sync.at = "cloud" /\ sync.kind = "full" /\ sync'.at = "statuses"
                 /\ sync'.kind = sync.kind /\ sync'.want = sync.want /\ sync'.list = sync.list
                 /\ sync'.todo = {} /\ sync'.left = {}
                 /\ sync'.news = updateIngressStatuses
                 /\ unsettled' \subseteq unsettled
<1>0. /\ sync \in Syncs /\ sync.todo = {} /\ sync.left = {} /\ sync.at \in {"agent", "cloud"}
      /\ sync.kind \in {"full", "partial"}
      /\ UNCHANGED <<want, asked, endpoints, listed, domains, known, told, copied, drifted, events>>
  BY Zenon DEF TypeOK, NextStage, Syncs, cluster
<1>1. CASE sync.at = "agent"
  <2>1. sync' = Enter(sync, "cloud")
    BY <1>1, Zenon DEF NextStage
  <2>2. /\ sync' \in Syncs /\ sync'.at = "cloud"
        /\ sync'.kind = sync.kind /\ sync'.want = sync.want /\ sync'.list = sync.list
        /\ sync'.todo = {k \in Keys : k[1] = "cloud" /\ sync.list[k] # None}
        /\ sync'.left = {k \in Keys : k[1] = "cloud" /\ sync.want[k] # None}
    BY <1>0, <2>1, EnterSync, Zenon DEF Kinds
  <2>3. unsettled' = unsettled
    BY <2>2, Zenon DEF NextStage
  <2>4. QED
    BY <1>0, <1>1, <2>2, <2>3, Zenon
<1>2. CASE sync.at = "cloud" /\ sync.kind = "partial"
  <2>1. sync' = Idle
    BY <1>2, Zenon DEF NextStage
  <2>2. unsettled' = unsettled
    BY <2>1, IdleSync, Zenon DEF NextStage
  <2>3. QED
    BY <1>0, <1>2, <2>1, <2>2, IdleSync, Zenon
<1>3. CASE sync.at = "cloud" /\ sync.kind = "full"
  <2>1. sync' = [sync EXCEPT !.at = "statuses", !.news = updateIngressStatuses]
    BY <1>3, Zenon DEF NextStage
  <2>2. /\ sync' \in Syncs /\ sync'.at = "statuses"
        /\ sync'.kind = sync.kind /\ sync'.want = sync.want /\ sync'.list = sync.list
        /\ sync'.todo = {} /\ sync'.left = {} /\ sync'.news = updateIngressStatuses
    BY <1>0, <2>1, News, Zenon DEF Syncs
  <2>3. unsettled' \subseteq unsettled
    BY Zenon DEF NextStage
  <2>4. QED
    BY <1>0, <1>3, <2>2, <2>3, Zenon
<1>4. QED
  BY <1>0, <1>1, <1>2, <1>3, Zenon

\* The Domains are made, and then the endpoints or, when one of them failed, nothing.
LEMMA DomainsStep ==
    ASSUME TypeOK, applyDomains
    PROVE  /\ sync.at = "domains"
           /\ sync' \in Syncs
           /\ domains' \in [Names -> Addresses \cup {None}]
           /\ UNCHANGED <<want, endpoints, listed, known, told, copied, drifted, unsettled, events>>
           /\ \/ sync' = Idle /\ asked' = asked \cup {sync.kind}
              \/ /\ asked' = asked /\ sync'.at = "agent"
                 /\ sync'.kind = sync.kind /\ sync'.want = sync.want /\ sync'.list = sync.list
                 /\ sync'.todo = {k \in Keys : k[1] = "agent" /\ sync.list[k] # None}
                 /\ sync'.left = {k \in Keys : k[1] = "agent" /\ sync.want[k] # None}
<1>1. /\ sync \in Syncs /\ sync.at = "domains"
      /\ domains' \in [Names -> Addresses \cup {None}]
      /\ UNCHANGED <<want, endpoints, listed, known, told, copied, drifted, unsettled, events>>
  BY Zenon DEF TypeOK, applyDomains, Addresses, ghosts
<1>2. CASE sync' = Enter(sync, "agent") /\ asked' = asked
  <2>1. /\ sync' \in Syncs /\ sync'.at = "agent"
        /\ sync'.kind = sync.kind /\ sync'.want = sync.want /\ sync'.list = sync.list
        /\ sync'.todo = {k \in Keys : k[1] = "agent" /\ sync.list[k] # None}
        /\ sync'.left = {k \in Keys : k[1] = "agent" /\ sync.want[k] # None}
    BY <1>1, <1>2, EnterSync, Zenon DEF Kinds
  <2>2. QED
    BY <1>1, <1>2, <2>1, Zenon
<1>3. CASE sync' = Idle /\ asked' = asked \cup {sync.kind}
  BY <1>1, <1>3, IdleSync, Zenon
<1>4. QED
  BY <1>2, <1>3, Zenon DEF applyDomains

\* The steps there are.
LEMMA Steps ==
    ASSUME Next
    PROVE  \/ \E kind \in {"full", "partial"} : Start(kind)
           \/ applyDomains \/ NextStage \/ WriteStatuses \/ Fail
           \/ \E k \in Keys : ApplyListed(k) \/ Creates(k)
           \/ \E k \in Keys : DeliverEndpoint(k) \/ FinishDeletion(k) \/ Interfere(k)
           \/ \E n \in Names : DeliverDomain(n) \/ DeliverIngress(n) \/ DomainStep(n) \/ DeleteDomain(n)
           \/ EditStore \/ Restart
<1>1. ASSUME NEW k \in Keys, Apply(k)
      PROVE  ApplyListed(k) \/ Creates(k) \/ Fail
  BY <1>1, Zenon DEF Apply, Conflict, ApplyLeft, Creates
<1>2. CASE applyAgentEndpoints
  <2>1. PICK n \in Names : Apply(<<"agent", n>>)
    BY <1>2, Zenon DEF applyAgentEndpoints
  <2>2. <<"agent", n>> \in Keys
    BY KeyParts, Zenon DEF Kinds
  <2>3. QED
    BY <1>1, <2>1, <2>2, Zenon
<1>3. CASE applyCloudEndpoints
  <2>1. PICK n \in Names : Apply(<<"cloud", n>>)
    BY <1>3, Zenon DEF applyCloudEndpoints
  <2>2. <<"cloud", n>> \in Keys
    BY KeyParts, Zenon DEF Kinds
  <2>3. QED
    BY <1>1, <2>1, <2>2, Zenon
<1>4. QED
  BY <1>2, <1>3, Zenon DEF Next, Sync

\* What others do to an endpoint: the key has drifted.
LEMMA InterfereStep ==
    ASSUME TypeOK, NEW k \in Keys, Interfere(k)
    PROVE  /\ endpoints' \in [Keys -> Endpoint \cup {None}]
           /\ \A j \in Keys : j # k => endpoints'[j] = endpoints[j]
           /\ drifted' = drifted \cup {k}
           /\ UNCHANGED <<want, asked, listed, sync, unsettled, domains, known, told, copied>>
<1>1. endpoints \in [Keys -> Endpoint \cup {None}]
  BY Zenon DEF TypeOK
<1>2. PICK x \in Endpoint : endpoints' = [endpoints EXCEPT ![k] = x]
  <2>1. CASE \E o \in {"user", "service"}, s \in Specs :
                Stays(k, [spec |-> s, owner |-> o, going |-> FALSE])
    BY <2>1, Zenon DEF Stays, Endpoint, Owners
  <2>2. CASE endpoints[k] # None /\ \E s \in Specs : Stays(k, [endpoints[k] EXCEPT !.spec = s])
    BY <1>1, <2>2, Zenon DEF Stays, Endpoint
  <2>3. CASE endpoints[k] # None /\ Stays(k, [endpoints[k] EXCEPT !.going = TRUE])
    BY <1>1, <2>3, Zenon DEF Stays, Endpoint
  <2>4. QED
    BY <2>1, <2>2, <2>3, Zenon DEF Interfere
<1>3. /\ drifted' = drifted \cup {k}
      /\ UNCHANGED <<want, asked, listed, sync, unsettled, domains, known, told, copied>>
  BY Zenon DEF Interfere, Others
<1>4. QED
  BY <1>1, <1>2, <1>3, Zenon

\* An event is counted, up to the bound.
LEMMA Counted == ASSUME TypeOK, Happens PROVE events' \in 0..MaxEvents
<1>1. events \in 0..MaxEvents
  BY Zenon DEF TypeOK
<1>2. QED
  BY <1>1, EndpointAssumption DEF Happens

LEMMA NextTypes ==
    ASSUME TypeOK, SyncInv, Next
    PROVE  TypeOK'
<1> USE DEF cluster, ghosts, Others
<1>0. /\ want \in [Keys -> Specs \cup {None}]
      /\ asked \subseteq {"full", "partial"}
      /\ endpoints \in [Keys -> Endpoint \cup {None}] /\ listed \in [Keys -> Endpoint \cup {None}]
      /\ domains \in [Names -> Addresses \cup {None}] /\ known \in [Names -> Addresses \cup {None}]
      /\ told \in [Names -> {"ready", None}] /\ copied \in [Names -> {"ready", None}]
      /\ sync \in Syncs /\ sync.kind \in {"full", "partial"}
      /\ drifted \subseteq Keys /\ unsettled \subseteq Names
      /\ events \in 0..MaxEvents
  BY Zenon DEF TypeOK, Syncs
<1>a. ASSUME want' \in [Keys -> Specs \cup {None}],
             asked' \subseteq {"full", "partial"},
             endpoints' \in [Keys -> Endpoint \cup {None}], listed' \in [Keys -> Endpoint \cup {None}],
             domains' \in [Names -> Addresses \cup {None}], known' \in [Names -> Addresses \cup {None}],
             told' \in [Names -> {"ready", None}], copied' \in [Names -> {"ready", None}],
             sync' \in Syncs, drifted' \subseteq Keys, unsettled' \subseteq Names,
             events' \in 0..MaxEvents
      PROVE  TypeOK'
  BY <1>a, Zenon DEF TypeOK
<1>1. CASE \E kind \in {"full", "partial"} : Start(kind)
  <2>1. PICK kind \in {"full", "partial"} : Start(kind)
    BY <1>1, Zenon
  <2>2. sync' \in Syncs
    BY <2>1, StartSync, Zenon
  <2>3. asked' \subseteq {"full", "partial"} /\ drifted' \subseteq Keys
    BY <1>0, <2>1, Zenon DEF Start, Misread
  <2>4. QED
    BY <1>0, <1>a, <2>1, <2>2, <2>3, Zenon DEF Start
<1>2. CASE applyDomains
  BY <1>0, <1>a, <1>2, DomainsStep, Zenon
<1>3. CASE NextStage
  BY <1>0, <1>a, <1>3, StageStep, Zenon
<1>4. CASE WriteStatuses
  <2>1. ASSUME NEW n \in DOMAIN sync.news PROVE sync.news[n] \in {"ready", None}
    <3>1. sync.news \in UNION {[N -> {"ready", None}] : N \in SUBSET Names}
      BY <1>0, Zenon DEF Syncs
    <3>2. PICK N \in SUBSET Names : sync.news \in [N -> {"ready", None}]
      BY <3>1, Zenon
    <3>3. QED
      BY <2>1, <3>2, Zenon
  <2>2. told' \in [Names -> {"ready", None}]
    BY <1>0, <1>4, <2>1, Zenon DEF WriteStatuses
  <2>3. QED
    BY <1>0, <1>a, <1>4, <2>2, IdleSync, Zenon DEF WriteStatuses
<1>5. CASE Fail
  BY <1>0, <1>a, <1>5, FailStep, IdleSync, Zenon
<1>6. ASSUME NEW k \in Keys, ApplyListed(k) PROVE TypeOK'
  <2>1. sync.list[k] # None
    BY <1>6, Zenon DEF SyncInv, ApplyListed
  <2>2. /\ sync' \in Syncs /\ endpoints' \in [Keys -> Endpoint \cup {None}]
        /\ UNCHANGED <<want, asked, listed, domains, known, told, copied, drifted, unsettled, events>>
    BY <1>6, <2>1, ListedStep, Zenon
  <2>3. QED
    BY <1>0, <1>a, <2>2, Zenon
<1>7. ASSUME NEW k \in Keys, Creates(k) PROVE TypeOK'
  <2>1. sync.want[k] # None
    BY <1>7, Zenon DEF SyncInv, Creates, ApplyLeft
  <2>2. /\ sync' \in Syncs /\ endpoints' \in [Keys -> Endpoint \cup {None}]
        /\ UNCHANGED <<want, asked, listed, domains, known, told, copied, drifted, unsettled, events>>
    BY <1>7, <2>1, CreateStep, Zenon
  <2>3. QED
    BY <1>0, <1>a, <2>2, Zenon
<1>8. ASSUME NEW k \in Keys, DeliverEndpoint(k) PROVE TypeOK'
  BY <1>0, <1>a, <1>8, Zenon DEF DeliverEndpoint
<1>9. ASSUME NEW k \in Keys, FinishDeletion(k) PROVE TypeOK'
  BY <1>0, <1>a, <1>9, Zenon DEF FinishDeletion, Stays
<1>10. ASSUME NEW k \in Keys, Interfere(k) PROVE TypeOK'
  <2>1. events' \in 0..MaxEvents
    BY <1>10, Counted, Zenon DEF Interfere
  <2>2. QED
    BY <1>0, <1>a, <1>10, <2>1, InterfereStep, Zenon
<1>11. ASSUME NEW n \in Names, DeliverDomain(n) PROVE TypeOK'
  <2>1. known' \in [Names -> Addresses \cup {None}]
    BY <1>0, <1>11, Zenon DEF DeliverDomain
  <2>2. told' \in [Names -> {"ready", None}] /\ unsettled' \subseteq Names
    BY <1>0, <1>11, Zenon DEF DeliverDomain, AddressOf
  <2>3. QED
    BY <1>0, <1>a, <1>11, <2>1, <2>2, Zenon DEF DeliverDomain
<1>12. ASSUME NEW n \in Names, DeliverIngress(n) PROVE TypeOK'
  BY <1>0, <1>a, <1>12, Zenon DEF DeliverIngress
<1>13. ASSUME NEW n \in Names, DomainStep(n) PROVE TypeOK'
  <2>1. events' \in 0..MaxEvents
    BY <1>0, <1>13, Counted, Zenon DEF DomainStep
  <2>2. domains' \in [Names -> Addresses \cup {None}]
    BY <1>0, <1>13, Zenon DEF DomainStep, Addresses
  <2>3. QED
    BY <1>0, <1>a, <1>13, <2>1, <2>2, Zenon DEF DomainStep
<1>14. ASSUME NEW n \in Names, DeleteDomain(n) PROVE TypeOK'
  <2>1. events' \in 0..MaxEvents
    BY <1>14, Counted, Zenon DEF DeleteDomain
  <2>2. QED
    BY <1>0, <1>a, <1>14, <2>1, Zenon DEF DeleteDomain
<1>15. CASE EditStore
  <2>1. events' \in 0..MaxEvents
    BY <1>15, Counted, Zenon DEF EditStore
  <2>2. PICK k \in Keys, s \in Specs \cup {None}, kind \in {"full", "partial"} :
           /\ want' = [want EXCEPT ![k] = s]
           /\ asked' = asked \cup {kind}
           /\ told' = [told EXCEPT ![k[2]] = IF ~Mentioned([want EXCEPT ![k] = s], k[2]) THEN None ELSE @]
           /\ copied' = [copied EXCEPT ![k[2]] = IF ~Mentioned([want EXCEPT ![k] = s], k[2]) THEN None ELSE @]
    BY <1>15, Zenon DEF EditStore
  <2>3. told' \in [Names -> {"ready", None}] /\ copied' \in [Names -> {"ready", None}]
    BY <1>0, <2>2, KeyParts, Zenon
  <2>4. want' \in [Keys -> Specs \cup {None}]
    BY <1>0, <2>2, Zenon
  <2>5. QED
    BY <1>0, <1>a, <1>15, <2>1, <2>2, <2>3, <2>4, Zenon DEF EditStore
<1>16. CASE Restart
  <2>1. events' \in 0..MaxEvents
    BY <1>16, Counted, Zenon DEF Restart
  <2>2. asked' \subseteq {"full", "partial"} /\ drifted' \subseteq Keys
    BY <1>0, <1>16, Zenon DEF Restart
  <2>3. QED
    BY <1>0, <1>a, <1>16, <2>1, <2>2, IdleSync, Zenon DEF Restart
<1>17. QED
  BY <1>1, <1>2, <1>3, <1>4, <1>5, <1>6, <1>7, <1>8, <1>9, <1>10, <1>11, <1>12, <1>13, <1>14,
     <1>15, <1>16, Steps, Zenon

(***************************************************************************)
(* The steps keep the invariant.                                           *)
(***************************************************************************)
LEMMA EndpointParts ==
    ASSUME NEW e \in Endpoint, e.owner = "operator", ~e.going, NEW s \in Specs
    PROVE  /\ e = [spec |-> e.spec, owner |-> "operator", going |-> FALSE]
           /\ [e EXCEPT !.spec = s] = [spec |-> s, owner |-> "operator", going |-> FALSE]
<1>1. ASSUME NEW f \in Endpoint, f.owner = "operator", ~f.going
      PROVE  f = [spec |-> f.spec, owner |-> "operator", going |-> FALSE]
  <2>1. PICK t \in Specs, o \in Owners, g \in BOOLEAN : f = [spec |-> t, owner |-> o, going |-> g]
    BY <1>1, Zenon DEF Endpoint
  <2>2. o = "operator" /\ g = FALSE /\ f.spec = t
    BY <1>1, <2>1, Zenon
  <2>3. QED
    BY <2>1, <2>2, Zenon
<1> DEFINE f == [e EXCEPT !.spec = s]
<1>2. f \in Endpoint /\ f.owner = "operator" /\ ~f.going /\ f.spec = s
  BY Zenon DEF Endpoint
<1> HIDE DEF f
<1>3. f = [spec |-> s, owner |-> "operator", going |-> FALSE]
  BY <1>1, <1>2, Zenon
<1>4. QED
  BY <1>1, <1>3, Zenon DEF f

\* Where the loops over a kind begin, the keys of the kind that are in neither of them
\* are in order.
LEMMA Entered ==
    ASSUME TypeOK, sync' \in Syncs, NEW kind \in Kinds, sync'.at = kind,
           sync'.todo = {k \in Keys : k[1] = kind /\ sync'.list[k] # None},
           sync'.left = {k \in Keys : k[1] = kind /\ sync'.want[k] # None}
    PROVE  /\ \A k \in sync'.todo \cup sync'.left : k[1] = sync'.at
           /\ \A k \in sync'.todo : sync'.list[k] # None /\ (sync'.want[k] # None => k \in sync'.left)
           /\ \A k \in sync'.left : sync'.want[k] # None
           /\ \A k \in Keys : k[1] = kind /\ Faithful(k)' => KeyInv(k)'
<1>1. ASSUME NEW k \in Keys, k[1] = kind, Faithful(k)' PROVE KeyInv(k)'
  <2>1. Done(k)' => sync'.list[k] = None /\ sync'.want[k] = None
    BY <1>1, Zenon DEF Done, Kinds
  <2>2. sync'.list[k] = None => endpoints'[k] = None \/ endpoints'[k].owner # "operator"
    BY <1>1, Zenon DEF Faithful
  <2>3. QED
    BY <1>1, <2>1, <2>2, Zenon DEF KeyInv, Applied
<1>2. QED
  BY <1>1, Zenon

LEMMA SyncInvNext ==
    ASSUME TypeOK, SyncInv, Next
    PROVE  SyncInv'
<1> USE DEF cluster, ghosts, Others
<1>0. /\ endpoints \in [Keys -> Endpoint \cup {None}]
      /\ sync \in Syncs
      /\ sync.at \in {"idle", "domains", "agent", "cloud", "statuses"}
      /\ \A k \in Keys \ drifted : KeyInv(k)
  BY Zenon DEF TypeOK, Syncs, SyncInv
<1>a. ASSUME UNCHANGED <<sync, endpoints, drifted>>, asked' = {} => asked = {} /\ want' = want
      PROVE  SyncInv'
  BY <1>a, Zenon DEF SyncInv, KeyInv, Pending, Done, Faithful, Applied, InOrder
<1>b. ASSUME sync' = Idle, asked' = {} => \A k \in Keys \ drifted' : InOrder(k)'
      PROVE  SyncInv'
  <2>1. sync'.at = "idle" /\ sync'.todo = {} /\ sync'.left = {}
    BY <1>b, IdleSync, Zenon
  <2>2. \A k \in Keys : ~Pending(k)' /\ ~Done(k)'
    BY <2>1, KeyParts, Zenon DEF Pending, Done, Kinds
  <2>3. QED
    BY <1>b, <2>1, <2>2, Zenon DEF SyncInv, KeyInv
<1>c. ASSUME \A k \in Keys : Done(k), sync.at # "idle", sync' = Idle,
             UNCHANGED <<want, asked, endpoints, drifted>>
      PROVE  SyncInv'
  <2>1. ASSUME asked' = {}, NEW k \in Keys \ drifted' PROVE InOrder(k)'
    <3>1. Applied(k) /\ sync.want = want
      BY <1>0, <1>c, <2>1, Zenon DEF SyncInv, KeyInv
    <3>2. QED
      BY <1>c, <3>1, Zenon DEF Applied, InOrder
  <2>2. QED
    BY <1>b, <1>c, <2>1, Zenon
<1>1. CASE \E kind \in {"full", "partial"} : Start(kind)
  <2>1. PICK kind \in {"full", "partial"} : Start(kind)
    BY <1>1, Zenon
  <2>2. want' = want /\ endpoints' = endpoints /\ drifted' = Misread
    BY <2>1, Zenon DEF Start
  <2>3. sync' \in Syncs /\ sync'.kind = kind /\ sync'.want = want /\ sync'.list = Listed
    BY <2>1, StartSync, Zenon
  <2>4. ASSUME NEW k \in Keys \ drifted' PROVE Faithful(k)'
    <3>1. listed[k] = endpoints[k] /\ (listed[k] # None => ~listed[k].going)
      BY <2>2, <2>4, Zenon DEF Misread
    <3>2. QED
      BY <2>2, <2>3, <3>1, Zenon DEF Faithful, Listed
  <2>5. CASE kind = "full"
    <3>1. sync'.at = "domains" /\ sync'.todo = {} /\ sync'.left = {}
      BY <2>1, <2>5, StartSync, Zenon
    <3>2. \A k \in Keys : ~Done(k)'
      BY <3>1, KeyParts, Zenon DEF Done, Kinds
    <3>3. QED
      BY <2>2, <2>3, <2>4, <2>5, <3>1, <3>2, Zenon DEF SyncInv, KeyInv
  <2>6. CASE kind = "partial"
    <3>1. /\ sync'.at = "agent"
          /\ sync'.todo = {k \in Keys : k[1] = "agent" /\ Listed[k] # None}
          /\ sync'.left = {k \in Keys : k[1] = "agent" /\ want[k] # None}
      BY <2>1, <2>6, StartSync, Zenon
    <3>2. /\ sync'.todo = {k \in Keys : k[1] = "agent" /\ sync'.list[k] # None}
          /\ sync'.left = {k \in Keys : k[1] = "agent" /\ sync'.want[k] # None}
      BY <2>3, <3>1, Zenon
    <3>3. /\ \A k \in sync'.todo \cup sync'.left : k[1] = sync'.at
          /\ \A k \in sync'.todo : sync'.list[k] # None /\ (sync'.want[k] # None => k \in sync'.left)
          /\ \A k \in sync'.left : sync'.want[k] # None
          /\ \A k \in Keys : k[1] = "agent" /\ Faithful(k)' => KeyInv(k)'
      BY <2>3, <3>1, <3>2, Entered, Zenon DEF Kinds
    <3>4. ASSUME NEW k \in Keys \ drifted' PROVE KeyInv(k)'
      <4>1. k[1] = "agent" \/ ~Done(k)'
        BY <3>1, Zenon DEF Done
      <4>2. QED
        BY <2>4, <3>3, <4>1, Zenon DEF KeyInv
    <3>5. QED
      BY <2>2, <2>3, <2>6, <3>1, <3>3, <3>4, Zenon DEF SyncInv
  <2>7. QED
    BY <2>5, <2>6, Zenon
<1>2. CASE applyDomains
  <2>1. sync.at = "domains" /\ UNCHANGED <<want, endpoints, drifted>>
    BY <1>2, DomainsStep, Zenon
  <2>2. CASE sync' = Idle /\ asked' = asked \cup {sync.kind}
    BY <1>b, <2>2, Zenon
  <2>3. CASE /\ asked' = asked /\ sync'.at = "agent"
             /\ sync'.kind = sync.kind /\ sync'.want = sync.want /\ sync'.list = sync.list
             /\ sync'.todo = {k \in Keys : k[1] = "agent" /\ sync.list[k] # None}
             /\ sync'.left = {k \in Keys : k[1] = "agent" /\ sync.want[k] # None}
    <3>1. /\ asked' = asked /\ sync'.at = "agent" /\ sync' \in Syncs
          /\ sync'.kind = sync.kind /\ sync'.want = sync.want /\ sync'.list = sync.list
          /\ sync'.todo = {k \in Keys : k[1] = "agent" /\ sync.list[k] # None}
          /\ sync'.left = {k \in Keys : k[1] = "agent" /\ sync.want[k] # None}
      BY <1>2, <2>3, DomainsStep, Zenon
    <3>2. /\ sync'.todo = {k \in Keys : k[1] = "agent" /\ sync'.list[k] # None}
          /\ sync'.left = {k \in Keys : k[1] = "agent" /\ sync'.want[k] # None}
      BY <3>1, Zenon
    <3>3. /\ \A k \in sync'.todo \cup sync'.left : k[1] = sync'.at
          /\ \A k \in sync'.todo : sync'.list[k] # None /\ (sync'.want[k] # None => k \in sync'.left)
          /\ \A k \in sync'.left : sync'.want[k] # None
          /\ \A k \in Keys : k[1] = "agent" /\ Faithful(k)' => KeyInv(k)'
      BY <3>1, <3>2, Entered, Zenon DEF Kinds
    <3>4. ASSUME NEW k \in Keys \ drifted' PROVE KeyInv(k)'
      <4>1. Faithful(k)
        BY <1>0, <2>1, Zenon DEF KeyInv, Pending
      <4>2. Faithful(k)'
        BY <2>1, <3>1, <4>1, Zenon DEF Faithful
      <4>3. k[1] = "agent" \/ ~Done(k)'
        BY <3>1, Zenon DEF Done
      <4>4. QED
        BY <3>3, <4>2, <4>3, Zenon DEF KeyInv
    <3>5. sync.want = want \/ asked # {}
      BY <2>1, Zenon DEF SyncInv
    <3>6. QED
      BY <2>1, <3>1, <3>3, <3>4, <3>5, Zenon DEF SyncInv
  <2>4. QED
    BY <1>2, <2>2, <2>3, DomainsStep, Zenon
<1>3. CASE NextStage
  <2>0. sync.todo = {} /\ sync.left = {} /\ UNCHANGED <<want, asked, endpoints, drifted>>
    BY <1>3, StageStep, Zenon
  <2>1. CASE /\ sync.at = "agent" /\ sync'.at = "cloud" /\ sync' \in Syncs
             /\ sync'.kind = sync.kind /\ sync'.want = sync.want /\ sync'.list = sync.list
             /\ sync'.todo = {k \in Keys : k[1] = "cloud" /\ sync.list[k] # None}
             /\ sync'.left = {k \in Keys : k[1] = "cloud" /\ sync.want[k] # None}
    <3>2. /\ sync'.todo = {k \in Keys : k[1] = "cloud" /\ sync'.list[k] # None}
          /\ sync'.left = {k \in Keys : k[1] = "cloud" /\ sync'.want[k] # None}
      BY <2>1, Zenon
    <3>3. /\ \A k \in sync'.todo \cup sync'.left : k[1] = sync'.at
          /\ \A k \in sync'.todo : sync'.list[k] # None /\ (sync'.want[k] # None => k \in sync'.left)
          /\ \A k \in sync'.left : sync'.want[k] # None
          /\ \A k \in Keys : k[1] = "cloud" /\ Faithful(k)' => KeyInv(k)'
      BY <2>1, <3>2, Entered, Zenon DEF Kinds
    <3>4. ASSUME NEW k \in Keys \ drifted' PROVE KeyInv(k)'
      <4>1. KeyInv(k)
        BY <1>0, <2>0, Zenon
      <4>2. CASE k[1] = "cloud"
        <5>1. Faithful(k)
          BY <2>1, <4>1, <4>2, Zenon DEF KeyInv, Pending
        <5>2. Faithful(k)'
          BY <2>0, <2>1, <5>1, Zenon DEF Faithful
        <5>3. QED
          BY <3>3, <4>2, <5>2, Zenon
      <4>3. CASE k[1] = "agent"
        <5>1. Applied(k)
          BY <2>0, <2>1, <4>1, <4>3, Zenon DEF KeyInv, Done
        <5>2. Applied(k)' /\ ~Pending(k)'
          BY <2>0, <2>1, <3>3, <4>3, <5>1, Zenon DEF Applied, Pending
        <5>3. QED
          BY <5>2, Zenon DEF KeyInv
      <4>4. QED
        BY <4>2, <4>3, KeyParts, Zenon DEF Kinds
    <3>5. QED
      BY <2>0, <2>1, <3>3, <3>4, Zenon DEF SyncInv
  <2>2. ASSUME sync.at = "cloud", NEW k \in Keys PROVE Done(k)
    BY <2>0, <2>2, KeyParts, Zenon DEF Done, Kinds
  <2>3. CASE sync.at = "cloud" /\ sync' = Idle
    BY <1>c, <2>0, <2>2, <2>3, Zenon
  <2>4. CASE /\ sync.at = "cloud" /\ sync.kind = "full" /\ sync'.at = "statuses"
             /\ sync'.kind = sync.kind /\ sync'.want = sync.want /\ sync'.list = sync.list
             /\ sync'.todo = {} /\ sync'.left = {}
    <3>1. ASSUME NEW k \in Keys \ drifted' PROVE KeyInv(k)'
      <4>1. Applied(k)
        BY <1>0, <2>0, <2>2, <2>4, Zenon DEF KeyInv
      <4>2. Applied(k)' /\ ~Pending(k)'
        BY <2>0, <2>4, <4>1, Zenon DEF Applied, Pending
      <4>3. QED
        BY <4>2, Zenon DEF KeyInv
    <3>2. QED
      BY <2>0, <2>4, <3>1, Zenon DEF SyncInv
  <2>5. QED
    BY <1>3, <2>1, <2>3, <2>4, StageStep, Zenon
<1>4. CASE WriteStatuses
  <2>1. \A k \in Keys : Done(k)
    BY <1>4, Zenon DEF WriteStatuses, Done
  <2>2. QED
    BY <1>4, <1>c, <2>1, Zenon DEF WriteStatuses
<1>5. CASE Fail
  BY <1>5, <1>b, FailStep, Zenon
<1>6. ASSUME NEW k \in Keys, ApplyListed(k) PROVE SyncInv'
  <2>0. k \in sync.todo /\ sync.list[k] # None /\ sync.at = k[1] /\ (sync.want[k] # None => k \in sync.left)
    BY <1>6, Zenon DEF ApplyListed, SyncInv
  <2>1. /\ sync' \in Syncs
        /\ sync'.at = sync.at /\ sync'.kind = sync.kind /\ sync'.want = sync.want
        /\ sync'.list = sync.list /\ sync'.todo = sync.todo \ {k}
        /\ \A j \in Keys : j # k => endpoints'[j] = endpoints[j]
        /\ UNCHANGED <<want, asked, drifted>>
    BY <1>6, <2>0, ListedStep, Zenon
  <2>2. sync'.left = sync.left \/ sync'.left = sync.left \ {k}
    BY <1>6, <2>0, ListedStep, Zenon
  <2>3. ASSUME NEW j \in Keys \ drifted', j # k PROVE KeyInv(j)'
    <3>1. KeyInv(j) /\ endpoints'[j] = endpoints[j]
      BY <1>0, <2>1, <2>3, Zenon
    <3>2. (Pending(j)' => Pending(j)) /\ (Done(j)' => Done(j))
      BY <2>1, <2>2, <2>3, Zenon DEF Pending, Done
    <3>3. QED
      BY <2>1, <3>1, <3>2, Zenon DEF KeyInv, Faithful, Applied
  <2>4. ASSUME k \notin drifted PROVE KeyInv(k)'
    <3>1. Faithful(k)
      BY <1>0, <2>0, <2>4, Zenon DEF KeyInv, Pending
    <3>2. endpoints[k] = sync.list[k] /\ endpoints[k] \in Endpoint /\ ~endpoints[k].going
      BY <1>0, <2>0, <3>1, Zenon DEF Faithful
    <3>3. ~Pending(k)'
      BY <2>0, <2>1, KeyParts, Zenon DEF Pending, Kinds
    <3>4. CASE sync.list[k].owner # "operator" /\ sync'.left = sync.left /\ endpoints' = endpoints
      <4>1. Done(k)' => sync.want[k] = None
        BY <2>0, <2>1, <3>4, KeyParts, Zenon DEF Done, Kinds
      <4>2. QED
        BY <2>1, <3>2, <3>3, <3>4, <4>1, Zenon DEF KeyInv, Applied
    <3>5. CASE sync.want[k] = None /\ (endpoints'[k] = None \/ endpoints'[k].going)
      BY <2>1, <3>3, <3>5, Zenon DEF KeyInv, Applied
    <3>6. sync.want[k] # None => sync.want[k] \in Specs
      BY <1>0, Zenon DEF Syncs
    <3>7. CASE /\ sync.list[k].owner = "operator" /\ sync.want[k] # None
               /\ sync.list[k].spec = sync.want[k] /\ endpoints' = endpoints
      <4>1. endpoints'[k] = [spec |-> sync.want[k], owner |-> "operator", going |-> FALSE]
        BY <3>2, <3>6, <3>7, EndpointParts, Zenon
      <4>2. QED
        BY <2>1, <3>3, <3>7, <4>1, Zenon DEF KeyInv, Applied
    <3>8. CASE /\ sync.list[k].owner = "operator" /\ sync.want[k] # None
               /\ endpoints'[k] = [sync.list[k] EXCEPT !.spec = sync.want[k]]
      <4>1. endpoints'[k] = [spec |-> sync.want[k], owner |-> "operator", going |-> FALSE]
        BY <3>2, <3>6, <3>8, EndpointParts, Zenon
      <4>2. QED
        BY <2>1, <3>3, <3>8, <4>1, Zenon DEF KeyInv, Applied
    <3>9. QED
      BY <1>6, <2>0, <3>4, <3>5, <3>7, <3>8, ListedStep, Zenon
  <2>5. \A j \in sync'.todo : sync'.want[j] # None => j \in sync'.left
    BY <2>1, <2>2, Zenon DEF SyncInv
  <2>6. sync.at # "idle"
    BY <2>0, KeyParts, Zenon DEF Kinds
  <2>7. QED
    BY <2>1, <2>2, <2>3, <2>4, <2>5, <2>6, Zenon DEF SyncInv
<1>7. ASSUME NEW k \in Keys, Creates(k) PROVE SyncInv'
  <2>0. k \in sync.left /\ sync.want[k] # None /\ sync.at = k[1]
    BY <1>7, Zenon DEF Creates, ApplyLeft, SyncInv
  <2>1. /\ sync' \in Syncs /\ sync.todo = {}
        /\ sync'.at = sync.at /\ sync'.kind = sync.kind /\ sync'.want = sync.want
        /\ sync'.list = sync.list /\ sync'.todo = sync.todo /\ sync'.left = sync.left \ {k}
        /\ \A j \in Keys : j # k => endpoints'[j] = endpoints[j]
        /\ endpoints'[k] = [spec |-> sync.want[k], owner |-> "operator", going |-> FALSE]
        /\ UNCHANGED <<want, asked, drifted>>
    BY <1>7, <2>0, CreateStep, Zenon
  <2>2. ASSUME NEW j \in Keys \ drifted', j # k PROVE KeyInv(j)'
    <3>1. KeyInv(j) /\ endpoints'[j] = endpoints[j]
      BY <1>0, <2>1, <2>2, Zenon
    <3>2. (Pending(j)' => Pending(j)) /\ (Done(j)' => Done(j))
      BY <2>1, <2>2, Zenon DEF Pending, Done
    <3>3. QED
      BY <2>1, <3>1, <3>2, Zenon DEF KeyInv, Faithful, Applied
  <2>3. KeyInv(k)'
    <3>1. ~Pending(k)'
      BY <2>0, <2>1, KeyParts, Zenon DEF Pending, Kinds
    <3>2. Applied(k)'
      BY <2>0, <2>1, Zenon DEF Applied
    <3>3. QED
      BY <3>1, <3>2, Zenon DEF KeyInv
  <2>4. sync.at # "idle"
    BY <2>0, KeyParts, Zenon DEF Kinds
  <2>5. QED
    BY <2>1, <2>2, <2>3, <2>4, Zenon DEF SyncInv
<1>8. ASSUME NEW k \in Keys, DeliverEndpoint(k) PROVE SyncInv'
  BY <1>8, <1>a, Zenon DEF DeliverEndpoint
<1>9. ASSUME NEW k \in Keys, FinishDeletion(k) PROVE SyncInv'
  <2>1. /\ endpoints[k] # None /\ endpoints[k].going /\ endpoints'[k] = None
        /\ \A j \in Keys : j # k => endpoints'[j] = endpoints[j]
        /\ UNCHANGED <<want, asked, sync, drifted>>
    BY <1>0, <1>9, Zenon DEF FinishDeletion, Stays
  <2>2. ASSUME NEW s PROVE endpoints[k] # [spec |-> s, owner |-> "operator", going |-> FALSE]
    BY <2>1
  <2>3. ASSUME NEW j \in Keys \ drifted' PROVE KeyInv(j)'
    <3>1. KeyInv(j)
      BY <1>0, <2>1, Zenon
    <3>2. CASE j # k
      BY <2>1, <3>1, <3>2, Zenon DEF KeyInv, Pending, Done, Faithful, Applied
    <3>3. CASE j = k
      <4>1. ~Pending(k)
        BY <2>1, <3>1, <3>3, Zenon DEF KeyInv, Faithful
      <4>2. Done(k) => sync.want[k] = None
        BY <2>2, <3>1, <3>3, Zenon DEF KeyInv, Applied
      <4>3. ~Pending(k)' /\ (Done(k)' => sync'.want[k] = None)
        BY <2>1, <4>1, <4>2, Zenon DEF Pending, Done
      <4>4. QED
        BY <2>1, <3>3, <4>3, Zenon DEF KeyInv, Applied
    <3>4. QED
      BY <3>2, <3>3, Zenon
  <2>4. ASSUME NEW j \in Keys \ drifted', InOrder(j) PROVE InOrder(j)'
    <3>1. CASE j # k
      BY <2>1, <2>4, <3>1, Zenon DEF InOrder
    <3>2. CASE j = k
      BY <2>1, <2>2, <2>4, <3>2, Zenon DEF InOrder
    <3>3. QED
      BY <3>1, <3>2, Zenon
  <2>5. QED
    BY <2>1, <2>3, <2>4, Zenon DEF SyncInv
<1>10. ASSUME NEW k \in Keys, Interfere(k) PROVE SyncInv'
  <2>1. /\ \A j \in Keys : j # k => endpoints'[j] = endpoints[j]
        /\ drifted' = drifted \cup {k}
        /\ UNCHANGED <<want, asked, sync>>
    BY <1>10, InterfereStep, Zenon
  <2>2. ASSUME NEW j \in Keys \ drifted'
        PROVE  KeyInv(j)' /\ (InOrder(j) => InOrder(j)')
    <3>1. KeyInv(j) /\ endpoints'[j] = endpoints[j] /\ j \in Keys \ drifted
      BY <1>0, <2>1, Zenon
    <3>2. QED
      BY <2>1, <3>1, Zenon DEF KeyInv, Pending, Done, Faithful, Applied, InOrder
  <2>3. QED
    BY <2>1, <2>2, Zenon DEF SyncInv
<1>11. ASSUME NEW n \in Names, DeliverDomain(n) \/ DomainStep(n) \/ DeleteDomain(n) PROVE SyncInv'
  <2>1. UNCHANGED <<want, asked, sync, endpoints, drifted>>
    BY <1>11, Zenon DEF DeliverDomain, DomainStep, DeleteDomain
  <2>2. QED
    BY <1>a, <2>1, Zenon
<1>12. ASSUME NEW n \in Names, DeliverIngress(n) PROVE SyncInv'
  <2>1. UNCHANGED <<want, sync, endpoints, drifted>> /\ asked' # {}
    BY <1>12, Zenon DEF DeliverIngress
  <2>2. QED
    BY <1>a, <2>1, Zenon
<1>13. CASE EditStore
  <2>1. UNCHANGED <<sync, endpoints, drifted>> /\ asked' # {}
    BY <1>13, Zenon DEF EditStore
  <2>2. QED
    BY <1>a, <2>1, Zenon
<1>14. CASE Restart
  <2>1. sync' = Idle /\ (asked' # {} \/ drifted' = Keys)
    BY <1>14, Zenon DEF Restart
  <2>2. QED
    BY <1>b, <2>1, Zenon
<1>15. QED
  BY <1>1, <1>2, <1>3, <1>4, <1>5, <1>6, <1>7, <1>8, <1>9, <1>10, <1>11, <1>12, <1>13, <1>14,
     Steps, Zenon

LEMMA StatusInvNext ==
    ASSUME TypeOK, SyncInv, StatusInv, Next
    PROVE  StatusInv'
<1> USE DEF cluster, ghosts, Others
<1>0. /\ sync \in Syncs /\ sync.kind \in {"full", "partial"}
      /\ want \in [Keys -> Specs \cup {None}]
      /\ told \in [Names -> {"ready", None}] /\ copied \in [Names -> {"ready", None}]
      /\ known \in [Names -> Addresses \cup {None}]
      /\ sync.at \in {"domains", "statuses"} => sync.kind = "full"
  BY Zenon DEF TypeOK, Syncs, SyncInv
<1>a. ASSUME UNCHANGED <<want, known, told, copied>>, unsettled \subseteq unsettled',
             sync'.at = sync.at, sync'.kind = sync.kind, sync'.news = sync.news,
             "full" \in asked => "full" \in asked'
      PROVE  StatusInv'
  <2>1. ASSUME NEW n \in Names \ unsettled' PROVE NameInv(n)'
    <3>1. NameInv(n)
      BY <1>a, Zenon DEF StatusInv
    <3>2. QED
      BY <1>a, <3>1, Zenon DEF NameInv, Mentioned, Settles
  <2>2. QED
    BY <2>1, Zenon DEF StatusInv
<1>b. ASSUME "full" \in asked' PROVE StatusInv'
  BY <1>b, Zenon DEF StatusInv, NameInv
<1>d. ASSUME sync'.at \in {"domains", "agent"}, sync'.kind = "full" PROVE StatusInv'
  BY <1>d, Zenon DEF StatusInv, NameInv
<1>c. ASSUME UNCHANGED <<want, known, told, copied, unsettled>>,
             sync.at = "idle" \/ sync.kind = "partial",
             "full" \in asked => "full" \in asked', sync'.at # "statuses"
      PROVE  StatusInv'
  <2>1. ASSUME NEW n \in Names \ unsettled' PROVE NameInv(n)'
    <3>1. NameInv(n)
      BY <1>c, Zenon DEF StatusInv
    <3>2. QED
      BY <1>c, <3>1, Zenon DEF NameInv, Mentioned, Settles
  <2>2. QED
    BY <2>1, Zenon DEF StatusInv
<1>1. CASE \E kind \in {"full", "partial"} : Start(kind)
  <2>1. PICK kind \in {"full", "partial"} : Start(kind)
    BY <1>1, Zenon
  <2>2. CASE kind = "full"
    BY <1>d, <2>1, <2>2, StartSync, Zenon
  <2>3. CASE kind = "partial"
    <3>1. /\ UNCHANGED <<want, known, told, copied, unsettled>>
          /\ sync.at = "idle" /\ asked' = asked \ {"partial"}
      BY <2>1, <2>3, Zenon DEF Start
    <3>2. sync'.at = "agent"
      BY <2>1, <2>3, StartSync, Zenon
    <3>3. QED
      BY <1>c, <3>1, <3>2, Zenon
  <2>4. QED
    BY <2>2, <2>3, Zenon
<1>2. CASE applyDomains
  <2>1. sync.kind = "full"
    BY <1>0, <1>2, DomainsStep, Zenon
  <2>2. CASE asked' = asked \cup {sync.kind}
    BY <1>b, <2>1, <2>2, Zenon
  <2>3. CASE sync'.at = "agent" /\ sync'.kind = sync.kind
    BY <1>d, <2>1, <2>3, Zenon
  <2>4. QED
    BY <1>2, <2>2, <2>3, DomainsStep, Zenon
<1>3. CASE NextStage
  <2>0. UNCHANGED <<want, asked, known, told, copied>>
    BY <1>3, StageStep, Zenon
  <2>1. CASE sync.at = "agent" /\ sync'.at = "cloud" /\ sync'.kind = sync.kind /\ unsettled' = unsettled
    <3>1. CASE sync.kind = "partial"
      BY <1>c, <2>0, <2>1, <3>1, Zenon
    <3>2. CASE sync.kind = "full"
      BY <2>1, <3>2, Zenon DEF StatusInv, NameInv
    <3>3. QED
      BY <1>0, <3>1, <3>2, Zenon
  <2>2. CASE sync.kind = "partial" /\ sync' = Idle /\ unsettled' = unsettled
    BY <1>c, <2>0, <2>2, IdleSync, Zenon
  <2>3. CASE sync'.at = "statuses" /\ sync'.kind = "full" /\ sync'.news = updateIngressStatuses
    <3>1. ASSUME NEW n \in Names, Mentioned(want, n)
          PROVE  IF n \in DOMAIN updateIngressStatuses THEN updateIngressStatuses[n] # copied[n]
                 ELSE copied[n] = AddressOf(known[n])
      BY <3>1, Zenon DEF updateIngressStatuses
    <3>2. ASSUME NEW n \in Names, Mentioned(want, n)'
          PROVE  IF n \in DOMAIN sync'.news THEN sync'.news[n] # copied'[n] ELSE Settles(n)'
      <4>1. Mentioned(want, n)
        BY <2>0, <3>2, Zenon DEF Mentioned
      <4>2. CASE n \in DOMAIN updateIngressStatuses
        BY <2>0, <2>3, <3>1, <4>1, <4>2, Zenon
      <4>3. CASE n \notin DOMAIN updateIngressStatuses
        <5>1. copied[n] = AddressOf(known[n])
          BY <3>1, <4>1, <4>3, Zenon
        <5>2. Settles(n)'
          BY <2>0, <5>1, Zenon DEF Settles
        <5>3. QED
          BY <2>3, <4>3, <5>2, Zenon
      <4>4. QED
        BY <4>2, <4>3, Zenon
    <3>3. QED
      BY <2>3, <3>2, Zenon DEF StatusInv, NameInv
  <2>4. QED
    BY <1>3, <2>1, <2>2, <2>3, StageStep, Zenon
<1>4. CASE WriteStatuses
  <2>1. ASSUME NEW n \in Names \ unsettled' PROVE NameInv(n)'
    <3>1. /\ NameInv(n) /\ sync.at = "statuses" /\ UNCHANGED <<want, asked, known, copied>>
          /\ sync'.at = "idle"
      BY <1>4, IdleSync, Zenon DEF StatusInv, WriteStatuses
    <3>2. told'[n] = IF n \in DOMAIN sync.news /\ Mentioned(want, n) THEN sync.news[n] ELSE told[n]
      BY <1>4, Zenon DEF WriteStatuses
    <3>3. ASSUME Mentioned(want, n), "full" \notin asked PROVE Settles(n)'
      <4>1. CASE n \in DOMAIN sync.news
        <5>1. told'[n] = sync.news[n] /\ sync.news[n] # copied[n]
          BY <3>1, <3>2, <3>3, <4>1, Zenon DEF NameInv
        <5>2. QED
          BY <3>1, <5>1, Zenon DEF Settles
      <4>2. CASE n \notin DOMAIN sync.news
        <5>1. told'[n] = told[n] /\ Settles(n)
          BY <3>1, <3>2, <3>3, <4>2, Zenon DEF NameInv
        <5>2. QED
          BY <3>1, <5>1, Zenon DEF Settles
      <4>3. QED
        BY <4>1, <4>2, Zenon
    <3>4. QED
      BY <3>1, <3>3, Zenon DEF NameInv, Mentioned
  <2>2. QED
    BY <2>1, Zenon DEF StatusInv
<1>5. CASE Fail
  <2>1. /\ sync' = Idle /\ asked' = asked \cup {sync.kind}
        /\ UNCHANGED <<want, known, told, copied, unsettled>>
    BY <1>5, FailStep, Zenon
  <2>2. CASE sync.kind = "full"
    BY <1>b, <2>1, <2>2, Zenon
  <2>3. CASE sync.kind = "partial"
    BY <1>c, <2>1, <2>3, IdleSync, Zenon
  <2>4. QED
    BY <1>0, <2>2, <2>3, Zenon
<1>6. ASSUME NEW k \in Keys, ApplyListed(k) PROVE StatusInv'
  <2>1. sync.list[k] # None
    BY <1>6, Zenon DEF ApplyListed, SyncInv
  <2>2. /\ sync'.at = sync.at /\ sync'.kind = sync.kind /\ sync'.news = sync.news
        /\ UNCHANGED <<want, asked, known, told, copied, unsettled>>
    BY <1>6, <2>1, ListedStep, Zenon
  <2>3. QED
    BY <1>a, <2>2, Zenon
<1>7. ASSUME NEW k \in Keys, Creates(k) PROVE StatusInv'
  <2>1. sync.want[k] # None
    BY <1>7, Zenon DEF Creates, ApplyLeft, SyncInv
  <2>2. /\ sync'.at = sync.at /\ sync'.kind = sync.kind /\ sync'.news = sync.news
        /\ UNCHANGED <<want, asked, known, told, copied, unsettled>>
    BY <1>7, <2>1, CreateStep, Zenon
  <2>3. QED
    BY <1>a, <2>2, Zenon
<1>8. ASSUME NEW k \in Keys, DeliverEndpoint(k) \/ FinishDeletion(k) PROVE StatusInv'
  <2>1. UNCHANGED <<want, asked, sync, known, told, copied, unsettled>>
    BY <1>8, Zenon DEF DeliverEndpoint, FinishDeletion
  <2>2. QED
    BY <1>a, <2>1, Zenon
<1>9. ASSUME NEW k \in Keys, Interfere(k) PROVE StatusInv'
  <2>1. UNCHANGED <<want, asked, sync, known, told, copied, unsettled>>
    BY <1>9, InterfereStep, Zenon
  <2>2. QED
    BY <1>a, <2>1, Zenon
<1>10. ASSUME NEW n \in Names, DeliverDomain(n) PROVE StatusInv'
  <2>1. UNCHANGED <<want, asked, copied, sync>> /\ known' = [known EXCEPT ![n] = domains[n]]
    BY <1>10, Zenon DEF DeliverDomain
  <2>2. ASSUME NEW j \in Names \ unsettled', j # n PROVE NameInv(j)'
    <3>1. told'[j] = told[j] /\ j \notin unsettled
      BY <1>0, <1>10, <2>2, Zenon DEF DeliverDomain
    <3>2. known'[j] = known[j] /\ NameInv(j)
      BY <1>0, <2>1, <2>2, <3>1, Zenon DEF StatusInv
    <3>3. QED
      BY <2>1, <3>1, <3>2, Zenon DEF NameInv, Mentioned, Settles
  <2>3. ASSUME n \notin unsettled' PROVE NameInv(n)'
    <3>1. known'[n] = domains[n]
      BY <1>0, <2>1, Zenon
    <3>2. Settles(n)' /\ n \notin unsettled
      <4>1. CASE /\ told' = [told EXCEPT ![n] = IF copied[n] = AddressOf(domains[n]) THEN @ ELSE AddressOf(domains[n])]
                 /\ unsettled' = unsettled
        <5>1. told'[n] = IF copied[n] = AddressOf(domains[n]) THEN told[n] ELSE AddressOf(domains[n])
          BY <1>0, <4>1, Zenon
        <5>2. QED
          BY <2>1, <2>3, <3>1, <4>1, <5>1, Zenon DEF Settles
      <4>2. CASE /\ told' = told
                 /\ unsettled' = IF AddressOf(domains[n]) = told[n] THEN unsettled ELSE unsettled \cup {n}
        <5>1. told[n] = AddressOf(domains[n]) /\ n \notin unsettled
          BY <2>3, <4>2, Zenon
        <5>2. QED
          BY <3>1, <4>2, <5>1, Zenon DEF Settles
      <4>3. CASE unsettled' = unsettled \cup {n}
        BY <2>3, <4>3, Zenon
      <4>4. QED
        BY <1>10, <4>1, <4>2, <4>3, Zenon DEF DeliverDomain
    <3>3. NameInv(n)
      BY <3>2, Zenon DEF StatusInv
    <3>4. QED
      BY <2>1, <3>2, <3>3, Zenon DEF NameInv, Mentioned
  <2>4. QED
    BY <2>2, <2>3, Zenon DEF StatusInv
<1>11. ASSUME NEW n \in Names, DeliverIngress(n) PROVE StatusInv'
  BY <1>11, <1>b, Zenon DEF DeliverIngress
<1>12. ASSUME NEW n \in Names, DomainStep(n) PROVE StatusInv'
  <2>1. UNCHANGED <<want, asked, sync, known, told, copied, unsettled>>
    BY <1>12, Zenon DEF DomainStep
  <2>2. QED
    BY <1>a, <2>1, Zenon
<1>13. ASSUME NEW n \in Names, DeleteDomain(n) PROVE StatusInv'
  <2>1. UNCHANGED <<want, asked, sync, known, told, copied>> /\ unsettled \subseteq unsettled'
    BY <1>13, Zenon DEF DeleteDomain
  <2>2. QED
    BY <1>a, <2>1, Zenon
<1>14. CASE EditStore
  <2>1. ASSUME NEW k \in Keys, NEW s \in Specs \cup {None}, NEW kind \in {"full", "partial"},
               kind = "partial" => None \notin {s, want[k]},
               want' = [want EXCEPT ![k] = s],
               asked' = asked \cup {kind},
               told' = [told EXCEPT ![k[2]] = IF ~Mentioned([want EXCEPT ![k] = s], k[2]) THEN None ELSE @],
               copied' = [copied EXCEPT ![k[2]] = IF ~Mentioned([want EXCEPT ![k] = s], k[2]) THEN None ELSE @],
               UNCHANGED <<known, sync, unsettled>>
        PROVE  StatusInv'
    <3>1. CASE kind = "full"
      BY <1>b, <2>1, <3>1, Zenon
    <3>2. CASE kind = "partial"
      <4>1. want'[k] = s /\ s # None /\ want[k] # None
        BY <1>0, <2>1, <3>2, Zenon
      <4>2. Mentioned(want', k[2])
        BY <4>1, Zenon DEF Mentioned
      <4>3. \A n \in Names : told'[n] = told[n] /\ copied'[n] = copied[n]
        BY <1>0, <2>1, <4>2, Zenon
      <4>4. ASSUME NEW n \in Names, Mentioned(want', n) PROVE Mentioned(want, n)
        <5>1. PICK j \in Keys : j[2] = n /\ want'[j] # None
          BY <4>4, Zenon DEF Mentioned
        <5>2. want[j] # None
          BY <1>0, <2>1, <4>1, <5>1, Zenon
        <5>3. QED
          BY <5>1, <5>2, Zenon DEF Mentioned
      <4>5. ASSUME NEW n \in Names \ unsettled' PROVE NameInv(n)'
        <5>1. NameInv(n) /\ ("full" \in asked => "full" \in asked')
          BY <2>1, Zenon DEF StatusInv
        <5>2. Mentioned(want, n)' => Mentioned(want, n)
          BY <4>4, Zenon DEF Mentioned
        <5>3. Settles(n) => Settles(n)'
          BY <2>1, <4>3, Zenon DEF Settles
        <5>4. QED
          BY <2>1, <4>3, <5>1, <5>2, <5>3, Zenon DEF NameInv
      <4>6. QED
        BY <4>5, Zenon DEF StatusInv
    <3>3. QED
      BY <3>1, <3>2, Zenon
  <2>2. QED
    BY <1>14, <2>1, Zenon DEF EditStore
<1>15. CASE Restart
  <2>1. CASE asked' = {"full"}
    BY <1>b, <2>1, Zenon
  <2>2. CASE ~\E n \in Names : Mentioned(want, n)
    <3>1. want' = want
      BY <1>15, Zenon DEF Restart
    <3>2. \A n \in Names : ~Mentioned(want, n)'
      BY <2>2, <3>1, Zenon DEF Mentioned
    <3>3. QED
      BY <3>2, Zenon DEF StatusInv, NameInv
  <2>3. QED
    BY <1>15, <2>1, <2>2, Zenon DEF Restart
<1>16. QED
  BY <1>1, <1>2, <1>3, <1>4, <1>5, <1>6, <1>7, <1>8, <1>9, <1>10, <1>11, <1>12, <1>13, <1>14, <1>15,
     Steps, Zenon

(***************************************************************************)
(* What a sync leaves alone.                                               *)
(***************************************************************************)
LEMMA Spares ==
    ASSUME TypeOK, SyncInv, Next
    PROVE  SparesOthers
<1> USE DEF cluster, ghosts, Others
<1>0. SUFFICES ASSUME NEW k \in Keys \ drifted, sync' # sync, endpoints[k] # None,
                      endpoints[k].owner # "operator" \/ endpoints[k].spec = sync.want[k]
               PROVE  endpoints'[k] = endpoints[k]
  BY Zenon DEF SparesOthers
<1>1. CASE \E kind \in {"full", "partial"} : Start(kind)
  BY <1>1, Zenon DEF Start
<1>2. CASE applyDomains \/ NextStage \/ WriteStatuses \/ Fail \/ EditStore \/ Restart
  BY <1>2, Zenon DEF applyDomains, NextStage, WriteStatuses, Fail, EditStore, Restart
<1>3. ASSUME NEW j \in Keys, ApplyListed(j) PROVE endpoints'[k] = endpoints[k]
  <2>0. j \in sync.todo /\ sync.list[j] # None
    BY <1>3, Zenon DEF ApplyListed, SyncInv
  <2>1. CASE j # k
    BY <1>3, <2>0, <2>1, ListedStep, Zenon
  <2>2. CASE j = k
    <3>1. KeyInv(k) /\ Pending(k)
      BY <2>0, <2>2, Zenon DEF SyncInv, Pending
    <3>2. endpoints[k] = sync.list[k] /\ endpoints[k] \in Endpoint
      BY <2>0, <2>2, <3>1, Zenon DEF KeyInv, Faithful, TypeOK
    <3>3. CASE endpoints' = endpoints
      BY <3>3, Zenon
    <3>4. CASE endpoints' # endpoints
      <4>1. shouldBeSkippedInApply(sync.list[k]) => endpoints' = endpoints
        BY <1>3, <2>2, Zenon DEF ApplyListed
      <4>2. sync.list[k].owner = "operator"
        BY <3>4, <4>1, Zenon DEF shouldBeSkippedInApply
      <4>3. sync.list[k].spec = sync.want[k]
        BY <1>0, <3>2, <4>2, Zenon
      <4>4. sync.want[k] # None
        <5>1. sync.list[k].spec \in Specs
          BY <3>2, Zenon DEF Endpoint
        <5>2. QED
          BY <4>3, <5>1, EndpointAssumption, Zenon
      <4>5. QED
        BY <1>3, <2>2, <3>4, <4>2, <4>3, <4>4, Zenon DEF ApplyListed, shouldBeSkippedInApply
    <3>5. QED
      BY <3>3, <3>4, Zenon
  <2>3. QED
    BY <2>1, <2>2, Zenon
<1>4. ASSUME NEW j \in Keys, Creates(j) PROVE endpoints'[k] = endpoints[k]
  <2>1. sync.want[j] # None
    BY <1>4, Zenon DEF Creates, ApplyLeft, SyncInv
  <2>2. endpoints[j] = None /\ \A i \in Keys : i # j => endpoints'[i] = endpoints[i]
    BY <1>4, <2>1, CreateStep, Zenon
  <2>3. QED
    BY <1>0, <2>2, Zenon
<1>5. ASSUME NEW j \in Keys, DeliverEndpoint(j) \/ FinishDeletion(j) \/ Interfere(j)
      PROVE  endpoints'[k] = endpoints[k]
  <2>1. sync' = sync
    BY <1>5, Zenon DEF DeliverEndpoint, FinishDeletion, Interfere
  <2>2. QED
    BY <1>0, <2>1, Zenon
<1>6. ASSUME NEW n \in Names, DeliverDomain(n) \/ DeliverIngress(n) \/ DomainStep(n) \/ DeleteDomain(n)
      PROVE  endpoints'[k] = endpoints[k]
  BY <1>6, Zenon DEF DeliverDomain, DeliverIngress, DomainStep, DeleteDomain
<1>7. QED
  BY <1>1, <1>2, <1>3, <1>4, <1>5, <1>6, Steps, Zenon

(***************************************************************************)
(* The theorems.                                                           *)
(***************************************************************************)
EndpointInv == TypeOK /\ SyncInv /\ StatusInv

LEMMA EndpointInit == Init => EndpointInv
<1> SUFFICES ASSUME Init PROVE EndpointInv
  OBVIOUS
<1> USE DEF Init
<1>0. sync.at = "idle" /\ sync.todo = {} /\ sync.left = {} /\ sync \in Syncs
  BY IdleSync, Zenon
<1>1. TypeOK
  <2>1. events \in 0..MaxEvents
    BY EndpointAssumption
  <2>2. QED
    BY <1>0, <2>1, Zenon DEF TypeOK
<1>2. SyncInv
  <2>1. \A k \in Keys : ~Pending(k) /\ ~Done(k)
    BY <1>0, KeyParts, Zenon DEF Pending, Done, Kinds
  <2>2. \A k \in Keys : InOrder(k)
    BY Zenon DEF InOrder
  <2>3. QED
    BY <1>0, <2>1, <2>2, Zenon DEF SyncInv, KeyInv
<1>3. StatusInv
  <2>1. \A n \in Names : ~Mentioned(want, n)
    BY Zenon DEF Mentioned
  <2>2. QED
    BY <2>1, Zenon DEF StatusInv, NameInv
<1>4. QED
  BY <1>1, <1>2, <1>3, Zenon DEF EndpointInv

LEMMA EndpointStutters ==
    ASSUME EndpointInv, UNCHANGED endpointVars
    PROVE  EndpointInv' /\ SparesOthers
<1>1. UNCHANGED <<want, asked, endpoints, listed, domains, known, told, copied, sync, drifted, unsettled, events>>
  BY Zenon DEF endpointVars, cluster, ghosts
<1>2. TypeOK'
  BY <1>1, Zenon DEF EndpointInv, TypeOK
<1>3. SyncInv'
  BY <1>1, Zenon DEF EndpointInv, SyncInv, KeyInv, Pending, Done, Faithful, Applied, InOrder
<1>4. StatusInv'
  BY <1>1, Zenon DEF EndpointInv, StatusInv, NameInv, Mentioned, Settles
<1>5. SparesOthers
  BY <1>1, Zenon DEF SparesOthers
<1>6. QED
  BY <1>2, <1>3, <1>4, <1>5, Zenon DEF EndpointInv

\* The inductive invariant of the sync (Driver.Sync, Driver.SyncEndpoints) and of those
\* who write the same objects: types; every key that has not drifted is as it was listed
\* while the loops have yet to come to it and as it was wanted once they have passed it;
\* and a status that is wrong will be written or delivered once more.
THEOREM EndpointInvariant == Spec => []EndpointInv
<1>1. EndpointInv /\ [Next]_endpointVars => EndpointInv'
  BY NextTypes, SyncInvNext, StatusInvNext, EndpointStutters, Zenon DEF EndpointInv
<1>2. QED
  BY EndpointInit, <1>1, PTL DEF Spec

\* When the last sync asked for has returned, every endpoint that the sync's one list
\* showed as it is, and that nobody else has written since, is as the store wants it
\* (applyAgentEndpoints, applyCloudEndpoints, and the retry of a sync that failed), for
\* any hosts and specs and any number of edits, conflicts and restarts.
THEOREM SyncConverges == Spec => []EndpointsConverge
<1>1. EndpointInv => EndpointsConverge
  BY Zenon DEF EndpointInv, SyncInv, EndpointsConverge, AtRest
<1>2. QED
  BY EndpointInvariant, <1>1, PTL

\* No step of a sync writes or deletes an endpoint that is the user's or the Service
\* controller's (shouldBeSkippedInApply), or one of the operator's that is as wanted,
\* unless the sync's list showed the key wrongly.
THEOREM SyncSparesOthers == Spec => OthersSpared
<1>1. EndpointInv /\ [Next]_endpointVars => [SparesOthers]_endpointVars
  BY Spares, EndpointStutters, Zenon DEF EndpointInv
<1>2. QED
  BY EndpointInvariant, <1>1, PTL DEF Spec, OthersSpared

\* At rest the status of an Ingress names the address of its Domain, although the sync
\* and the handler of Domain updates both compute it from the cache, compare it with the
\* store's copy and write it later (updateIngressStatuses).
THEOREM StatusNamesAddress == Spec => []AddressTold
<1>1. EndpointInv => AddressTold
  <2>1. ASSUME EndpointInv, AtRest, NEW n \in Names \ unsettled, Mentioned(want, n), known[n] = domains[n]
        PROVE  told[n] = AddressOf(domains[n])
    <3>1. NameInv(n) /\ "full" \notin asked /\ sync.at = "idle" /\ told[n] = copied[n]
      BY <2>1, Zenon DEF EndpointInv, StatusInv, AtRest
    <3>2. QED
      BY <2>1, <3>1, Zenon DEF NameInv, Settles
  <2>2. QED
    BY <2>1, Zenon DEF AddressTold
<1>2. QED
  BY EndpointInvariant, <1>1, PTL

==============================================================================
