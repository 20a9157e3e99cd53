----------------------- MODULE ServiceControllerProofs -----------------------
(***************************************************************************)
(* Proofs about the Service controller.                                    *)
(*                                                                         *)
(* A reconcile may end without asking for another.  The invariant says     *)
(* what is then true, in terms of the caches: as long as no request is     *)
(* queued, the caches are those the last reconcile started from, up to the *)
(* events that no watch passes on.                                         *)
(***************************************************************************)
EXTENDS ServiceController, TLAPS

(***************************************************************************)
(* The invariant.                                                          *)
(***************************************************************************)
Updates == {"register", "build", "annotate", "clear", "apply", "status"}
Removals == {"cleanup", "release"}

Handled(s) == s # None /\ shouldHandleService(s)
Unhandled(s) == s # None /\ ~shouldHandleService(s)
Wanted(s) == Handled(s) /\ s.spec.ports /\ ~s.deleting

\* A version that the controller handles has yet to be delivered.
HandledAhead == \E i \in DOMAIN serviceFeed : Handled(serviceFeed[i])

\* The cache has an endpoint that is not what it was, or will not be.
Stale(n) == endpointsSeen[n] # None /\ (endpointsSeen[n] # endpoints[n] \/ endpointsSeen[n].deleting)
SomeStale == \E n \in Names : Stale(n)

\* The feed of the Service.
DeletingAt(s) == s # None /\ s.deleting => s.finalizer /\ (service = None \/ service.deleting)
FeedInv ==
    /\ serviceFeed = <<>> => serviceSeen = service
    /\ serviceFeed # <<>> => serviceFeed[Len(serviceFeed)] = service
    /\ \A i \in DOMAIN serviceFeed : serviceFeed[i] = None => i = Len(serviceFeed)
    /\ DeletingAt(service) /\ DeletingAt(serviceSeen)
    /\ \A i \in DOMAIN serviceFeed : DeletingAt(serviceFeed[i])

\* A Service that the controller has not heard of, or that is gone.
Unborn ==
    /\ rec = NoRec /\ ~queued
    /\ \A n \in Names : endpoints[n] = None /\ endpointsSeen[n] = None
    /\ service # None => ~service.finalizer
    /\ \A i \in DOMAIN serviceFeed : serviceFeed[i] # None => ~serviceFeed[i].finalizer
BirthInv == serviceSeen = None => (serviceFeed = <<>> /\ service = None) \/ Unborn

\* Where a finalizer on an unhandled Service comes from.
Kept == ~forgotten /\ Unhandled(service) /\ service.finalizer
FinalizerInv ==
    Kept =>
       /\ serviceSeen # None => serviceSeen.finalizer \/ Handled(serviceSeen) \/ HandledAhead
       /\ \A i \in DOMAIN serviceFeed :
             \/ serviceFeed[i] # None /\ serviceFeed[i].finalizer
             \/ \E j \in DOMAIN serviceFeed : j >= i /\ Handled(serviceFeed[j])

\* What a reconcile knows, whatever happens meanwhile.
CopyInv ==
    rec.pc # "idle" =>
       /\ rec.fresh => rec.svc = service
       /\ DeletingAt(rec.svc)
       /\ rec.pc = "annotate" =>
             /\ rec.url # None /\ rec.url # rec.svc.computed
             /\ rec.svc.computed = None \/ rec.svc.spec.url = TLS
       /\ rec.pc = "clear" =>
             /\ rec.svc.computed # None /\ rec.svc.computed \notin reserved
             /\ rec.url = rec.svc.computed
       /\ rec.pc = "status" => rec.status # rec.svc.status
       /\ rec.pc \in Updates \ {"register"} => rec.svc.finalizer

\* The computed URL is of the kind the Service asks for.
Computed(s) == s.computed # None /\ (s.computed = TLS <=> s.spec.url = TLS)

Ask(k) == Desired(serviceSeen, serviceSeen.computed, policySeen)[k]
Single(k) == Ask(k) # None /\ Alone(Owned(k))
Fits(k) == \A n \in Owned(k) : Merge(endpointsSeen[n], Ask(k)) = endpointsSeen[n]

\* What the plan for a kind has still to do, and what is done is waiting to be seen.
Carried(k) ==
    IF Single(k)
    THEN \/ rec.plan[k].write = Ask(k) /\ rec.plan[k].at \in Owned(k)
         \/ rec.plan[k] = Nothing /\ (SomeStale \/ Fits(k))
    ELSE rec.plan[k].at = None /\ \A n \in Owned(k) : n \in rec.plan[k].delete \/ Stale(n)

UpdateInv ==
    ~queued /\ rec.pc \in Updates =>
       /\ Wanted(serviceSeen)
       /\ serviceFeed = <<>> =>
             /\ rec.svc = serviceSeen
             /\ rec.pc \in {"apply", "status"} => Computed(rec.svc)
             /\ rec.pc = "apply" /\ ~rec.failed => \A k \in Kinds : Carried(k)

OwnedInv == ~queued /\ rec.pc # "idle" => \A k \in Kinds : rec.owned[k] = Owned(k)

RemovalInv ==
    ~queued /\ rec.pc \in Removals =>
       /\ serviceSeen # None
       /\ Handled(serviceSeen) => serviceSeen.deleting /\ rec.svc.deleting
       /\ rec.pc = "cleanup" /\ ~rec.failed =>
             \A k \in Kinds : \A n \in Owned(k) : n \in rec.plan[k].delete \/ Stale(n)
       /\ rec.pc = "release" => \A n \in Existing(endpointsSeen) : Stale(n)
       /\ Kept /\ Unhandled(serviceSeen) /\ ~HandledAhead => rec.svc.finalizer

\* The endpoints in the cache are those of the strategy.
Settled == \A k \in Kinds : IF Ask(k) = None THEN Owned(k) = {} ELSE Single(k) /\ Fits(k)

\* The status is that of the Domain, unless its endpoint has yet to tell.
Published(n) ==
    LET ref == endpointsSeen[n].domainRef IN
    IF serviceSeen.computed = TLS
    THEN misread \/ ref = 0 \/ serviceSeen.status = domain
         \/ (ref = 1 /\ serviceSeen.status = "plain" /\ domain = "cname")
    ELSE serviceSeen.status = serviceSeen.computed

RestInv ==
    ~queued /\ rec.pc = "idle" =>
       /\ Unhandled(serviceSeen) => SomeStale \/ Existing(endpointsSeen) = {}
       /\ Unhandled(serviceSeen) /\ ~HandledAhead => ~Kept
       /\ Handled(serviceSeen) /\ serviceSeen.deleting => service = None
       /\ Wanted(serviceSeen) /\ serviceFeed = <<>> =>
             /\ serviceSeen.finalizer /\ Computed(serviceSeen)
             /\ SomeStale \/ (Settled /\ \E n \in StatusObject(serviceSeen) : Published(n))

\* A domainRef tells of a Domain.
RefInv ==
    \A n \in Names : \A e \in {endpoints[n], endpointsSeen[n]} : e # None =>
       /\ e.domainRef > 0 => domain # None
       /\ e.domainRef = 2 => domain = "cname"

\* The cache is behind: a status only grows and a deletion is not undone.
OrderInv ==
    \A n \in Names : endpointsSeen[n] # None /\ endpoints[n] # None =>
       /\ endpointsSeen[n].domainRef <= endpoints[n].domainRef
       /\ endpointsSeen[n].deleting => endpoints[n].deleting

ServiceInv ==
    /\ ServiceTypeOK /\ FeedInv /\ BirthInv /\ FinalizerInv /\ CopyInv /\ UpdateInv /\ OwnedInv
    /\ RemovalInv /\ RestInv /\ RefInv /\ OrderInv

(***************************************************************************)
(* Types.                                                                  *)
(***************************************************************************)
Versions == Services \cup {None}
Statuses == Addrs \cup {"plain", "cname", None}

LEMMA ServiceFields ==
    ASSUME NEW s \in Services
    PROVE  /\ s # None /\ s.spec \in Specs
           /\ s.finalizer \in BOOLEAN /\ s.deleting \in BOOLEAN
           /\ s.computed \in Addrs \cup {TLS, None} /\ s.status \in Statuses
  BY ServiceAssumption, Zenon DEF Services, Statuses

LEMMA EndpointFields ==
    ASSUME NEW e \in Endpoints
    PROVE  /\ e # None /\ e.kind \in Kinds /\ e.url \in Addrs \cup {TLS, "internal"}
           /\ e.policy \in Policies \cup {None} /\ e.domainRef \in 0..2 /\ e.deleting \in BOOLEAN
  BY ServiceAssumption, Zenon DEF Endpoints

LEMMA NewFields ==
    ASSUME NEW e \in NewEndpoints
    PROVE  e \in Endpoints /\ e # None /\ e.domainRef = 0 /\ e.deleting = FALSE
  BY EndpointFields, Zenon DEF NewEndpoints

LEMMA NoRecFacts ==
    /\ NoRec.pc = "idle" /\ NoRec \notin Recs /\ NoRec.fresh = FALSE
    /\ NoRec.plan = [k \in Kinds |-> Nothing] /\ NoRec.failed = FALSE
    /\ NoRec.owned = [k \in Kinds |-> {}]
<1>1. NoRec.pc = "idle" /\ NoRec.fresh = FALSE /\ NoRec.plan = [k \in Kinds |-> Nothing]
      /\ NoRec.failed = FALSE /\ NoRec.owned = [k \in Kinds |-> {}]
  BY Zenon DEF NoRec
<1>2. "idle" \notin Steps
  BY DEF Steps
<1>3. QED
  BY <1>1, <1>2, Zenon DEF Recs

LEMMA RecFields ==
    ASSUME NEW r \in Recs
    PROVE  /\ r.pc \in Steps /\ r.pc # "idle" /\ r.svc \in Services /\ r.fresh \in BOOLEAN
           /\ r.owned \in [Kinds -> SUBSET Names] /\ r.url \in Addrs \cup {TLS, None}
           /\ r.policy \in Policies \cup {None} /\ r.plan \in [Kinds -> Plans]
           /\ r.failed \in BOOLEAN /\ r.status \in Statuses
<1>1. "idle" \notin Steps
  BY DEF Steps
<1>2. QED
  BY <1>1, Zenon DEF Recs, Statuses

LEMMA ServiceTypes ==
    ASSUME ServiceTypeOK
    PROVE  /\ service \in Versions /\ serviceSeen \in Versions
           /\ serviceFeed \in Seq(Versions)
           /\ endpoints \in [Names -> Endpoints \cup {None}]
           /\ endpointsSeen \in [Names -> Endpoints \cup {None}]
           /\ policy \in Policies \cup {None} /\ policySeen \in Policies \cup {None}
           /\ domain \in {"plain", "cname", None} /\ domainSeen \in {"plain", "cname", None}
           /\ reserved \in SUBSET Addrs
           /\ queued \in BOOLEAN /\ forgotten \in BOOLEAN /\ misread \in BOOLEAN
           /\ rec \in Recs \cup {NoRec}
           /\ events \in 0..MaxEvents
  BY Zenon DEF ServiceTypeOK, Versions

LEMMA RecTypes ==
    ASSUME ServiceTypeOK
    PROVE  /\ rec.pc = "idle" <=> rec = NoRec
           /\ rec.pc # "idle" => rec \in Recs
<1>1. rec \in Recs \cup {NoRec}
  BY ServiceTypes, Zenon
<1>2. rec \in Recs => rec.pc # "idle"
  BY RecFields, Zenon
<1>3. QED
  BY <1>1, <1>2, NoRecFacts, Zenon

LEMMA EndpointTypes ==
    ASSUME ServiceTypeOK, NEW n \in Names
    PROVE  /\ endpoints[n] \in Endpoints \cup {None} /\ endpointsSeen[n] \in Endpoints \cup {None}
           /\ endpoints[n] # None => endpoints[n] \in Endpoints
           /\ endpointsSeen[n] # None => endpointsSeen[n] \in Endpoints
<1>1. endpoints \in [Names -> Endpoints \cup {None}] /\ endpointsSeen \in [Names -> Endpoints \cup {None}]
  BY ServiceTypes, Zenon
<1>2. endpoints[n] \in Endpoints \cup {None} /\ endpointsSeen[n] \in Endpoints \cup {None}
  BY <1>1, Zenon
<1>3. QED
  BY <1>2, Zenon

LEMMA KindFacts ==
    /\ "cloud" \in Kinds /\ "agent" \in Kinds /\ "cloud" # "agent"
    /\ \A k \in Kinds : k = "cloud" \/ k = "agent"
  BY DEF Kinds

(***************************************************************************)
(* An endpoint in the API server, as time goes on.                         *)
(***************************************************************************)
Condemned(n) ==
    /\ endpoints[n] # None /\ endpoints'[n] # None
    /\ endpoints'[n].deleting /\ ~endpoints[n].deleting
    /\ endpoints'[n].domainRef = endpoints[n].domainRef
Referred(n) ==
    /\ endpoints[n] # None /\ endpoints'[n] # None
    /\ endpoints'[n].deleting = endpoints[n].deleting
    /\ endpoints'[n].domainRef = endpoints[n].domainRef + 1
    /\ domain' # None /\ (endpoints'[n].domainRef = 2 => domain' = "cname")
Rewritten(n) ==
    /\ endpoints[n] # None /\ endpoints[n] = endpointsSeen[n] /\ endpoints'[n] # None
    /\ endpoints'[n].deleting = endpoints[n].deleting
    /\ endpoints'[n].domainRef = endpoints[n].domainRef
Created(n) ==
    /\ endpoints[n] = None /\ endpointsSeen[n] = None
    /\ endpoints'[n] # None /\ endpoints'[n].domainRef = 0
Ages(n) ==
    \/ endpoints'[n] = endpoints[n] \/ endpoints'[n] = None
    \/ Condemned(n) \/ Referred(n) \/ Rewritten(n) \/ Created(n)

DomainMoves ==
    \/ domain' = domain
    \/ domain = None /\ domain' = "plain"
    \/ domain = "plain" /\ domain' = "cname"

\* The endpoints move on and the cache does not follow.
EndpointsAge == endpointsSeen' = endpointsSeen /\ DomainMoves /\ \A n \in Names : Ages(n)

LEMMA CondemnStep ==
    ASSUME ServiceTypeOK, NEW n \in Names, endpoints[n] # None,
           endpoints' = [endpoints EXCEPT ![n].deleting = TRUE]
    PROVE  /\ endpoints' \in [Names -> Endpoints \cup {None}]
           /\ endpoints'[n] # None /\ endpoints'[n].deleting
           /\ \A m \in Names : Ages(m)
<1>1. endpoints \in [Names -> Endpoints \cup {None}]
  BY ServiceTypes, Zenon
<1>2. PICK e \in Endpoints : endpoints[n] = e
  BY EndpointTypes, Zenon
<1> DEFINE f == [e EXCEPT !.deleting = TRUE]
<1>3. endpoints' = [endpoints EXCEPT ![n] = f]
  BY <1>1, <1>2
<1>4. f \in Endpoints /\ f # None
  BY ServiceAssumption, Zenon DEF Endpoints
<1>5. f.deleting /\ f.domainRef = e.domainRef
  BY Zenon DEF Endpoints
<1>6. e.deleting => f = e
  BY DEF Endpoints
<1> HIDE DEF f
<1>7. endpoints' \in [Names -> Endpoints \cup {None}] /\ endpoints'[n] = f
      /\ \A m \in Names : m # n => endpoints'[m] = endpoints[m]
  BY <1>1, <1>3, <1>4, Zenon
<1>8. Ages(n)
  <2>1. CASE e.deleting
    BY <1>2, <1>6, <1>7, <2>1, Zenon DEF Ages
  <2>2. CASE ~e.deleting
    BY <1>2, <1>4, <1>5, <1>7, <2>2, Zenon DEF Ages, Condemned
  <2>3. QED
    BY <2>1, <2>2
<1>9. QED
  BY <1>4, <1>5, <1>7, <1>8, Zenon DEF Ages

LEMMA StaleStays ==
    ASSUME ServiceTypeOK, OrderInv, NEW n \in Names, Stale(n), Ages(n), endpointsSeen' = endpointsSeen
    PROVE  Stale(n)'
<1>1. PICK e \in Endpoints : endpointsSeen[n] = e /\ endpointsSeen'[n] = e
  BY EndpointTypes, Zenon DEF Stale
<1>2. e # None /\ e.domainRef \in 0..2
  BY EndpointFields, Zenon
<1>3. CASE e.deleting
  BY <1>1, <1>2, <1>3, Zenon DEF Stale
<1>4. CASE ~e.deleting
  <2>1. endpoints[n] # e
    BY <1>1, <1>4, Zenon DEF Stale
  <2>2. SUFFICES endpoints'[n] # e
    BY <1>1, <1>2, Zenon DEF Stale
  <2>3. CASE endpoints'[n] = endpoints[n] \/ endpoints'[n] = None
    BY <1>2, <2>1, <2>3, Zenon
  <2>4. CASE Condemned(n)
    BY <1>4, <2>4, Zenon DEF Condemned
  <2>5. CASE Referred(n)
    <3>1. e.domainRef <= endpoints[n].domainRef /\ endpoints[n].domainRef \in 0..2
      BY <1>1, <1>2, <2>5, EndpointTypes, EndpointFields, Zenon DEF OrderInv, Referred
    <3>2. endpoints'[n].domainRef = endpoints[n].domainRef + 1
      BY <2>5, Zenon DEF Referred
    <3>3. endpoints'[n].domainRef # e.domainRef
      BY <1>2, <3>1, <3>2
    <3>4. QED
      BY <3>3
  <2>6. CASE Rewritten(n) \/ Created(n)
    BY <1>1, <1>2, <2>1, <2>6, Zenon DEF Rewritten, Created
  <2>7. QED
    BY <2>3, <2>4, <2>5, <2>6, Zenon DEF Ages
<1>5. QED
  BY <1>3, <1>4

LEMMA SomeStaleStays ==
    ASSUME ServiceTypeOK, OrderInv, EndpointsAge
    PROVE  /\ \A n \in Names : Stale(n) => Stale(n)'
           /\ SomeStale => SomeStale'
<1>1. \A n \in Names : Stale(n) => Stale(n)'
  BY StaleStays, Zenon DEF EndpointsAge
<1>2. QED
  BY <1>1, Zenon DEF SomeStale

LEMMA OrderKept ==
    ASSUME ServiceTypeOK, ServiceTypeOK', OrderInv, EndpointsAge
    PROVE  OrderInv'
<1>1. SUFFICES ASSUME NEW n \in Names, endpointsSeen'[n] # None, endpoints'[n] # None
               PROVE  /\ endpointsSeen'[n].domainRef <= endpoints'[n].domainRef
                      /\ endpointsSeen'[n].deleting => endpoints'[n].deleting
  BY Zenon DEF OrderInv
<1>2. endpointsSeen'[n] = endpointsSeen[n] /\ endpointsSeen[n] # None /\ Ages(n)
  BY <1>1, Zenon DEF EndpointsAge
<1>3. endpointsSeen[n].domainRef \in 0..2
  BY <1>2, EndpointTypes, EndpointFields, Zenon
<1>4. CASE endpoints[n] = None
  BY <1>1, <1>2, <1>4, Zenon DEF Ages, Condemned, Referred, Rewritten, Created
<1>5. CASE endpoints[n] # None
  <2>1. /\ endpointsSeen[n].domainRef <= endpoints[n].domainRef
        /\ endpointsSeen[n].deleting => endpoints[n].deleting
    BY <1>2, <1>5, Zenon DEF OrderInv
  <2>2. endpoints[n].domainRef \in 0..2
    BY <1>5, EndpointTypes, EndpointFields, Zenon
  <2>3. CASE Referred(n)
    <3>1. /\ endpoints'[n].domainRef = endpoints[n].domainRef + 1
          /\ endpoints'[n].deleting = endpoints[n].deleting
      BY <2>3, Zenon DEF Referred
    <3>2. QED
      BY <1>2, <1>3, <2>1, <2>2, <3>1
  <2>4. CASE ~Referred(n)
    <3>1. endpoints'[n].domainRef = endpoints[n].domainRef
      BY <1>1, <1>2, <1>5, <2>4, Zenon DEF Ages, Condemned, Rewritten, Created
    <3>2. endpoints[n].deleting => endpoints'[n].deleting
      BY <1>1, <1>2, <1>5, <2>4, Zenon DEF Ages, Condemned, Rewritten, Created
    <3>3. QED
      BY <1>2, <2>1, <3>1, <3>2, Zenon
  <2>5. QED
    BY <2>3, <2>4
<1>6. QED
  BY <1>4, <1>5

LEMMA DomainStays ==
    ASSUME DomainMoves
    PROVE  (domain # None => domain' # None) /\ (domain = "cname" => domain' = "cname")
<1>1. "plain" # None /\ "cname" # None
  BY ServiceAssumption
<1>2. "plain" # "cname"
  OBVIOUS
<1>3. QED
  BY <1>1, <1>2, Zenon DEF DomainMoves

LEMMA RefKept ==
    ASSUME ServiceTypeOK, RefInv, EndpointsAge
    PROVE  RefInv'
<1>1. DomainMoves
  BY Zenon DEF EndpointsAge
<1>2. (domain # None => domain' # None) /\ (domain = "cname" => domain' = "cname")
  BY <1>1, DomainStays, Zenon
<1>3. SUFFICES ASSUME NEW n \in Names, NEW e \in {endpoints'[n], endpointsSeen'[n]}, e # None
               PROVE  /\ e.domainRef > 0 => domain' # None
                      /\ e.domainRef = 2 => domain' = "cname"
  BY Zenon DEF RefInv
<1>4. Ages(n) /\ endpointsSeen'[n] = endpointsSeen[n]
  BY Zenon DEF EndpointsAge
<1>5. ASSUME e.domainRef = 0 PROVE ~(e.domainRef > 0) /\ e.domainRef # 2
  BY <1>5
<1>6. CASE e = endpointsSeen[n]
  BY <1>2, <1>3, <1>6, Zenon DEF RefInv
<1>7. CASE e = endpoints'[n] /\ Referred(n)
  BY <1>7, Zenon DEF Referred
<1>8. CASE e = endpoints'[n] /\ Created(n)
  BY <1>5, <1>8, Zenon DEF Created
<1>9. CASE e = endpoints'[n] /\ ~Referred(n) /\ ~Created(n)
  <2>1. endpoints[n] # None /\ e.domainRef = endpoints[n].domainRef
    BY <1>3, <1>4, <1>9, Zenon DEF Ages, Condemned, Rewritten
  <2>2. QED
    BY <1>2, <2>1, Zenon DEF RefInv
<1>10. QED
  BY <1>3, <1>4, <1>6, <1>7, <1>8, <1>9, Zenon

(***************************************************************************)
(* The versions of the Service.                                            *)
(***************************************************************************)

\* A write of the Service: a deletion is not undone and keeps the finalizer, and a
\* finalizer is put on an unhandled Service only by a reconcile that is then forgotten.
VersionMoves ==
    /\ service # None /\ service' \in Versions
    /\ serviceFeed' = IF service' = service THEN serviceFeed ELSE Append(serviceFeed, service')
    /\ service' # None => /\ service'.deleting => service'.finalizer
                          /\ service.deleting => service'.deleting
    /\ ~forgotten' /\ Unhandled(service') /\ service'.finalizer => service.finalizer \/ Handled(service)
VersionStays == UNCHANGED <<service, serviceFeed>>
VersionStep ==
    /\ VersionMoves \/ VersionStays
    /\ serviceSeen' = serviceSeen
    /\ forgotten => forgotten'

FeedGrows ==
    /\ \A i \in DOMAIN serviceFeed : i \in DOMAIN serviceFeed' /\ serviceFeed'[i] = serviceFeed[i]
    /\ \A i \in DOMAIN serviceFeed' : i \in DOMAIN serviceFeed \/ (i = Len(serviceFeed') /\ serviceFeed'[i] = service')
    /\ service' # service =>
          /\ serviceFeed' # <<>> /\ Len(serviceFeed') \in DOMAIN serviceFeed'
          /\ serviceFeed'[Len(serviceFeed')] = service'
          /\ \A i \in DOMAIN serviceFeed : i <= Len(serviceFeed')
    /\ service' = service => serviceFeed' = serviceFeed

LEMMA FeedTypes ==
    ASSUME ServiceTypeOK
    PROVE  /\ \A i \in DOMAIN serviceFeed : serviceFeed[i] \in Versions
           /\ serviceFeed # <<>> => Len(serviceFeed) \in DOMAIN serviceFeed
           /\ \A i \in DOMAIN serviceFeed : i \in Nat /\ i >= 1 /\ i <= Len(serviceFeed)
           /\ Len(serviceFeed) \in Nat
<1>1. serviceFeed \in Seq(Versions)
  BY ServiceTypes, Zenon
<1>2. QED
  BY <1>1

LEMMA AppendGrows ==
    ASSUME ServiceTypeOK, service' \in Versions,
           serviceFeed' = IF service' = service THEN serviceFeed ELSE Append(serviceFeed, service')
    PROVE  serviceFeed' \in Seq(Versions) /\ FeedGrows
<1>1. serviceFeed \in Seq(Versions)
  BY ServiceTypes, Zenon
<1>2. CASE service' = service
  <2>1. serviceFeed' = serviceFeed
    BY <1>2
  <2>2. QED
    BY <1>1, <1>2, <2>1, Zenon DEF FeedGrows
<1>3. CASE service' # service
  <2> DEFINE q == Append(serviceFeed, service')
  <2>1. serviceFeed' = q
    BY <1>3
  <2>2. /\ q \in Seq(Versions) /\ Len(q) = Len(serviceFeed) + 1 /\ q # <<>>
        /\ DOMAIN q = 1..Len(q) /\ DOMAIN serviceFeed = 1..Len(serviceFeed) /\ Len(serviceFeed) \in Nat
        /\ q[Len(q)] = service'
        /\ \A i \in 1..Len(serviceFeed) : q[i] = serviceFeed[i]
    BY <1>1
  <2> HIDE DEF q
  <2>3. /\ \A i \in DOMAIN serviceFeed : i \in DOMAIN q /\ i <= Len(q)
        /\ \A i \in DOMAIN q : i \in DOMAIN serviceFeed \/ i = Len(q)
        /\ Len(q) \in DOMAIN q
    BY <2>2
  <2>4. QED
    BY <1>3, <2>1, <2>2, <2>3, Zenon DEF FeedGrows
<1>4. QED
  BY <1>2, <1>3

LEMMA VersionGrows ==
    ASSUME ServiceTypeOK, VersionStep
    PROVE  service' \in Versions /\ serviceFeed' \in Seq(Versions) /\ FeedGrows
<1>1. CASE VersionMoves
  BY <1>1, AppendGrows, Zenon DEF VersionMoves
<1>2. CASE VersionStays
  <2>1. service' = service /\ serviceFeed' = serviceFeed
    BY <1>2, Zenon DEF VersionStays
  <2>2. service \in Versions
    BY ServiceTypes, Zenon
  <2>3. serviceFeed' = IF service' = service THEN serviceFeed ELSE Append(serviceFeed, service')
    BY <2>1
  <2>4. QED
    BY <2>1, <2>2, <2>3, AppendGrows, Zenon
<1>3. QED
  BY <1>1, <1>2, Zenon DEF VersionStep

\* What has been seen of a deletion stays true.
LEMMA DeletingKept ==
    ASSUME VersionStep, NEW s, DeletingAt(s)
    PROVE  s # None /\ s.deleting => s.finalizer /\ (service' = None \/ service'.deleting)
<1>1. CASE VersionMoves
  BY <1>1, Zenon DEF VersionMoves, DeletingAt
<1>2. CASE VersionStays
  BY <1>2, Zenon DEF VersionStays, DeletingAt
<1>3. QED
  BY <1>1, <1>2, Zenon DEF VersionStep

LEMMA NewDeleting ==
    ASSUME VersionStep, FeedInv
    PROVE  DeletingAt(service)'
<1>1. CASE VersionMoves
  BY <1>1, Zenon DEF VersionMoves, DeletingAt
<1>2. CASE VersionStays
  BY <1>2, Zenon DEF VersionStays, DeletingAt, FeedInv
<1>3. QED
  BY <1>1, <1>2, Zenon DEF VersionStep

LEMMA FeedStep ==
    ASSUME ServiceTypeOK, FeedInv, VersionStep
    PROVE  FeedInv'
<1>1. FeedGrows /\ serviceSeen' = serviceSeen
  BY VersionGrows, Zenon DEF VersionStep
<1>2. serviceFeed' = <<>> => serviceSeen' = service'
  BY <1>1, Zenon DEF FeedGrows, FeedInv
<1>3. serviceFeed' # <<>> => serviceFeed'[Len(serviceFeed')] = service'
  BY <1>1, Zenon DEF FeedGrows, FeedInv
<1>4. \A i \in DOMAIN serviceFeed' : serviceFeed'[i] = None => i = Len(serviceFeed')
  <2>1. SUFFICES ASSUME NEW i \in DOMAIN serviceFeed', serviceFeed'[i] = None, i # Len(serviceFeed')
                 PROVE  FALSE
    BY Zenon
  <2>2. i \in DOMAIN serviceFeed /\ serviceFeed[i] = None
    BY <1>1, <2>1, Zenon DEF FeedGrows
  <2>3. i = Len(serviceFeed) /\ serviceFeed # <<>>
    <3>1. i = Len(serviceFeed)
      BY <2>2, Zenon DEF FeedInv
    <3>2. i >= 1
      BY <2>2, FeedTypes, Zenon
    <3>3. serviceFeed # <<>>
      BY <3>1, <3>2
    <3>4. QED
      BY <3>1, <3>3
  <2>4. service = None
    BY <2>2, <2>3, Zenon DEF FeedInv
  <2>5. service' = service
    BY <2>4, Zenon DEF VersionStep, VersionMoves, VersionStays
  <2>6. serviceFeed' = serviceFeed
    BY <1>1, <2>5, Zenon DEF FeedGrows
  <2>7. QED
    BY <2>1, <2>3, <2>6, Zenon
<1>5. DeletingAt(service)'
  BY NewDeleting, Zenon
<1>6. DeletingAt(serviceSeen)'
  <2>1. PICK s : s = serviceSeen /\ s = serviceSeen'
    BY <1>1, Zenon
  <2>2. s # None /\ s.deleting => s.finalizer /\ (service' = None \/ service'.deleting)
    BY <2>1, DeletingKept, Zenon DEF FeedInv
  <2>3. QED
    BY <2>1, <2>2, Zenon DEF DeletingAt
<1>7. \A i \in DOMAIN serviceFeed' : DeletingAt(serviceFeed[i])'
  <2>1. TAKE i \in DOMAIN serviceFeed'
  <2>2. CASE i \in DOMAIN serviceFeed
    <3>1. PICK s : s = serviceFeed[i] /\ s = serviceFeed'[i]
      BY <1>1, <2>2, Zenon DEF FeedGrows
    <3>2. s # None /\ s.deleting => s.finalizer /\ (service' = None \/ service'.deleting)
      BY <2>2, <3>1, DeletingKept, Zenon DEF FeedInv
    <3>3. QED
      BY <3>1, <3>2, Zenon DEF DeletingAt
  <2>3. CASE serviceFeed'[i] = service'
    BY <1>5, <2>3, Zenon DEF DeletingAt
  <2>4. QED
    BY <1>1, <2>2, <2>3, Zenon DEF FeedGrows
<1>8. QED
  BY <1>2, <1>3, <1>4, <1>5, <1>6, <1>7, Zenon DEF FeedInv

\* The current version is in the cache or ahead.
LEMMA HandledSomewhere ==
    ASSUME ServiceTypeOK, FeedInv, Handled(service)
    PROVE  (serviceFeed = <<>> /\ Handled(serviceSeen)) \/ HandledAhead
<1>1. CASE serviceFeed = <<>>
  BY <1>1, Zenon DEF FeedInv
<1>2. CASE serviceFeed # <<>>
  <2>1. Len(serviceFeed) \in DOMAIN serviceFeed /\ serviceFeed[Len(serviceFeed)] = service
    BY <1>2, FeedTypes, Zenon DEF FeedInv
  <2>2. QED
    BY <2>1, Zenon DEF HandledAhead
<1>3. QED
  BY <1>1, <1>2

LEMMA AheadStays ==
    ASSUME ServiceTypeOK, VersionStep, HandledAhead
    PROVE  HandledAhead'
<1>1. FeedGrows
  BY VersionGrows, Zenon
<1>2. PICK i \in DOMAIN serviceFeed : Handled(serviceFeed[i])
  BY Zenon DEF HandledAhead
<1>3. i \in DOMAIN serviceFeed' /\ serviceFeed'[i] = serviceFeed[i]
  BY <1>1, Zenon DEF FeedGrows
<1>4. QED
  BY <1>2, <1>3, Zenon DEF HandledAhead, Handled

\* Where no handled version is left to deliver, a finalizer that is not forgotten was
\* there before.
LEMMA KeptBefore ==
    ASSUME ServiceTypeOK, FeedInv, VersionStep, Kept', ~Handled(serviceSeen), ~HandledAhead'
    PROVE  Kept /\ ~HandledAhead
<1>1. ~HandledAhead
  BY AheadStays, Zenon
<1>2. ~Handled(service)
  BY <1>1, HandledSomewhere, Zenon
<1>3. ~forgotten
  BY Zenon DEF VersionStep, Kept
<1>4. CASE VersionMoves
  <2>1. service # None /\ service.finalizer
    BY <1>2, <1>4, Zenon DEF VersionMoves, Kept
  <2>2. QED
    BY <1>1, <1>2, <1>3, <2>1, Zenon DEF Kept, Handled, Unhandled
<1>5. CASE VersionStays
  BY <1>1, <1>3, <1>5, Zenon DEF VersionStays, Kept, Unhandled
<1>6. QED
  BY <1>4, <1>5, Zenon DEF VersionStep

LEMMA FinalizerStep ==
    ASSUME ServiceTypeOK, FeedInv, FinalizerInv, VersionStep
    PROVE  FinalizerInv'
<1>1. FeedGrows /\ serviceSeen' = serviceSeen
  BY VersionGrows, Zenon DEF VersionStep
<1>2. SUFFICES ASSUME Kept'
               PROVE  /\ serviceSeen' # None => serviceSeen'.finalizer \/ Handled(serviceSeen)' \/ HandledAhead'
                      /\ \A i \in DOMAIN serviceFeed' :
                            \/ serviceFeed'[i] # None /\ serviceFeed'[i].finalizer
                            \/ \E j \in DOMAIN serviceFeed' : j >= i /\ Handled(serviceFeed'[j])
  BY Zenon DEF FinalizerInv, Handled
<1>3. serviceSeen # None => serviceSeen.finalizer \/ Handled(serviceSeen) \/ HandledAhead'
  <2>1. SUFFICES ASSUME serviceSeen # None, ~Handled(serviceSeen), ~HandledAhead'
                 PROVE  serviceSeen.finalizer
    BY Zenon
  <2>2. Kept /\ ~HandledAhead
    BY <1>2, <2>1, KeptBefore, Zenon
  <2>3. QED
    BY <2>1, <2>2, Zenon DEF FinalizerInv
<1>4. ASSUME NEW i \in DOMAIN serviceFeed'
      PROVE  \/ serviceFeed'[i] # None /\ serviceFeed'[i].finalizer
             \/ \E j \in DOMAIN serviceFeed' : j >= i /\ Handled(serviceFeed'[j])
  <2>1. CASE i \in DOMAIN serviceFeed
    <3>1. serviceFeed'[i] = serviceFeed[i] /\ i \in Nat /\ i <= Len(serviceFeed)
          /\ Len(serviceFeed) \in DOMAIN serviceFeed /\ serviceFeed # <<>>
      <4>1. serviceFeed'[i] = serviceFeed[i] /\ i \in Nat /\ i >= 1 /\ i <= Len(serviceFeed) /\ Len(serviceFeed) \in Nat
        BY <1>1, <2>1, FeedTypes, Zenon DEF FeedGrows
      <4>2. serviceFeed # <<>>
        BY <4>1
      <4>3. QED
        BY <4>1, <4>2, FeedTypes, Zenon
    <3>2. CASE Handled(service)
      <4>1. Handled(serviceFeed'[Len(serviceFeed)]) /\ Len(serviceFeed) \in DOMAIN serviceFeed' /\ Len(serviceFeed) >= i
        <5>1. Handled(serviceFeed'[Len(serviceFeed)]) /\ Len(serviceFeed) \in DOMAIN serviceFeed'
          <6>1. serviceFeed[Len(serviceFeed)] = service
            BY <3>1, Zenon DEF FeedInv
          <6>2. serviceFeed'[Len(serviceFeed)] = service /\ Len(serviceFeed) \in DOMAIN serviceFeed'
            BY <1>1, <3>1, <6>1, Zenon DEF FeedGrows
          <6>3. QED
            BY <3>2, <6>2, Zenon
        <5>2. Len(serviceFeed) >= i
          BY <3>1, FeedTypes
        <5>3. QED
          BY <5>1, <5>2
      <4>2. QED
        BY <4>1, Zenon
    <3>3. CASE ~Handled(service)
      <4>1. Kept
        <5>1. ~forgotten
          BY <1>2, Zenon DEF VersionStep, Kept
        <5>2. CASE VersionMoves
          BY <1>2, <3>3, <5>1, <5>2, Zenon DEF VersionMoves, Kept, Handled, Unhandled
        <5>3. CASE VersionStays
          BY <1>2, <5>1, <5>3, Zenon DEF VersionStays, Kept, Unhandled
        <5>4. QED
          BY <5>2, <5>3, Zenon DEF VersionStep
      <4>2. \/ serviceFeed[i] # None /\ serviceFeed[i].finalizer
            \/ \E j \in DOMAIN serviceFeed : j >= i /\ Handled(serviceFeed[j])
        BY <2>1, <4>1, Zenon DEF FinalizerInv
      <4>3. QED
        BY <1>1, <3>1, <4>2, Zenon DEF FeedGrows, Handled
    <3>4. QED
      BY <3>2, <3>3
  <2>2. CASE serviceFeed'[i] = service'
    BY <1>2, <2>2, Zenon DEF Kept, Unhandled
  <2>3. QED
    BY <1>1, <2>1, <2>2, Zenon DEF FeedGrows
<1>5. QED
  BY <1>1, <1>3, <1>4, Zenon DEF Handled

\* The informer delivers the oldest version.
FeedShrinks ==
    /\ 1 \in DOMAIN serviceFeed /\ serviceSeen' = serviceFeed[1]
    /\ \A i \in DOMAIN serviceFeed' : i \in Nat /\ i >= 1 /\ i + 1 \in DOMAIN serviceFeed /\ serviceFeed'[i] = serviceFeed[i + 1]
    /\ \A i \in DOMAIN serviceFeed : i = 1 \/ (i - 1 \in DOMAIN serviceFeed' /\ serviceFeed'[i - 1] = serviceFeed[i])
    /\ serviceFeed' = <<>> => Len(serviceFeed) = 1
    /\ serviceFeed' # <<>> => serviceFeed'[Len(serviceFeed')] = serviceFeed[Len(serviceFeed)]
    /\ Len(serviceFeed') = Len(serviceFeed) - 1
    /\ service' = service

LEMMA DeliverServiceStep ==
    ASSUME ServiceTypeOK, DeliverService
    PROVE  ServiceTypeOK' /\ FeedShrinks /\ serviceFeed # <<>>
<1>1. serviceFeed \in Seq(Versions) /\ serviceFeed # <<>>
  BY ServiceTypes, Zenon DEF DeliverService
<1>2. serviceSeen' = Head(serviceFeed) /\ serviceFeed' = Tail(serviceFeed) /\ service' = service
  BY Zenon DEF DeliverService
<1>3. Head(serviceFeed) \in Versions /\ Tail(serviceFeed) \in Seq(Versions)
  BY <1>1
<1>4. queued' \in BOOLEAN
  BY Zenon DEF DeliverService
<1>5. UNCHANGED <<service, endpoints, endpointsSeen, policySeen, domainSeen, policy, domain, reserved,
                  rec, forgotten, misread, events>>
  BY Zenon DEF DeliverService, outside, ghosts
<1>6. ServiceTypeOK'
  BY <1>2, <1>3, <1>4, <1>5, ServiceTypes, Zenon DEF ServiceTypeOK, Versions
<1>7. FeedShrinks
  <2> DEFINE q == Tail(serviceFeed)
  <2>1. /\ 1 \in DOMAIN serviceFeed /\ Head(serviceFeed) = serviceFeed[1]
        /\ Len(q) = Len(serviceFeed) - 1 /\ Len(serviceFeed) \in Nat /\ Len(serviceFeed) >= 1
        /\ DOMAIN q = 1..(Len(serviceFeed) - 1) /\ DOMAIN serviceFeed = 1..Len(serviceFeed)
        /\ \A i \in 1..(Len(serviceFeed) - 1) : q[i] = serviceFeed[i + 1]
    BY <1>1
  <2>2. (q = <<>>) <=> Len(q) = 0
    <3>1. q \in Seq(Versions)
      BY <1>3, Zenon
    <3> HIDE DEF q
    <3>2. QED
      BY <3>1
  <2> HIDE DEF q
  <2>3. /\ \A i \in DOMAIN q : i \in Nat /\ i >= 1 /\ i + 1 \in DOMAIN serviceFeed /\ q[i] = serviceFeed[i + 1]
        /\ \A i \in DOMAIN serviceFeed : i = 1 \/ (i - 1 \in DOMAIN q /\ q[i - 1] = serviceFeed[i])
        /\ q = <<>> => Len(serviceFeed) = 1
        /\ q # <<>> => q[Len(q)] = serviceFeed[Len(serviceFeed)]
    BY <2>1, <2>2
  <2>4. QED
    BY <1>2, <2>1, <2>3, Zenon DEF FeedShrinks, q
<1>8. QED
  BY <1>1, <1>6, <1>7

LEMMA FeedDelivered ==
    ASSUME ServiceTypeOK, FeedInv, FeedShrinks, serviceFeed # <<>>
    PROVE  FeedInv'
<1>1. service' = service
  BY Zenon DEF FeedShrinks
<1>2. serviceFeed' = <<>> => serviceSeen' = service'
  BY Zenon DEF FeedShrinks, FeedInv
<1>3. serviceFeed' # <<>> => serviceFeed'[Len(serviceFeed')] = service'
  BY Zenon DEF FeedShrinks, FeedInv
<1>4. \A i \in DOMAIN serviceFeed' : serviceFeed'[i] = None => i = Len(serviceFeed')
  <2>1. TAKE i \in DOMAIN serviceFeed'
  <2>2. HAVE serviceFeed'[i] = None
  <2>3. i + 1 \in DOMAIN serviceFeed /\ serviceFeed[i + 1] = None
    BY <2>2, Zenon DEF FeedShrinks
  <2>4. i + 1 = Len(serviceFeed)
    BY <2>3, Zenon DEF FeedInv
  <2>5. Len(serviceFeed') = Len(serviceFeed) - 1 /\ Len(serviceFeed) \in Nat
    BY FeedTypes, Zenon DEF FeedShrinks
  <2>6. i \in Nat
    BY Zenon DEF FeedShrinks
  <2>7. QED
    BY <2>4, <2>5, <2>6
<1>5. DeletingAt(service)'
  BY <1>1, Zenon DEF FeedInv, DeletingAt
<1>6. DeletingAt(serviceSeen)'
  <2>1. DeletingAt(serviceFeed[1])
    BY Zenon DEF FeedShrinks, FeedInv
  <2>2. QED
    BY <1>1, <2>1, Zenon DEF FeedShrinks, DeletingAt
<1>7. \A i \in DOMAIN serviceFeed' : DeletingAt(serviceFeed[i])'
  <2>1. TAKE i \in DOMAIN serviceFeed'
  <2>2. DeletingAt(serviceFeed[i + 1]) /\ serviceFeed'[i] = serviceFeed[i + 1]
    BY Zenon DEF FeedShrinks, FeedInv
  <2>3. QED
    BY <1>1, <2>2, Zenon DEF DeletingAt
<1>8. QED
  BY <1>2, <1>3, <1>4, <1>5, <1>6, <1>7, Zenon DEF FeedInv

LEMMA FinalizerDelivered ==
    ASSUME ServiceTypeOK, FinalizerInv, FeedShrinks, forgotten' = forgotten
    PROVE  FinalizerInv'
<1>1. SUFFICES ASSUME Kept'
               PROVE  /\ serviceSeen' # None => serviceSeen'.finalizer \/ Handled(serviceSeen)' \/ HandledAhead'
                      /\ \A i \in DOMAIN serviceFeed' :
                            \/ serviceFeed'[i] # None /\ serviceFeed'[i].finalizer
                            \/ \E j \in DOMAIN serviceFeed' : j >= i /\ Handled(serviceFeed'[j])
  BY Zenon DEF FinalizerInv, Handled
<1>2. Kept
  BY <1>1, Zenon DEF Kept, Unhandled, FeedShrinks
<1>3. \A i \in DOMAIN serviceFeed :
         \/ serviceFeed[i] # None /\ serviceFeed[i].finalizer
         \/ \E j \in DOMAIN serviceFeed : j >= i /\ Handled(serviceFeed[j])
  BY <1>2, Zenon DEF FinalizerInv
<1>4. serviceSeen' # None => serviceSeen'.finalizer \/ Handled(serviceSeen)' \/ HandledAhead'
  <2>1. 1 \in DOMAIN serviceFeed /\ serviceSeen' = serviceFeed[1]
    BY Zenon DEF FeedShrinks
  <2>2. CASE \E j \in DOMAIN serviceFeed : j >= 1 /\ Handled(serviceFeed[j])
    <3>1. PICK j \in DOMAIN serviceFeed : Handled(serviceFeed[j])
      BY <2>2
    <3>2. CASE j = 1
      BY <2>1, <3>1, <3>2, Zenon DEF Handled
    <3>3. CASE j # 1
      <4>1. j - 1 \in DOMAIN serviceFeed' /\ serviceFeed'[j - 1] = serviceFeed[j]
        BY <3>3, Zenon DEF FeedShrinks
      <4>2. HandledAhead'
        BY <3>1, <4>1, Zenon DEF HandledAhead, Handled
      <4>3. QED
        BY <4>2
    <3>4. QED
      BY <3>2, <3>3
  <2>3. QED
    BY <1>3, <2>1, <2>2, Zenon
<1>5. ASSUME NEW i \in DOMAIN serviceFeed'
      PROVE  \/ serviceFeed'[i] # None /\ serviceFeed'[i].finalizer
             \/ \E j \in DOMAIN serviceFeed' : j >= i /\ Handled(serviceFeed'[j])
  <2>1. i + 1 \in DOMAIN serviceFeed /\ serviceFeed'[i] = serviceFeed[i + 1]
    BY Zenon DEF FeedShrinks
  <2>2. CASE serviceFeed[i + 1] # None /\ serviceFeed[i + 1].finalizer
    BY <2>1, <2>2, Zenon
  <2>3. CASE \E j \in DOMAIN serviceFeed : j >= i + 1 /\ Handled(serviceFeed[j])
    <3>1. PICK j \in DOMAIN serviceFeed : j >= i + 1 /\ Handled(serviceFeed[j])
      BY <2>3
    <3>2. i + 1 \in Nat /\ i + 1 >= 1 /\ j \in Nat
      BY <2>1, FeedTypes, Zenon
    <3>3. i \in Nat /\ i >= 1
      BY Zenon DEF FeedShrinks
    <3>4. j # 1 /\ j - 1 >= i
      BY <3>1, <3>2, <3>3
    <3>5. QED
      BY <3>1, <3>4, Zenon DEF FeedShrinks
  <2>4. QED
    BY <1>3, <2>1, <2>2, <2>3, Zenon
<1>6. QED
  BY <1>4, <1>5, Zenon DEF Handled

(***************************************************************************)
(* What happens around a reconcile.                                        *)
(***************************************************************************)
RecSame == rec' = rec \/ rec' = [rec EXCEPT !.fresh = FALSE]
SameWork ==
    /\ rec'.pc = rec.pc /\ rec'.svc = rec.svc /\ rec'.owned = rec.owned /\ rec'.url = rec.url
    /\ rec'.policy = rec.policy /\ rec'.plan = rec.plan /\ rec'.failed = rec.failed /\ rec'.status = rec.status
    /\ rec'.fresh => rec.fresh

LEMMA RecSameStep ==
    ASSUME ServiceTypeOK, RecSame
    PROVE  rec' \in Recs \cup {NoRec} /\ SameWork
<1>1. CASE rec' = rec
  <2>1. PICK r \in Recs \cup {NoRec} : rec = r /\ rec' = r
    BY <1>1, ServiceTypes, Zenon
  <2>2. QED
    BY <2>1, Zenon DEF SameWork
<1>2. CASE rec' = [rec EXCEPT !.fresh = FALSE] /\ rec = NoRec
  <2>1. rec' = NoRec
    BY <1>2, Zenon DEF NoRec
  <2>2. QED
    BY <1>2, <2>1, Zenon DEF SameWork
<1>3. CASE rec' = [rec EXCEPT !.fresh = FALSE] /\ rec # NoRec
  <2>1. PICK r \in Recs : rec = r
    BY <1>3, ServiceTypes, Zenon
  <2> DEFINE v == [r EXCEPT !.fresh = FALSE]
  <2>2. rec' = v
    BY <1>3, <2>1
  <2>3. v \in Recs
    BY Zenon DEF Recs
  <2>4. /\ v.pc = r.pc /\ v.svc = r.svc /\ v.owned = r.owned /\ v.url = r.url /\ v.policy = r.policy
        /\ v.plan = r.plan /\ v.failed = r.failed /\ v.status = r.status /\ v.fresh = FALSE
    BY Zenon DEF Recs
  <2> HIDE DEF v
  <2>5. QED
    BY <2>1, <2>2, <2>3, <2>4, Zenon DEF SameWork
<1>4. QED
  BY <1>1, <1>2, <1>3, Zenon DEF RecSame

LEMMA ServiceEventStep ==
    ASSUME ServiceTypeOK, ServiceEvent
    PROVE  events' \in 0..MaxEvents
<1>1. events \in 0..MaxEvents /\ MaxEvents \in Nat
  BY ServiceTypes, ServiceAssumption, Zenon
<1>2. events < MaxEvents /\ events' = events + 1
  BY Zenon DEF ServiceEvent
<1>3. QED
  BY <1>1, <1>2

\* A step of the informers or of the rest of the cluster.
Outer ==
    /\ VersionStep /\ RecSame /\ EndpointsAge
    /\ queued => queued'
    /\ policySeen' = policySeen \/ queued' \/ ~findServicesForTrafficPolicy
    /\ reserved' \subseteq reserved
    /\ misread' = misread
    /\ rec'.fresh => service' = service
    /\ serviceSeen = None => queued' = queued
    /\ service' # None => service'.finalizer = service.finalizer /\ service'.computed = service.computed
    /\ \A n \in Names : endpoints[n] = None => endpoints'[n] = None

LEMMA AgesNot ==
    ASSUME endpoints' = endpoints
    PROVE  \A n \in Names : Ages(n)
  BY Zenon DEF Ages

LEMMA WrittenOutside ==
    ASSUME ServiceTypeOK, EditService \/ DeleteService
    PROVE  ServiceTypeOK' /\ Outer
<1>1. ServiceEvent
      /\ UNCHANGED <<endpoints, serviceSeen, endpointsSeen, policySeen, domainSeen, policy, domain, reserved,
                     queued, forgotten, misread>>
  BY Zenon DEF EditService, DeleteService, caches, outside, ghosts
<1>2. PICK s \in Services : service = s
  BY ServiceTypes, Zenon DEF EditService, DeleteService, Versions
<1>3. s # None /\ ~s.deleting
  BY <1>2, ServiceFields, Zenon DEF EditService, DeleteService
<1>4. PICK t \in Versions : /\ StoreOutside(t)
                            /\ t # None => /\ t.deleting => t.finalizer
                                           /\ s.deleting => t.deleting
                                           /\ t.finalizer = s.finalizer /\ t.computed = s.computed
  <2>1. CASE EditService
    <3>1. PICK spec \in Specs : StoreOutside([s EXCEPT !.spec = spec])
      BY <1>2, <2>1, Zenon DEF EditService
    <3> DEFINE t == [s EXCEPT !.spec = spec]
    <3>2. t \in Services
      BY Zenon DEF Services
    <3>3. t.deleting = s.deleting /\ t.finalizer = s.finalizer /\ t.computed = s.computed
      BY Zenon DEF Services
    <3> HIDE DEF t
    <3>4. StoreOutside(t)
      BY <3>1, Zenon DEF t
    <3>5. QED
      BY <1>3, <3>2, <3>3, <3>4, Zenon DEF Versions
  <2>2. CASE DeleteService /\ s.finalizer
    <3> DEFINE t == [s EXCEPT !.deleting = TRUE]
    <3>1. StoreOutside(t)
      BY <1>2, <2>2, Zenon DEF DeleteService
    <3>2. t \in Services
      BY Zenon DEF Services
    <3>3. t.deleting = TRUE /\ t.finalizer = s.finalizer /\ t.computed = s.computed
      BY Zenon DEF Services
    <3> HIDE DEF t
    <3>4. QED
      BY <2>2, <3>1, <3>2, <3>3, Zenon DEF Versions
  <2>3. CASE DeleteService /\ ~s.finalizer
    <3>1. StoreOutside(None)
      BY <1>2, <2>3, Zenon DEF DeleteService
    <3>2. QED
      BY <3>1, Zenon DEF Versions
  <2>4. QED
    BY <2>1, <2>2, <2>3, Zenon
<1>5. /\ service' = t /\ rec' = [rec EXCEPT !.fresh = FALSE]
      /\ serviceFeed' = IF service' = service THEN serviceFeed ELSE Append(serviceFeed, service')
  BY <1>4, Zenon DEF StoreOutside, Store
<1>6. VersionMoves
  BY <1>2, <1>3, <1>4, <1>5, Zenon DEF VersionMoves, Unhandled
<1>7. VersionStep /\ RecSame
  BY <1>1, <1>5, <1>6, Zenon DEF VersionStep, RecSame
<1>8. rec' \in Recs \cup {NoRec} /\ service' \in Versions /\ serviceFeed' \in Seq(Versions)
  BY <1>7, RecSameStep, VersionGrows, Zenon
<1>9. events' \in 0..MaxEvents
  BY <1>1, ServiceEventStep, Zenon
<1>10. ServiceTypeOK'
  BY <1>1, <1>8, <1>9, ServiceTypes, Zenon DEF ServiceTypeOK, Versions
<1>11. ~rec'.fresh
  <2>1. CASE rec = NoRec
    BY <1>5, <2>1, NoRecFacts, Zenon DEF NoRec
  <2>2. CASE rec # NoRec
    <3>1. PICK r \in Recs : rec = r
      BY <2>2, ServiceTypes, Zenon
    <3>2. QED
      BY <1>5, <3>1, Zenon DEF Recs
  <2>3. QED
    BY <2>1, <2>2
<1>12. EndpointsAge
  BY <1>1, AgesNot, Zenon DEF EndpointsAge, DomainMoves
<1>13. service' # None => service'.finalizer = service.finalizer /\ service'.computed = service.computed
  BY <1>2, <1>4, <1>5, Zenon
<1>14. QED
  BY <1>1, <1>7, <1>10, <1>11, <1>12, <1>13, Zenon DEF Outer

LEMMA EndpointOutside ==
    ASSUME ServiceTypeOK, NEW n \in Names,
           DeleteEndpoint(n) \/ CollectGarbage(n) \/ FinishDeletion(n) \/ SetDomainRef(n)
    PROVE  ServiceTypeOK' /\ Outer
<1>1. UNCHANGED <<service, serviceFeed, serviceSeen, endpointsSeen, policySeen, domainSeen, policy, reserved,
                  queued, rec, forgotten, misread>>
  BY Zenon DEF DeleteEndpoint, CollectGarbage, FinishDeletion, SetDomainRef, caches, outside, ghosts
<1>2. events' \in 0..MaxEvents
  BY ServiceEventStep, ServiceTypes, Zenon DEF DeleteEndpoint, CollectGarbage, FinishDeletion, SetDomainRef
<1>3. PICK e \in Endpoints : endpoints[n] = e
  BY EndpointTypes, Zenon DEF DeleteEndpoint, CollectGarbage, FinishDeletion, SetDomainRef
<1>4. endpoints \in [Names -> Endpoints \cup {None}]
  BY ServiceTypes, Zenon
<1>5. /\ endpoints' \in [Names -> Endpoints \cup {None}]
      /\ domain' \in {"plain", "cname", None}
      /\ DomainMoves /\ \A m \in Names : Ages(m)
  <2>1. CASE DeleteEndpoint(n) \/ CollectGarbage(n)
    <3>1. endpoints[n] # None /\ endpoints' = [endpoints EXCEPT ![n].deleting = TRUE] /\ domain' = domain
      BY <2>1, Zenon DEF DeleteEndpoint, CollectGarbage, outside
    <3>2. QED
      BY <3>1, CondemnStep, ServiceTypes, Zenon DEF DomainMoves
  <2>2. CASE FinishDeletion(n)
    <3>1. endpoints' = [endpoints EXCEPT ![n] = None] /\ domain' = domain
      BY <2>2, Zenon DEF FinishDeletion, outside
    <3>2. /\ endpoints' \in [Names -> Endpoints \cup {None}]
          /\ \A m \in Names : endpoints'[m] = endpoints[m] \/ endpoints'[m] = None
      BY <1>4, <3>1, Zenon
    <3>3. QED
      BY <3>1, <3>2, ServiceTypes, Zenon DEF DomainMoves, Ages
  <2>3. CASE SetDomainRef(n)
    <3>0. e.domainRef \in 0..2 /\ "plain" # None /\ domain \in {"plain", "cname", None}
      BY EndpointFields, ServiceTypes, ServiceAssumption
    <3>1. PICK ref \in 1..2 : /\ endpoints' = [endpoints EXCEPT ![n] = [e EXCEPT !.domainRef = ref]]
                              /\ ref = e.domainRef + 1
                              /\ domain' # None /\ (ref = 2 => domain' = "cname")
                              /\ domain' = domain \/ (domain = None /\ domain' = "plain")
      <4>1. CASE /\ endpoints[n].domainRef = 0
                 /\ endpoints' = [endpoints EXCEPT ![n].domainRef = 1]
                 /\ domain' = IF domain = None THEN "plain" ELSE domain
        <5>1. endpoints' = [endpoints EXCEPT ![n] = [e EXCEPT !.domainRef = 1]]
          BY <1>3, <1>4, <4>1
        <5>2. domain' # None /\ (domain' = domain \/ (domain = None /\ domain' = "plain"))
          BY <3>0, <4>1
        <5>3. 1 \in 1..2 /\ 1 = e.domainRef + 1 /\ 1 # 2
          BY <1>3, <4>1
        <5>4. QED
          BY <5>1, <5>2, <5>3, Zenon
      <4>2. CASE /\ endpoints[n].domainRef = 1 /\ domain = "cname"
                 /\ endpoints' = [endpoints EXCEPT ![n].domainRef = 2]
                 /\ UNCHANGED domain
        <5>1. endpoints' = [endpoints EXCEPT ![n] = [e EXCEPT !.domainRef = 2]]
          BY <1>3, <1>4, <4>2
        <5>2. 2 \in 1..2 /\ 2 = e.domainRef + 1
          BY <1>3, <4>2
        <5>3. "cname" # None
          BY ServiceAssumption
        <5>4. QED
          BY <4>2, <5>1, <5>2, <5>3, Zenon
      <4>3. QED
        BY <2>3, <4>1, <4>2, Zenon DEF SetDomainRef
    <3> DEFINE f == [e EXCEPT !.domainRef = ref]
    <3>2. ref \in 0..2
      OBVIOUS
    <3>3. f \in Endpoints
      BY <3>2, Zenon DEF Endpoints
    <3>4. f.domainRef = ref /\ f.deleting = e.deleting
      BY Zenon DEF Endpoints
    <3>5. f # None /\ e # None
      BY <3>3, EndpointFields, Zenon
    <3> HIDE DEF f
    <3>6. endpoints' = [endpoints EXCEPT ![n] = f]
      BY <3>1, Zenon DEF f
    <3>7. /\ endpoints' \in [Names -> Endpoints \cup {None}] /\ endpoints'[n] = f
          /\ \A m \in Names : m # n => endpoints'[m] = endpoints[m]
      BY <1>4, <3>3, <3>6, Zenon
    <3>8. Referred(n)
      BY <1>3, <3>1, <3>4, <3>5, <3>7, Zenon DEF Referred
    <3>9. domain' \in {"plain", "cname", None} /\ DomainMoves
      BY <3>0, <3>1, Zenon DEF DomainMoves
    <3>10. QED
      BY <3>7, <3>8, <3>9, Zenon DEF Ages
  <2>4. QED
    BY <2>1, <2>2, <2>3, Zenon
<1>6. ServiceTypeOK'
  BY <1>1, <1>2, <1>5, ServiceTypes, Zenon DEF ServiceTypeOK, Versions
<1>7. \A m \in Names : endpoints[m] = None => endpoints'[m] = None
  <2>1. \A m \in Names : m # n => endpoints'[m] = endpoints[m]
    <3>1. PICK f : endpoints' = [endpoints EXCEPT ![n] = f]
      BY <1>4, Zenon DEF DeleteEndpoint, CollectGarbage, FinishDeletion, SetDomainRef
    <3>2. QED
      BY <1>4, <3>1, Zenon
  <2>2. QED
    BY <1>3, <2>1, EndpointFields, Zenon
<1>8. QED
  BY <1>1, <1>5, <1>6, <1>7, Zenon DEF Outer, VersionStep, VersionStays, RecSame, EndpointsAge

LEMMA OtherOutside ==
    ASSUME ServiceTypeOK,
           EditPolicy \/ SetCNAMETarget \/ DeliverPolicy \/ DeliverDomain \/ \E a \in Addrs : ReleaseAddress(a)
    PROVE  ServiceTypeOK' /\ Outer
<1>1. /\ UNCHANGED <<service, serviceFeed, serviceSeen, endpoints, endpointsSeen, rec, forgotten, misread>>
      /\ reserved' \subseteq reserved
      /\ DomainMoves
  BY Zenon DEF EditPolicy, SetCNAMETarget, DeliverPolicy, DeliverDomain, ReleaseAddress, objects, caches,
               outside, ghosts, DomainMoves
<1>2. events' \in 0..MaxEvents
  BY ServiceEventStep, ServiceTypes, Zenon DEF EditPolicy, SetCNAMETarget, DeliverPolicy, DeliverDomain, ReleaseAddress
<1>3. /\ policy' \in Policies \cup {None} /\ policySeen' \in Policies \cup {None}
      /\ domain' \in {"plain", "cname", None} /\ domainSeen' \in {"plain", "cname", None}
  BY ServiceTypes, Zenon DEF EditPolicy, SetCNAMETarget, DeliverPolicy, DeliverDomain, ReleaseAddress, caches, outside
<1>4. /\ queued' \in BOOLEAN /\ (queued => queued')
      /\ policySeen' = policySeen \/ queued' \/ ~findServicesForTrafficPolicy
      /\ serviceSeen = None => queued' = queued
  <2>1. CASE DeliverPolicy
    <3>1. queued' = (queued \/ findServicesForTrafficPolicy) /\ queued \in BOOLEAN
      BY <2>1, ServiceTypes, Zenon DEF DeliverPolicy
    <3>2. serviceSeen = None => ~findServicesForTrafficPolicy
      BY Zenon DEF findServicesForTrafficPolicy
    <3>3. QED
      BY <3>1, <3>2, Zenon
  <2>2. CASE ~DeliverPolicy
    <3>1. queued' = queued /\ policySeen' = policySeen
      BY <2>2, Zenon DEF EditPolicy, SetCNAMETarget, DeliverDomain, ReleaseAddress, caches
    <3>2. QED
      BY <3>1, ServiceTypes, Zenon
  <2>3. QED
    BY <2>1, <2>2
<1>5. ServiceTypeOK'
  BY <1>1, <1>2, <1>3, <1>4, ServiceTypes, Zenon DEF ServiceTypeOK, Versions
<1>6. QED
  BY <1>1, <1>4, <1>5, AgesNot, Zenon DEF Outer, VersionStep, VersionStays, RecSame, EndpointsAge

(***************************************************************************)
(* The steps of a reconcile.                                               *)
(***************************************************************************)
RecKeeps ==
    /\ rec'.pc = rec.pc /\ rec'.svc = rec.svc /\ rec'.fresh = rec.fresh /\ rec'.owned = rec.owned
    /\ rec'.url = rec.url /\ rec'.policy = rec.policy /\ rec'.status = rec.status

Again == rec' = NoRec /\ queued' = TRUE

\* The caches, the policy and the Domain stay, and nothing is counted.
Reconciling == UNCHANGED <<serviceSeen, endpointsSeen, policySeen, domainSeen, policy, domain, events>>

LEMMA NothingFacts ==
    /\ Nothing \in Plans
    /\ Nothing.delete = {} /\ Nothing.write = None /\ Nothing.at = None
  BY Zenon DEF Nothing, Plans

LEMMA PlanTypes ==
    ASSUME NEW p \in Plans
    PROVE  /\ p.delete \in SUBSET Names /\ p.write \in NewEndpoints \cup {None} /\ p.at \in Names \cup {None}
           /\ p.at # None => p.write # None
  BY Zenon DEF Plans

LEMMA PlanStep ==
    ASSUME ServiceTypeOK, rec.pc # "idle", NEW k \in Kinds, NEW p \in Plans,
           rec' = [rec EXCEPT !.plan[k] = p]
    PROVE  /\ rec' \in Recs /\ RecKeeps /\ rec'.failed = rec.failed
           /\ rec'.plan[k] = p /\ \A j \in Kinds : j # k => rec'.plan[j] = rec.plan[j]
<1>1. PICK r \in Recs : rec = r
  BY RecTypes, Zenon
<1>2. PICK q \in [Kinds -> Plans] : r.plan = q
  BY RecFields, Zenon
<1>3. PICK w \in [Kinds -> Plans] : w = [q EXCEPT ![k] = p]
  BY Zenon
<1> DEFINE v == [r EXCEPT !.plan = w]
<1>4. rec' = v
  BY <1>1, <1>2, <1>3
<1>5. v \in Recs
  BY Zenon DEF Recs
<1>6. /\ v.pc = r.pc /\ v.svc = r.svc /\ v.owned = r.owned /\ v.url = r.url /\ v.policy = r.policy
      /\ v.plan = w /\ v.failed = r.failed /\ v.status = r.status /\ v.fresh = r.fresh
  BY Zenon DEF Recs
<1> HIDE DEF v
<1>7. w[k] = p /\ \A j \in Kinds : j # k => w[j] = q[j]
  BY <1>3, Zenon
<1>8. QED
  BY <1>1, <1>2, <1>4, <1>5, <1>6, <1>7, Zenon DEF RecKeeps

LEMMA FailStep ==
    ASSUME ServiceTypeOK, rec.pc # "idle", NEW k \in Kinds, Fails(k)
    PROVE  rec' \in Recs /\ RecKeeps /\ rec'.failed = TRUE /\ endpoints' = endpoints
<1>1. PICK r \in Recs : rec = r
  BY RecTypes, Zenon
<1>2. PICK q \in [Kinds -> Plans] : r.plan = q
  BY RecFields, Zenon
<1>3. PICK w \in [Kinds -> Plans] : w = [q EXCEPT ![k] = Nothing]
  BY NothingFacts, Zenon
<1> DEFINE v == [r EXCEPT !.plan = w, !.failed = TRUE]
<1>4. rec' = v
  BY <1>1, <1>2, <1>3 DEF Fails
<1>5. v \in Recs
  BY Zenon DEF Recs
<1>6. /\ v.pc = r.pc /\ v.svc = r.svc /\ v.owned = r.owned /\ v.url = r.url /\ v.policy = r.policy
      /\ v.failed = TRUE /\ v.status = r.status /\ v.fresh = r.fresh
  BY Zenon DEF Recs
<1> HIDE DEF v
<1>7. QED
  BY <1>1, <1>4, <1>5, <1>6, Zenon DEF RecKeeps, Fails

LEMMA OwnedTypes == \A k \in Kinds : Owned(k) \in SUBSET Names
  BY Zenon DEF Owned, Existing

\* What Start hands to a reconcile.
Started ==
    /\ serviceSeen # None /\ rec' \in Recs
    /\ rec'.svc = serviceSeen /\ rec'.failed = FALSE
    /\ rec'.fresh = (serviceFeed = <<>>)
    /\ \A k \in Kinds : rec'.owned[k] = Owned(k)
    /\ \/ /\ rec'.pc = "cleanup"
          /\ serviceSeen.deleting \/ Unhandled(serviceSeen)
          /\ \A k \in Kinds : rec'.plan[k].delete = Owned(k)
       \/ /\ rec'.pc = "release"
          /\ Unhandled(serviceSeen) /\ \A k \in Kinds : Owned(k) = {}
       \/ rec'.pc = "build" /\ Wanted(serviceSeen) /\ serviceSeen.finalizer
       \/ rec'.pc = "register" /\ Wanted(serviceSeen)
NotStarted == rec' = NoRec /\ (serviceSeen = None \/ (Handled(serviceSeen) /\ ~Wanted(serviceSeen) /\ ~serviceSeen.deleting))

LEMMA StartServiceStep ==
    ASSUME ServiceTypeOK, StartService
    PROVE  /\ ServiceTypeOK'
           /\ rec.pc = "idle" /\ queued /\ queued' = FALSE
           /\ Started \/ NotStarted
           /\ Reconciling /\ UNCHANGED <<service, serviceFeed, endpoints, reserved, forgotten, misread>>
<1>1. Reconciling /\ UNCHANGED <<service, serviceFeed, endpoints, reserved, forgotten, misread>>
  BY Zenon DEF StartService, Reconciling, objects, caches, outside, ghosts
<1>2. rec.pc = "idle" /\ queued /\ queued' = FALSE
  BY NoRecFacts, Zenon DEF StartService
<1> DEFINE owned == [k \in Kinds |-> Owned(k)]
           Go(pc) == [NoRec EXCEPT !.pc = pc, !.svc = serviceSeen, !.owned = owned, !.fresh = serviceFeed = <<>>]
           Clean == [Go("cleanup") EXCEPT !.plan = DeleteAll(owned)]
<1>3. rec' = CASE serviceSeen = None -> NoRec
               [] serviceSeen # None /\ serviceSeen.deleting -> Clean
               [] serviceSeen # None /\ ~serviceSeen.deleting
                     /\ ~shouldHandleService(serviceSeen) ->
                     IF owned = NoRec.owned THEN Go("release") ELSE Clean
               [] OTHER -> CASE ~serviceSeen.spec.ports -> NoRec
                             [] serviceSeen.spec.ports /\ serviceSeen.finalizer -> Go("build")
                             [] OTHER -> Go("register")
  BY Zenon DEF StartService
<1>4. owned \in [Kinds -> SUBSET Names] /\ \A k \in Kinds : owned[k] = Owned(k)
  BY OwnedTypes, Zenon
<1>5. ASSUME serviceSeen # None, NEW pc \in Steps
      PROVE  /\ Go(pc) \in Recs
             /\ Go(pc).pc = pc /\ Go(pc).svc = serviceSeen /\ Go(pc).owned = owned
             /\ Go(pc).fresh = (serviceFeed = <<>>) /\ Go(pc).failed = FALSE
  <2>1. serviceSeen \in Services
    BY <1>5, ServiceTypes, Zenon DEF Versions
  <2>2. [k \in Kinds |-> Nothing] \in [Kinds -> Plans]
    BY NothingFacts, Zenon
  <2> HIDE DEF owned
  <2>3. Go(pc) \in Recs
    BY <1>4, <2>1, <2>2, Zenon DEF Recs, NoRec
  <2>4. QED
    BY <2>3, Zenon DEF NoRec
<1>6. ASSUME serviceSeen # None
      PROVE  /\ Clean \in Recs
             /\ Clean.pc = "cleanup" /\ Clean.svc = serviceSeen /\ Clean.owned = owned
             /\ Clean.fresh = (serviceFeed = <<>>) /\ Clean.failed = FALSE
             /\ \A k \in Kinds : Clean.plan[k].delete = owned[k]
  <2> HIDE DEF Go, owned
  <2>1. "cleanup" \in Steps
    BY Zenon DEF Steps
  <2>2. PICK r \in Recs : /\ r = Go("cleanup") /\ r.pc = "cleanup" /\ r.svc = serviceSeen /\ r.owned = owned
                          /\ r.fresh = (serviceFeed = <<>>) /\ r.failed = FALSE
    BY <1>5, <1>6, <2>1, Zenon
  <2>3. \A k \in Kinds : /\ [Nothing EXCEPT !.delete = owned[k]] \in Plans
                         /\ [Nothing EXCEPT !.delete = owned[k]].delete = owned[k]
    BY <1>4, Zenon DEF Nothing, Plans
  <2>4. PICK w \in [Kinds -> Plans] : w = DeleteAll(owned) /\ \A k \in Kinds : w[k].delete = owned[k]
    <3> DEFINE u == DeleteAll(owned)
    <3>1. u \in [Kinds -> Plans] /\ \A k \in Kinds : u[k] = [Nothing EXCEPT !.delete = owned[k]]
      BY <2>3, Zenon DEF DeleteAll
    <3> HIDE DEF u
    <3>2. \A k \in Kinds : u[k].delete = owned[k]
      BY <2>3, <3>1, Zenon
    <3>3. QED
      BY <3>1, <3>2, Zenon DEF u
  <2> DEFINE v == [r EXCEPT !.plan = w]
  <2>5. Clean = v
    BY <2>2, <2>4
  <2>6. v \in Recs
    BY Zenon DEF Recs
  <2>7. v.pc = r.pc /\ v.svc = r.svc /\ v.owned = r.owned /\ v.fresh = r.fresh /\ v.failed = r.failed /\ v.plan = w
    BY Zenon DEF Recs
  <2> HIDE DEF v, Clean
  <2>8. QED
    BY <2>2, <2>4, <2>5, <2>6, <2>7, Zenon
<1>7. owned = NoRec.owned => \A k \in Kinds : Owned(k) = {}
  BY <1>4, NoRecFacts, Zenon
<1> HIDE DEF owned, Go, Clean
<1>8. Started \/ NotStarted
  <2>1. CASE serviceSeen = None
    BY <1>3, <2>1, Zenon DEF NotStarted
  <2>2. CASE serviceSeen # None /\ serviceSeen.deleting
    <3>1. rec' = Clean
      BY <1>3, <2>2, Zenon
    <3>2. QED
      BY <1>4, <1>6, <2>2, <3>1, Zenon DEF Started
  <2>3. CASE serviceSeen # None /\ ~serviceSeen.deleting /\ ~shouldHandleService(serviceSeen)
    <3>1. CASE owned = NoRec.owned
      <4>1. rec' = Go("release") /\ "release" \in Steps
        BY <1>3, <2>3, <3>1 DEF Steps
      <4>2. QED
        BY <1>4, <1>5, <1>7, <2>3, <3>1, <4>1, Zenon DEF Started, Unhandled
    <3>2. CASE owned # NoRec.owned
      <4>1. rec' = Clean
        BY <1>3, <2>3, <3>2, Zenon
      <4>2. QED
        BY <1>4, <1>6, <2>3, <4>1, Zenon DEF Started, Unhandled
    <3>3. QED
      BY <3>1, <3>2
  <2>4. CASE Handled(serviceSeen) /\ ~serviceSeen.deleting
    <3>1. CASE ~serviceSeen.spec.ports
      <4>1. rec' = NoRec
        BY <1>3, <2>4, <3>1, Zenon DEF Handled
      <4>2. QED
        BY <2>4, <3>1, <4>1, Zenon DEF NotStarted, Wanted
    <3>2. CASE serviceSeen.spec.ports /\ serviceSeen.finalizer
      <4>1. rec' = Go("build") /\ "build" \in Steps
        BY <1>3, <2>4, <3>2 DEF Steps, Handled
      <4>2. QED
        BY <1>4, <1>5, <2>4, <3>2, <4>1, Zenon DEF Started, Wanted, Handled
    <3>3. CASE serviceSeen.spec.ports /\ ~serviceSeen.finalizer
      <4>1. rec' = Go("register") /\ "register" \in Steps
        BY <1>3, <2>4, <3>3 DEF Steps, Handled
      <4>2. QED
        BY <1>4, <1>5, <2>4, <3>3, <4>1, Zenon DEF Started, Wanted, Handled
    <3>4. QED
      BY <3>1, <3>2, <3>3
  <2>5. QED
    BY <2>1, <2>2, <2>3, <2>4, Zenon DEF Handled
<1>9. rec' \in Recs \cup {NoRec}
  BY <1>8, Zenon DEF Started, NotStarted
<1>10. ServiceTypeOK'
  BY <1>1, <1>2, <1>9, ServiceTypes, Zenon DEF ServiceTypeOK, Versions, Reconciling
<1>11. QED
  BY <1>1, <1>2, <1>8, <1>10

LEMMA RegisterServiceStep ==
    ASSUME ServiceTypeOK, Register
    PROVE  /\ ServiceTypeOK'
           /\ rec.pc = "register"
           /\ \/ Again /\ VersionStep
              \/ /\ rec' \in Recs /\ rec'.pc = "build" /\ rec'.svc = service' /\ rec'.owned = rec.owned
                 /\ service' # None /\ service'.finalizer
                 /\ queued' = queued /\ VersionStep
           /\ Reconciling /\ UNCHANGED <<endpoints, reserved, misread>>
<1>1. Reconciling /\ UNCHANGED <<endpoints, reserved, misread>> /\ rec.pc = "register"
  BY Zenon DEF Register, Reconciling, caches, outside
<1>2. rec.pc # "idle"
  BY <1>1
<1>3. PICK r \in Recs : rec = r
  BY <1>2, RecTypes, Zenon
<1>4. CASE service = None
  <2>1. Again /\ UNCHANGED <<service, serviceFeed, forgotten>>
    BY <1>4, Zenon DEF Register, Requeue, Again
  <2>2. VersionStep
    BY <1>1, <2>1, Zenon DEF VersionStep, VersionStays, Reconciling
  <2>3. ServiceTypeOK'
    BY <1>1, <2>1, ServiceTypes, Zenon DEF ServiceTypeOK, Versions, Reconciling, Again
  <2>4. QED
    BY <1>1, <2>1, <2>2, <2>3
<1>5. CASE service # None
  <2>1. PICK o \in Services : service = o
    BY <1>5, ServiceTypes, Zenon DEF Versions
  <2> DEFINE s == [o EXCEPT !.finalizer = TRUE]
             v == [r EXCEPT !.pc = "build", !.svc = s, !.fresh = TRUE]
  <2>2. /\ Store(s) /\ rec' = v /\ queued' = queued
        /\ forgotten' = (forgotten \/ ~shouldHandleService(s))
    BY <1>3, <1>5, <2>1, Zenon DEF Register
  <2>3. s \in Services
    BY Zenon DEF Services
  <2>4. s.finalizer = TRUE /\ s.deleting = o.deleting /\ s # None
    BY <2>3, ServiceFields, Zenon DEF Services
  <2> HIDE DEF s
  <2>5. "build" \in Steps
    BY DEF Steps
  <2>6. v \in Recs
    BY <2>3, <2>5, Zenon DEF Recs
  <2>7. v.pc = "build" /\ v.svc = s /\ v.owned = r.owned
    BY Zenon DEF Recs
  <2> HIDE DEF v
  <2>8. service' = s /\ serviceFeed' = IF service' = service THEN serviceFeed ELSE Append(serviceFeed, service')
    BY <2>2, Zenon DEF Store
  <2>9. VersionMoves
    BY <1>5, <2>1, <2>2, <2>3, <2>4, <2>8, Zenon DEF VersionMoves, Versions, Unhandled
  <2>10. VersionStep /\ forgotten' \in BOOLEAN
    BY <1>1, <2>2, <2>9, Zenon DEF VersionStep, Reconciling
  <2>11. service' \in Versions /\ serviceFeed' \in Seq(Versions)
    BY <2>10, VersionGrows, Zenon
  <2>12. ServiceTypeOK'
    BY <1>1, <2>2, <2>6, <2>10, <2>11, ServiceTypes, Zenon DEF ServiceTypeOK, Versions, Reconciling
  <2>13. QED
    BY <1>1, <1>3, <2>2, <2>4, <2>6, <2>7, <2>8, <2>10, <2>12, Zenon
<1>6. QED
  BY <1>4, <1>5

\* What Desired asks for.
LEMMA DesiredFacts ==
    ASSUME NEW s \in Services, NEW url \in Addrs \cup {TLS}, NEW pol \in Policies \cup {None}
    PROVE  /\ \A k \in Kinds : Desired(s, url, pol)[k] \in NewEndpoints \cup {None}
           /\ Desired(s, url, pol)["cloud"] = None <=> ~s.spec.verbose
           /\ Desired(s, url, pol)["agent"] # None
           /\ s.spec.verbose => Desired(s, url, pol)["cloud"].url = url
           /\ ~s.spec.verbose => Desired(s, url, pol)["agent"].url = url
<1> DEFINE New(k, u, q) == [kind |-> k, url |-> u, policy |-> q, domainRef |-> 0, deleting |-> FALSE]
           p == IF s.spec.policy THEN pol ELSE None
<1>1. p \in Policies \cup {None}
  BY Zenon
<1> HIDE DEF p
<1>2. \A k \in Kinds, u \in Addrs \cup {TLS, "internal"}, q \in Policies \cup {None} : New(k, u, q) \in NewEndpoints /\ New(k, u, q).url = u
  <2>1. 0 \in 0..2
    OBVIOUS
  <2>2. QED
    BY <2>1, Zenon DEF NewEndpoints, Endpoints
<1>3. Desired(s, url, pol) = [k \in Kinds |-> CASE s.spec.verbose /\ k = "agent" -> New(k, "internal", None)
                                                [] ~s.spec.verbose /\ k = "cloud" -> None
                                                [] OTHER -> New(k, url, p)]
  BY Zenon DEF Desired, p
<1> HIDE DEF New
<1>4. CASE s.spec.verbose
  <2>1. Desired(s, url, pol)["agent"] = New("agent", "internal", None)
    BY <1>3, <1>4, KindFacts, Zenon
  <2>2. Desired(s, url, pol)["cloud"] = New("cloud", url, p)
    BY <1>3, <1>4, KindFacts, Zenon
  <2>3. /\ New("agent", "internal", None) \in NewEndpoints /\ New("cloud", url, p) \in NewEndpoints
        /\ New("cloud", url, p).url = url
    BY <1>1, <1>2, KindFacts, Zenon
  <2>4. New("agent", "internal", None) # None /\ New("cloud", url, p) # None
    BY <2>3, NewFields, Zenon
  <2>5. QED
    BY <1>4, <2>1, <2>2, <2>3, <2>4, KindFacts, Zenon
<1>5. CASE ~s.spec.verbose
  <2>1. Desired(s, url, pol)["agent"] = New("agent", url, p)
    BY <1>3, <1>5, KindFacts, Zenon
  <2>2. Desired(s, url, pol)["cloud"] = None
    BY <1>3, <1>5, KindFacts, Zenon
  <2>3. New("agent", url, p) \in NewEndpoints /\ New("agent", url, p).url = url
    BY <1>1, <1>2, KindFacts, Zenon
  <2>4. New("agent", url, p) # None
    BY <2>3, NewFields, Zenon
  <2>5. QED
    BY <1>5, <2>1, <2>2, <2>3, <2>4, KindFacts, Zenon
<1>6. QED
  BY <1>4, <1>5

\* The policy matters only to a Service that refers to it.
LEMMA DesiredSame ==
    ASSUME NEW s, ~s.spec.policy, NEW url, NEW pol, NEW other
    PROVE  Desired(s, url, pol) = Desired(s, url, other)
  BY Zenon DEF Desired

LEMMA OneOwned ==
    ASSUME NEW S
    PROVE  /\ Alone(S) => (\E n \in S : S = {n}) /\ (CHOOSE n \in S : TRUE) \in S
           /\ S = {} => ~Alone(S)
  BY Zenon DEF Alone

LEMMA PlanFacts ==
    ASSUME NEW d \in NewEndpoints \cup {None}, NEW owned \in SUBSET Names
    PROVE  /\ Plan(d, owned) \in Plans
           /\ d # None /\ Alone(owned) => Plan(d, owned).write = d /\ Plan(d, owned).at \in owned
           /\ ~(d # None /\ Alone(owned)) => Plan(d, owned).delete = owned /\ Plan(d, owned).at = None
<1>1. CASE d = None
  <2>1. Plan(d, owned) = [Nothing EXCEPT !.delete = owned]
    BY <1>1, Zenon DEF Plan
  <2>2. /\ [Nothing EXCEPT !.delete = owned] \in Plans /\ [Nothing EXCEPT !.delete = owned].delete = owned
        /\ [Nothing EXCEPT !.delete = owned].at = None
    BY Zenon DEF Nothing, Plans
  <2>3. QED
    BY <1>1, <2>1, <2>2, Zenon
<1>2. CASE d # None /\ Alone(owned)
  <2> DEFINE n == CHOOSE n \in owned : TRUE
             p == [Nothing EXCEPT !.write = d, !.at = n]
  <2>1. Plan(d, owned) = p
    BY <1>2, Zenon DEF Plan
  <2>2. n \in owned /\ n \in Names
    BY <1>2, OneOwned, Zenon
  <2> HIDE DEF n
  <2>3. p \in Plans /\ p.write = d /\ p.at = n
    BY <1>2, <2>2, Zenon DEF Nothing, Plans
  <2>4. QED
    BY <1>2, <2>1, <2>2, <2>3, Zenon
<1>3. CASE d # None /\ ~Alone(owned)
  <2> DEFINE p == [Nothing EXCEPT !.delete = owned, !.write = d]
  <2>1. Plan(d, owned) = p
    BY <1>3, Zenon DEF Plan
  <2>2. p \in Plans /\ p.delete = owned /\ p.at = None
    BY Zenon DEF Nothing, Plans
  <2>3. QED
    BY <1>3, <2>1, <2>2, Zenon
<1>4. QED
  BY <1>1, <1>2, <1>3, Zenon

LEMMA ApplyingStep ==
    ASSUME ServiceTypeOK, rec.pc # "idle", NEW s \in Services, NEW url \in Addrs \cup {TLS},
           NEW pol \in Policies \cup {None}, NEW v, v = Applying(s, url, pol)
    PROVE  /\ v \in Recs /\ v.pc = "apply" /\ v.svc = s /\ v.fresh = rec.fresh /\ v.owned = rec.owned
           /\ \A k \in Kinds : v.plan[k] = Plan(Desired(s, url, pol)[k], rec.owned[k])
<1>1. PICK r \in Recs : rec = r
  BY RecTypes, Zenon
<1>2. r.owned \in [Kinds -> SUBSET Names]
  BY RecFields, Zenon
<1> DEFINE w == [k \in Kinds |-> Plan(Desired(s, url, pol)[k], r.owned[k])]
<1>3. \A k \in Kinds : Desired(s, url, pol)[k] \in NewEndpoints \cup {None} /\ r.owned[k] \in SUBSET Names
  BY <1>2, DesiredFacts, Zenon
<1>4. \A k \in Kinds : Plan(Desired(s, url, pol)[k], r.owned[k]) \in Plans
  BY <1>3, PlanFacts, Zenon
<1>5. w \in [Kinds -> Plans] /\ \A k \in Kinds : w[k] = Plan(Desired(s, url, pol)[k], r.owned[k])
  BY <1>4, Zenon
<1>6. v = [r EXCEPT !.pc = "apply", !.svc = s, !.url = None, !.policy = None, !.plan = w]
  BY <1>1, Zenon DEF Applying
<1> HIDE DEF w
<1>7. "apply" \in Steps
  BY DEF Steps
<1>8. v \in Recs
  BY <1>5, <1>6, <1>7, Zenon DEF Recs
<1>9. v.pc = "apply" /\ v.svc = s /\ v.fresh = r.fresh /\ v.owned = r.owned /\ v.plan = w
  BY <1>6, Zenon DEF Recs
<1>10. QED
  BY <1>1, <1>5, <1>8, <1>9, Zenon

Built ==
    rec' \in Recs /\ rec'.svc = rec.svc /\ rec'.fresh = rec.fresh /\ rec'.owned = rec.owned
BuiltPlan ==
    /\ Built /\ rec'.pc = "apply" /\ reserved' = reserved
    /\ Computed(rec.svc)
    /\ \A k \in Kinds : rec'.plan[k] = Plan(Desired(rec.svc, rec.svc.computed, policySeen)[k], rec.owned[k])
BuiltURL ==
    /\ Built /\ rec'.pc = "annotate"
    /\ rec'.url # None /\ rec'.url # rec.svc.computed
    /\ rec.svc.computed = None \/ rec.svc.spec.url = TLS
BuiltOld ==
    /\ Built /\ rec'.pc = "clear" /\ reserved' = reserved
    /\ rec.svc.computed # None /\ rec.svc.computed \notin reserved
    /\ rec'.url = rec.svc.computed

LEMMA BuildStep ==
    ASSUME ServiceTypeOK, buildEndpoints
    PROVE  /\ ServiceTypeOK'
           /\ rec.pc = "build"
           /\ \/ Again /\ reserved' = reserved
              \/ queued' = queued /\ (BuiltPlan \/ BuiltURL \/ BuiltOld)
           /\ Reconciling /\ UNCHANGED <<service, serviceFeed, endpoints, forgotten, misread>>
<1>1. Reconciling /\ UNCHANGED <<service, serviceFeed, endpoints, forgotten, misread>> /\ rec.pc = "build"
  BY Zenon DEF buildEndpoints, Reconciling, objects, caches, ghosts
<1>2. rec.pc # "idle"
  BY <1>1
<1>3. PICK r \in Recs : rec = r
  BY <1>2, RecTypes, Zenon
<1>4. PICK s \in Services : r.svc = s
  BY RecFields, Zenon
<1>5. s.computed \in Addrs \cup {TLS, None} /\ None \notin Addrs /\ TLS \notin Addrs /\ None # TLS
  BY ServiceFields, ServiceAssumption, Zenon
<1>6. reserved \in SUBSET Addrs /\ policySeen \in Policies \cup {None}
  BY ServiceTypes, Zenon
<1> DEFINE Go(pc, url) == [r EXCEPT !.pc = pc, !.url = url, !.policy = policySeen]
           Anew == \E a \in Addrs \ reserved : rec' = Go("annotate", a) /\ reserved' = reserved \cup {a}
<1>7. ASSUME NEW pc \in {"annotate", "clear"}, NEW url \in Addrs \cup {TLS}, rec' = Go(pc, url)
      PROVE  Built /\ rec'.pc = pc /\ rec'.url = url
  <2>1. pc \in Steps
    BY DEF Steps
  <2>2. rec' \in Recs
    BY <1>6, <1>7, <2>1, Zenon DEF Recs
  <2>3. rec'.pc = pc /\ rec'.url = url /\ rec'.svc = r.svc /\ rec'.fresh = r.fresh /\ rec'.owned = r.owned
    BY <1>7, Zenon DEF Recs
  <2>4. QED
    BY <1>3, <2>2, <2>3, Zenon DEF Built
<1>8. ASSUME s.computed \in Addrs \cup {TLS}, rec' = Applying(s, s.computed, policySeen), reserved' = reserved,
             Computed(s)
      PROVE  BuiltPlan
  <2>1. /\ rec' \in Recs /\ rec'.pc = "apply" /\ rec'.svc = s /\ rec'.fresh = rec.fresh /\ rec'.owned = rec.owned
        /\ \A k \in Kinds : rec'.plan[k] = Plan(Desired(s, s.computed, policySeen)[k], rec.owned[k])
    BY <1>2, <1>6, <1>8, ApplyingStep
  <2>2. rec.svc = s
    BY <1>3, <1>4, Zenon
  <2>3. QED
    BY <1>8, <2>1, <2>2, Zenon DEF BuiltPlan, Built
<1>9. \/ Again /\ reserved' = reserved
      \/ queued' = queued /\ reserved' \in SUBSET Addrs /\ (BuiltPlan \/ BuiltURL \/ BuiltOld)
  <2>1. CASE Requeue /\ reserved' = reserved
    BY <2>1, Zenon DEF Requeue, Again
  <2>2. CASE /\ queued' = queued
             /\ (CASE s.spec.url = TLS /\ s.computed = TLS ->
                        rec' = Applying(s, TLS, policySeen) /\ reserved' = reserved
                   [] s.spec.url = TLS /\ s.computed # TLS ->
                        rec' = Go("annotate", TLS) /\ reserved' = reserved
                   [] s.spec.url # TLS /\ s.computed = None -> Anew
                   [] s.spec.url # TLS /\ s.computed \in reserved ->
                        rec' = Applying(s, s.computed, policySeen) /\ reserved' = reserved
                   [] OTHER -> rec' = Go("clear", s.computed) /\ reserved' = reserved)
    <3> HIDE DEF Anew, Go
    <3>1. CASE s.spec.url = TLS /\ s.computed = TLS
      <4>1. rec' = Applying(s, s.computed, policySeen) /\ reserved' = reserved
        BY <2>2, <3>1, Zenon
      <4>2. BuiltPlan
        BY <1>5, <1>8, <3>1, <4>1, Zenon DEF Computed
      <4>3. QED
        BY <1>6, <2>2, <4>1, <4>2, Zenon
    <3>2. CASE s.spec.url = TLS /\ s.computed # TLS
      <4>1. rec' = Go("annotate", TLS) /\ reserved' = reserved
        BY <2>2, <3>2, Zenon
      <4>2. Built /\ rec'.pc = "annotate" /\ rec'.url = TLS
        BY <1>7, <4>1, Zenon
      <4>3. BuiltURL
        BY <1>3, <1>4, <1>5, <3>2, <4>2, Zenon DEF BuiltURL
      <4>4. QED
        BY <1>6, <2>2, <4>1, <4>3, Zenon
    <3>3. CASE s.spec.url # TLS /\ s.computed = None
      <4>1. Anew
        BY <1>5, <1>6, <2>2, <3>3, Zenon
      <4>2. PICK a \in Addrs : rec' = Go("annotate", a) /\ reserved' = reserved \cup {a}
        BY <4>1, Zenon DEF Anew
      <4>3. Built /\ rec'.pc = "annotate" /\ rec'.url = a
        BY <1>7, <4>2, Zenon
      <4>4. BuiltURL
        BY <1>3, <1>4, <1>5, <3>3, <4>3, Zenon DEF BuiltURL
      <4>5. QED
        BY <1>6, <2>2, <4>2, <4>4, Zenon
    <3>4. CASE s.spec.url # TLS /\ s.computed \in reserved
      <4>1. s.computed # None /\ s.computed \in Addrs /\ s.computed # TLS
        BY <1>5, <1>6, <3>4, Zenon
      <4>2. rec' = Applying(s, s.computed, policySeen) /\ reserved' = reserved
        BY <2>2, <3>4, <4>1, Zenon
      <4>3. BuiltPlan
        BY <1>8, <3>4, <4>1, <4>2, Zenon DEF Computed
      <4>4. QED
        BY <1>6, <2>2, <4>2, <4>3, Zenon
    <3>5. CASE s.spec.url # TLS /\ s.computed # None /\ s.computed \notin reserved
      <4>1. rec' = Go("clear", s.computed) /\ reserved' = reserved
        BY <2>2, <3>5, Zenon
      <4>2. s.computed \in Addrs \cup {TLS}
        BY <1>5, <3>5, Zenon
      <4>3. Built /\ rec'.pc = "clear" /\ rec'.url = s.computed
        BY <1>7, <4>1, <4>2, Zenon
      <4>4. BuiltOld
        BY <1>3, <1>4, <3>5, <4>1, <4>3, Zenon DEF BuiltOld
      <4>5. QED
        BY <1>6, <2>2, <4>1, <4>4, Zenon
    <3>6. QED
      BY <3>1, <3>2, <3>3, <3>4, <3>5, Zenon
  <2>3. QED
    <3>1. rec = r /\ rec.svc = s
      BY <1>3, <1>4, Zenon
    <3>2. QED
      BY <2>1, <2>2, <3>1, Zenon DEF buildEndpoints, tcpAddressIsReserved
<1>10. rec' \in Recs \cup {NoRec} /\ reserved' \in SUBSET Addrs /\ queued' \in BOOLEAN
  BY <1>6, <1>9, ServiceTypes, Zenon DEF Again, BuiltPlan, BuiltURL, BuiltOld, Built
<1>11. ServiceTypeOK'
  BY <1>1, <1>10, ServiceTypes, Zenon DEF ServiceTypeOK, Versions, Reconciling
<1>12. QED
  BY <1>1, <1>9, <1>11, Zenon

\* An update of the Service with a copy that is up to date.
LEMMA UpdateServiceStep ==
    ASSUME ServiceTypeOK, FeedInv, CopyInv, rec.pc # "idle", NEW s \in Services, NEW after,
           s.finalizer = rec.svc.finalizer, s.deleting = rec.svc.deleting,
           UpdateService(s, after), serviceSeen' = serviceSeen, forgotten' = forgotten
    PROVE  \/ Again /\ VersionStays /\ VersionStep
           \/ /\ rec.fresh /\ rec.svc = service /\ service # None
              /\ rec' = after /\ queued' = queued /\ service' = s /\ VersionStep
<1>1. CASE ~rec.fresh
  <2>1. Again /\ VersionStays
    BY <1>1, Zenon DEF UpdateService, Requeue, Again, VersionStays
  <2>2. QED
    BY <2>1, Zenon DEF VersionStep
<1>2. CASE rec.fresh
  <2>1. rec.svc = service /\ rec.svc \in Services
    BY <1>2, RecTypes, RecFields, Zenon DEF CopyInv
  <2>2. PICK o \in Services : service = o /\ rec.svc = o
    BY <2>1, Zenon
  <2>3. o # None /\ s # None
    BY ServiceFields, Zenon
  <2>4. /\ service' = s /\ rec' = after /\ queued' = queued
        /\ serviceFeed' = IF service' = service THEN serviceFeed ELSE Append(serviceFeed, service')
    BY <1>2, Zenon DEF UpdateService, Store
  <2>5. o.deleting => o.finalizer
    BY <2>2, <2>3, Zenon DEF FeedInv, DeletingAt
  <2>6. s.finalizer = o.finalizer /\ s.deleting = o.deleting
    BY <2>2, Zenon
  <2>7. VersionMoves
    BY <2>2, <2>3, <2>4, <2>5, <2>6, Zenon DEF VersionMoves, Versions
  <2>8. QED
    BY <1>2, <2>2, <2>3, <2>4, <2>7, Zenon DEF VersionStep
<1>3. QED
  BY <1>1, <1>2

\* The annotation is written, and the reconcile goes on with what it has written.
LEMMA AnnotationStep ==
    ASSUME ServiceTypeOK, FeedInv, CopyInv, setComputedURLAnnotation \/ clearComputedURLAnnotation
    PROVE  /\ ServiceTypeOK'
           /\ rec.pc = "annotate" \/ rec.pc = "clear"
           /\ VersionStep
           /\ \/ Again /\ VersionStays
              \/ /\ rec.fresh /\ rec.svc = service /\ service # None
                 /\ queued' = queued
                 /\ rec' \in Recs /\ rec'.pc = "apply" /\ rec'.svc = service' /\ rec'.owned = rec.owned
                 /\ service' # None /\ service' # service /\ service'.finalizer = rec.svc.finalizer
                 /\ rec.pc = "clear" \/ service'.computed = rec.url
           /\ Reconciling /\ UNCHANGED <<endpoints, reserved, forgotten, misread>>
<1>1. /\ Reconciling /\ UNCHANGED <<endpoints, reserved, forgotten, misread>> /\ serviceSeen' = serviceSeen
      /\ rec.pc = "annotate" \/ rec.pc = "clear"
  BY Zenon DEF setComputedURLAnnotation, clearComputedURLAnnotation, Reconciling, caches, outside, ghosts
<1>2. rec.pc # "idle"
  BY <1>1
<1>3. PICK r \in Recs : rec = r
  BY <1>2, RecTypes, Zenon
<1>4. PICK o \in Services : r.svc = o
  BY RecFields, Zenon
<1>5. o.computed \in Addrs \cup {TLS, None} /\ r.url \in Addrs \cup {TLS, None} /\ r.policy \in Policies \cup {None}
  BY ServiceFields, RecFields, Zenon
<1>6. r.url \in Addrs \cup {TLS}
  BY <1>1, <1>2, <1>3, <1>4, <1>5, Zenon DEF CopyInv
<1>7. PICK c \in Addrs \cup {TLS, None} :
         /\ UpdateService([o EXCEPT !.computed = c], Applying([o EXCEPT !.computed = c], r.url, r.policy))
         /\ c # o.computed /\ (rec.pc = "clear" \/ c = rec.url)
  <2>1. CASE setComputedURLAnnotation
    <3>1. rec.pc = "annotate" /\ r.url # o.computed
      BY <1>2, <1>3, <1>4, <2>1, Zenon DEF CopyInv, setComputedURLAnnotation
    <3>2. UpdateService([o EXCEPT !.computed = r.url], Applying([o EXCEPT !.computed = r.url], r.url, r.policy))
      BY <1>3, <1>4, <2>1, Zenon DEF setComputedURLAnnotation
    <3>3. QED
      BY <1>3, <1>5, <3>1, <3>2, Zenon
  <2>2. CASE clearComputedURLAnnotation
    <3>1. rec.pc = "clear" /\ o.computed # None
      BY <1>2, <1>3, <1>4, <2>2, Zenon DEF CopyInv, clearComputedURLAnnotation
    <3>2. UpdateService([o EXCEPT !.computed = None], Applying([o EXCEPT !.computed = None], r.url, r.policy))
      BY <1>3, <1>4, <2>2, Zenon DEF clearComputedURLAnnotation
    <3>3. QED
      BY <3>1, <3>2, Zenon
  <2>3. QED
    BY <2>1, <2>2, Zenon
<1> DEFINE s == [o EXCEPT !.computed = c]
           v == Applying(s, r.url, r.policy)
<1>8. s \in Services
  BY Zenon DEF Services
<1>9. s.computed = c /\ s.finalizer = o.finalizer /\ s.deleting = o.deleting
  BY Zenon DEF Services
<1>10. UpdateService(s, v) /\ v = Applying(s, r.url, r.policy)
  BY <1>7, Zenon
<1> HIDE DEF s, v
<1>11. v \in Recs /\ v.pc = "apply" /\ v.svc = s /\ v.fresh = rec.fresh /\ v.owned = rec.owned
       /\ \A k \in Kinds : v.plan[k] = Plan(Desired(s, r.url, r.policy)[k], rec.owned[k])
  BY <1>2, <1>5, <1>6, <1>8, <1>10, ApplyingStep
<1>12. s.finalizer = rec.svc.finalizer /\ s.deleting = rec.svc.deleting
  BY <1>3, <1>4, <1>9, Zenon
<1>13. \/ Again /\ VersionStays /\ VersionStep
       \/ /\ rec.fresh /\ rec.svc = service /\ service # None
          /\ rec' = v /\ queued' = queued /\ service' = s /\ VersionStep
  BY <1>1, <1>2, <1>8, <1>10, <1>12, UpdateServiceStep, Zenon
<1>14. VersionStep /\ rec' \in Recs \cup {NoRec} /\ queued' \in BOOLEAN
  BY <1>11, <1>13, ServiceTypes, Zenon DEF Again
<1>15. service' \in Versions /\ serviceFeed' \in Seq(Versions)
  BY <1>14, VersionGrows, Zenon
<1>16. ServiceTypeOK'
  BY <1>1, <1>14, <1>15, ServiceTypes, Zenon DEF ServiceTypeOK, Versions, Reconciling
<1>17. s # o /\ s # None
  BY <1>7, <1>8, <1>9, ServiceFields, Zenon
<1>18. QED
  BY <1>1, <1>3, <1>4, <1>7, <1>9, <1>11, <1>12, <1>13, <1>14, <1>16, <1>17, Zenon

\* What a call of a sub-reconciler does, if it does not fail.
Deletes(k) ==
    \E n \in rec.plan[k].delete :
       /\ endpoints'[n] # None /\ endpoints'[n].deleting
       /\ rec'.plan[k].delete = rec.plan[k].delete \ {n} /\ rec'.plan[k].at = rec.plan[k].at
       /\ rec'.plan[k].write = rec.plan[k].write
Overwrites(k) ==
    LET n == rec.plan[k].at
        e == endpointsSeen[n]
        new == Merge(e, rec.plan[k].write)
    IN /\ rec.pc = "apply" /\ n # None /\ e # None
       /\ new = e \/ endpoints'[n] = new
       /\ rec'.plan[k] = Nothing
Creates(k) ==
    /\ rec.pc = "apply" /\ rec.plan[k].write # None /\ rec.plan[k].at = None /\ rec.plan[k].delete = {}
    /\ rec'.plan[k] = Nothing
Works(k) ==
    /\ rec'.failed = rec.failed
    /\ \A j \in Kinds : j # k => rec'.plan[j] = rec.plan[j]
    /\ Deletes(k) \/ Overwrites(k) \/ Creates(k)

Called(k) ==
    /\ rec.pc # "idle" /\ rec' \in Recs /\ RecKeeps
    /\ rec'.failed = TRUE \/ Works(k)
    /\ EndpointsAge
    /\ UNCHANGED <<service, serviceFeed, reserved, queued, forgotten, misread>> /\ Reconciling

LEMMA Calling ==
    ASSUME ServiceTypeOK, rec' \in Recs, endpoints' \in [Names -> Endpoints \cup {None}],
           UNCHANGED <<service, serviceFeed, reserved, queued, forgotten, misread>>, Reconciling
    PROVE  ServiceTypeOK'
  BY ServiceTypes, Zenon DEF ServiceTypeOK, Versions, Reconciling

LEMMA DeleteOwnedStep ==
    ASSUME ServiceTypeOK, NEW k \in Kinds, deleteOwned(k)
    PROVE  ServiceTypeOK' /\ Called(k)
<1>1. /\ UNCHANGED <<service, serviceFeed, reserved, queued, forgotten, misread>> /\ Reconciling
      /\ rec.pc \in {"cleanup", "apply"}
  BY Zenon DEF deleteOwned, Reconciling, caches, outside, ghosts
<1>2. rec.pc # "idle" /\ DomainMoves /\ endpointsSeen' = endpointsSeen
  <2>1. rec.pc # "idle"
    BY <1>1
  <2>2. QED
    BY <1>1, <2>1, Zenon DEF DomainMoves, Reconciling
<1>3. PICK p \in Plans : rec.plan[k] = p
  BY <1>2, RecTypes, RecFields, Zenon
<1>4. p.delete \in SUBSET Names
  BY PlanTypes, Zenon
<1>5. PICK n \in p.delete :
         IF endpoints[n] = None THEN Fails(k)
         ELSE /\ endpoints' = [endpoints EXCEPT ![n].deleting = TRUE]
              /\ After(k, [p EXCEPT !.delete = @ \ {n}])
  BY <1>3, Zenon DEF deleteOwned
<1>6. n \in Names
  BY <1>4, Zenon
<1>7. CASE Fails(k)
  <2>1. rec' \in Recs /\ RecKeeps /\ rec'.failed = TRUE /\ endpoints' = endpoints
    BY <1>2, <1>7, FailStep, Zenon
  <2>2. endpoints' \in [Names -> Endpoints \cup {None}] /\ \A m \in Names : Ages(m)
    BY <2>1, AgesNot, ServiceTypes, Zenon
  <2>3. ServiceTypeOK'
    BY <1>1, <2>1, <2>2, Calling, Zenon
  <2>4. QED
    BY <1>1, <1>2, <2>1, <2>2, <2>3, Zenon DEF Called, EndpointsAge
<1>8. CASE endpoints[n] # None /\ endpoints' = [endpoints EXCEPT ![n].deleting = TRUE]
           /\ After(k, [p EXCEPT !.delete = @ \ {n}])
  <2> DEFINE q == [p EXCEPT !.delete = @ \ {n}]
  <2>1. q \in Plans
    BY Zenon DEF Plans
  <2>2. q.delete = p.delete \ {n} /\ q.at = p.at /\ q.write = p.write
    BY Zenon DEF Plans
  <2>3. rec' = [rec EXCEPT !.plan[k] = q]
    BY <1>8, Zenon DEF After
  <2> HIDE DEF q
  <2>4. /\ rec' \in Recs /\ RecKeeps /\ rec'.failed = rec.failed
        /\ rec'.plan[k] = q /\ \A j \in Kinds : j # k => rec'.plan[j] = rec.plan[j]
    BY <1>2, <2>1, <2>3, PlanStep, Zenon
  <2>5. /\ endpoints' \in [Names -> Endpoints \cup {None}]
        /\ endpoints'[n] # None /\ endpoints'[n].deleting
        /\ \A m \in Names : Ages(m)
    BY <1>6, <1>8, CondemnStep, Zenon
  <2>6. Works(k)
    BY <1>3, <1>5, <2>2, <2>4, <2>5, Zenon DEF Works, Deletes
  <2>7. ServiceTypeOK'
    BY <1>1, <2>4, <2>5, Calling, Zenon
  <2>8. QED
    BY <1>1, <1>2, <2>4, <2>5, <2>6, <2>7, Zenon DEF Called, EndpointsAge
<1>9. QED
  BY <1>5, <1>7, <1>8, Zenon

LEMMA MergeFacts ==
    ASSUME NEW e \in Endpoints, NEW d \in Endpoints
    PROVE  /\ Merge(e, d) \in Endpoints /\ Merge(e, d) # None
           /\ Merge(e, d).domainRef = e.domainRef /\ Merge(e, d).deleting = e.deleting
           /\ Merge(e, d).url = d.url
<1>1. Merge(e, d) \in Endpoints
  BY Zenon DEF Merge, Endpoints
<1>2. Merge(e, d).domainRef = e.domainRef /\ Merge(e, d).deleting = e.deleting /\ Merge(e, d).url = d.url
  BY Zenon DEF Merge, Endpoints
<1>3. QED
  BY <1>1, <1>2, EndpointFields, Zenon

LEMMA UpdateOwnedStep ==
    ASSUME ServiceTypeOK, NEW k \in Kinds, updateOwned(k)
    PROVE  ServiceTypeOK' /\ Called(k)
<1>1. /\ UNCHANGED <<service, serviceFeed, reserved, queued, forgotten, misread>> /\ Reconciling
      /\ rec.pc = "apply"
  BY Zenon DEF updateOwned, Reconciling, caches, outside, ghosts
<1>2. rec.pc # "idle" /\ DomainMoves /\ endpointsSeen' = endpointsSeen
  <2>1. rec.pc # "idle"
    BY <1>1
  <2>2. QED
    BY <1>1, <2>1, Zenon DEF DomainMoves, Reconciling
<1>3. PICK p \in Plans : rec.plan[k] = p
  BY <1>2, RecTypes, RecFields, Zenon
<1>4. p.at # None
  BY <1>3, Zenon DEF updateOwned
<1>5. PICK n \in Names : p.at = n
  BY <1>4, PlanTypes, Zenon
<1>6. PICK d \in Endpoints : p.write = d
  BY <1>4, PlanTypes, NewFields, Zenon
<1>7. CASE Fails(k)
  <2>1. rec' \in Recs /\ RecKeeps /\ rec'.failed = TRUE /\ endpoints' = endpoints
    BY <1>2, <1>7, FailStep, Zenon
  <2>2. endpoints' \in [Names -> Endpoints \cup {None}] /\ \A m \in Names : Ages(m)
    BY <2>1, AgesNot, ServiceTypes, Zenon
  <2>3. ServiceTypeOK'
    BY <1>1, <2>1, <2>2, Calling, Zenon
  <2>4. QED
    BY <1>1, <1>2, <2>1, <2>2, <2>3, Zenon DEF Called, EndpointsAge
<1>8. CASE /\ endpointsSeen[n] # None
           /\ Merge(endpointsSeen[n], d) = endpointsSeen[n] \/ endpoints[n] = endpointsSeen[n]
           /\ endpoints' = IF Merge(endpointsSeen[n], d) = endpointsSeen[n] THEN endpoints
                           ELSE [endpoints EXCEPT ![n] = Merge(endpointsSeen[n], d)]
           /\ After(k, Nothing)
  <2>1. PICK e \in Endpoints : endpointsSeen[n] = e
    BY <1>8, EndpointTypes, Zenon
  <2>2. PICK f \in Endpoints : f = Merge(e, d) /\ f # None /\ f.domainRef = e.domainRef /\ f.deleting = e.deleting
    BY MergeFacts, Zenon
  <2>3. rec' = [rec EXCEPT !.plan[k] = Nothing] /\ Nothing \in Plans
    BY <1>8, NothingFacts, Zenon DEF After
  <2>4. /\ rec' \in Recs /\ RecKeeps /\ rec'.failed = rec.failed
        /\ rec'.plan[k] = Nothing /\ \A j \in Kinds : j # k => rec'.plan[j] = rec.plan[j]
    BY <1>2, <2>3, PlanStep, Zenon
  <2>5. /\ endpoints' \in [Names -> Endpoints \cup {None}]
        /\ \A m \in Names : Ages(m)
        /\ f = e \/ endpoints'[n] = f
    <3>1. endpoints \in [Names -> Endpoints \cup {None}]
      BY ServiceTypes, Zenon
    <3>2. CASE f = e
      <4>1. endpoints' = endpoints
        BY <1>8, <2>1, <2>2, <3>2, Zenon
      <4>2. QED
        BY <3>1, <3>2, <4>1, AgesNot, Zenon
    <3>3. CASE f # e
      <4>1. endpoints' = [endpoints EXCEPT ![n] = f] /\ endpoints[n] = e
        BY <1>8, <2>1, <2>2, <3>3, Zenon
      <4>2. endpoints' \in [Names -> Endpoints \cup {None}] /\ endpoints'[n] = f
            /\ \A m \in Names : m # n => endpoints'[m] = endpoints[m]
        BY <3>1, <4>1, Zenon
      <4>3. Ages(n)
        BY <2>1, <2>2, <4>1, <4>2, EndpointFields, Zenon DEF Ages, Rewritten
      <4>4. QED
        BY <4>2, <4>3, Zenon DEF Ages
    <3>4. QED
      BY <3>2, <3>3, Zenon
  <2>6. Works(k)
    BY <1>1, <1>3, <1>4, <1>5, <1>6, <1>8, <2>1, <2>2, <2>4, <2>5, Zenon DEF Works, Overwrites
  <2>7. ServiceTypeOK'
    BY <1>1, <2>4, <2>5, Calling, Zenon
  <2>8. QED
    BY <1>1, <1>2, <2>4, <2>5, <2>6, <2>7, Zenon DEF Called, EndpointsAge
<1>9. QED
  BY <1>3, <1>5, <1>6, <1>7, <1>8, Zenon DEF updateOwned

LEMMA CreateOwnedStep ==
    ASSUME ServiceTypeOK, NEW k \in Kinds, createOwned(k)
    PROVE  ServiceTypeOK' /\ Called(k)
<1>1. /\ UNCHANGED <<service, serviceFeed, reserved, queued, forgotten, misread>> /\ Reconciling
      /\ rec.pc = "apply" /\ After(k, Nothing)
      /\ rec.plan[k].write # None /\ rec.plan[k].at = None /\ rec.plan[k].delete = {}
  BY Zenon DEF createOwned, Reconciling, caches, outside, ghosts
<1>2. rec.pc # "idle" /\ DomainMoves /\ endpointsSeen' = endpointsSeen
  <2>1. rec.pc # "idle"
    BY <1>1
  <2>2. QED
    BY <1>1, <2>1, Zenon DEF DomainMoves, Reconciling
<1>3. PICK p \in Plans : rec.plan[k] = p
  BY <1>2, RecTypes, RecFields, Zenon
<1>4. PICK d \in NewEndpoints : p.write = d
  BY <1>1, <1>3, PlanTypes, Zenon
<1>5. PICK n \in Names : endpoints[n] = None /\ endpointsSeen[n] = None /\ endpoints' = [endpoints EXCEPT ![n] = d]
  BY <1>3, <1>4, Zenon DEF createOwned, Existing
<1>6. rec' = [rec EXCEPT !.plan[k] = Nothing] /\ Nothing \in Plans
  BY <1>1, NothingFacts, Zenon DEF After
<1>7. /\ rec' \in Recs /\ RecKeeps /\ rec'.failed = rec.failed
      /\ rec'.plan[k] = Nothing /\ \A j \in Kinds : j # k => rec'.plan[j] = rec.plan[j]
  BY <1>2, <1>6, PlanStep, Zenon
<1>8. endpoints' \in [Names -> Endpoints \cup {None}] /\ endpoints'[n] = d
      /\ \A m \in Names : m # n => endpoints'[m] = endpoints[m]
  <2>1. endpoints \in [Names -> Endpoints \cup {None}]
    BY ServiceTypes, Zenon
  <2>2. QED
    BY <1>5, <2>1, NewFields, Zenon
<1>9. \A m \in Names : Ages(m)
  <2>1. Ages(n)
    BY <1>5, <1>8, NewFields, Zenon DEF Ages, Created
  <2>2. QED
    BY <1>8, <2>1, Zenon DEF Ages
<1>10. Works(k)
  BY <1>1, <1>7, Zenon DEF Works, Creates
<1>11. ServiceTypeOK'
  BY <1>1, <1>7, <1>8, Calling, Zenon
<1>12. QED
  BY <1>1, <1>2, <1>7, <1>9, <1>10, <1>11, Zenon DEF Called, EndpointsAge

LEMMA CancelledStep ==
    ASSUME ServiceTypeOK, NEW k \in Kinds, Cancelled(k)
    PROVE  ServiceTypeOK' /\ Called(k)
<1>1. /\ UNCHANGED <<service, serviceFeed, reserved, queued, forgotten, misread>> /\ Reconciling
      /\ rec.failed /\ After(k, Nothing) /\ endpoints' = endpoints
  BY Zenon DEF Cancelled, Reconciling, objects, caches, outside, ghosts
<1>2. rec.pc # "idle" /\ DomainMoves /\ endpointsSeen' = endpointsSeen
  BY <1>1, RecTypes, NoRecFacts, Zenon DEF DomainMoves, Reconciling
<1>3. rec' = [rec EXCEPT !.plan[k] = Nothing] /\ Nothing \in Plans
  BY <1>1, NothingFacts, Zenon DEF After
<1>4. /\ rec' \in Recs /\ RecKeeps /\ rec'.failed = rec.failed
      /\ rec'.plan[k] = Nothing /\ \A j \in Kinds : j # k => rec'.plan[j] = rec.plan[j]
  BY <1>2, <1>3, PlanStep, Zenon
<1>5. endpoints' \in [Names -> Endpoints \cup {None}] /\ \A m \in Names : Ages(m)
  BY <1>1, AgesNot, ServiceTypes, Zenon
<1>6. ServiceTypeOK'
  BY <1>1, <1>4, <1>5, Calling, Zenon
<1>7. rec'.failed = TRUE
  BY <1>1, <1>2, <1>4, RecTypes, RecFields, Zenon
<1>8. QED
  BY <1>1, <1>2, <1>4, <1>5, <1>6, <1>7, Zenon DEF Called, EndpointsAge

LEMMA StatusTypes ==
    ASSUME ServiceTypeOK, NEW s \in Services, NEW n
    PROVE  StatusFor(s, n) \in Statuses
<1>1. domainSeen \in {"plain", "cname", None}
  BY ServiceTypes, Zenon
<1>2. CASE s.computed \in Addrs
  BY <1>2, ServiceAssumption, Zenon DEF StatusFor, Statuses
<1>3. CASE s.computed \notin Addrs /\ s.computed = TLS /\ endpointsSeen[n].domainRef > 0
  BY <1>1, <1>3, Zenon DEF StatusFor, Statuses
<1>4. CASE s.computed \notin Addrs /\ ~(s.computed = TLS /\ endpointsSeen[n].domainRef > 0)
  BY <1>4, Zenon DEF StatusFor, Statuses
<1>5. QED
  BY <1>2, <1>3, <1>4, Zenon

\* The ends of the sub-reconcilers, other than a retry.
Onward == rec' \in Recs /\ rec'.svc = rec.svc /\ rec'.fresh = rec.fresh /\ rec'.owned = rec.owned
Cleaned == rec.pc = "cleanup" /\ Onward /\ rec'.pc = "release" /\ misread' = misread
Applied ==
    /\ rec.pc = "apply"
    /\ \E n \in StatusObject(rec.svc) :
          \/ rec' = NoRec /\ StatusFor(rec.svc, n) = rec.svc.status
          \/ Onward /\ rec'.pc = "status" /\ rec'.status # rec.svc.status
    /\ misread' = (rec.svc.computed = TLS /\ domainSeen # domain)

LEMMA JoinedStep ==
    ASSUME ServiceTypeOK, Joined
    PROVE  /\ ServiceTypeOK'
           /\ rec.pc \in {"cleanup", "apply"} /\ \A k \in Kinds : rec.plan[k] = Nothing
           /\ \/ Again /\ misread' = misread
              \/ ~rec.failed /\ queued' = queued /\ (Cleaned \/ Applied)
           /\ Reconciling /\ UNCHANGED <<service, serviceFeed, endpoints, reserved, forgotten>>
<1>1. /\ Reconciling /\ UNCHANGED <<service, serviceFeed, endpoints, reserved, forgotten>>
      /\ rec.pc \in {"cleanup", "apply"} /\ \A k \in Kinds : rec.plan[k] = Nothing
  BY Zenon DEF Joined, AllDone, Done, Reconciling, objects, caches, outside
<1>2. rec.pc # "idle"
  BY <1>1
<1>3. PICK r \in Recs : rec = r
  BY <1>2, RecTypes, Zenon
<1>4. PICK s \in Services : r.svc = s
  BY RecFields, Zenon
<1>5. "release" \in Steps /\ "status" \in Steps /\ "cleanup" # "apply"
  BY DEF Steps
<1>6. r.failed \in BOOLEAN /\ r.status \in Statuses /\ misread \in BOOLEAN
  BY RecFields, ServiceTypes, Zenon
<1> DEFINE n == CHOOSE n \in StatusObject(s) : TRUE
<1>7. CASE r.failed
  <2>1. Requeue /\ misread' = misread
    BY <1>3, <1>7, Zenon DEF Joined
  <2>2. Again /\ misread' \in BOOLEAN
    BY <1>6, <2>1, Zenon DEF Again, Requeue
  <2>3. rec' \in Recs \cup {NoRec} /\ queued' \in BOOLEAN
    BY <2>2, Zenon DEF Again
  <2>4. ServiceTypeOK'
    BY <1>1, <2>2, <2>3, ServiceTypes, Zenon DEF ServiceTypeOK, Versions, Reconciling
  <2>5. QED
    BY <1>1, <2>1, <2>2, <2>4, Zenon
<1>8. CASE ~r.failed /\ r.pc = "cleanup"
  <2>1. /\ Requeue \/ (rec' = [r EXCEPT !.pc = "release"] /\ queued' = queued)
        /\ misread' = misread
    BY <1>3, <1>4, <1>5, <1>8, Zenon DEF Joined
  <2>2. rec' = [r EXCEPT !.pc = "release"] => Cleaned
    <3>1. ASSUME rec' = [r EXCEPT !.pc = "release"]
          PROVE  rec' \in Recs
      BY <1>5, <3>1, Zenon DEF Recs
    <3>2. ASSUME rec' = [r EXCEPT !.pc = "release"]
          PROVE  rec'.pc = "release" /\ rec'.svc = r.svc /\ rec'.fresh = r.fresh /\ rec'.owned = r.owned
      BY <3>2, Zenon DEF Recs
    <3>3. QED
      BY <1>3, <1>8, <2>1, <3>1, <3>2, Zenon DEF Cleaned, Onward
  <2>3. (Again \/ (queued' = queued /\ Cleaned)) /\ misread' \in BOOLEAN
    BY <1>6, <2>1, <2>2, Zenon DEF Again, Requeue
  <2>4. rec' \in Recs \cup {NoRec} /\ queued' \in BOOLEAN
    BY <2>3, ServiceTypes, Zenon DEF Again, Cleaned, Onward
  <2>5. ServiceTypeOK'
    BY <1>1, <2>3, <2>4, ServiceTypes, Zenon DEF ServiceTypeOK, Versions, Reconciling
  <2>6. QED
    BY <1>1, <1>3, <1>8, <2>1, <2>3, <2>5, Zenon
<1>9. CASE ~r.failed /\ r.pc = "apply" /\ StatusObject(s) = {}
  <2>1. Requeue /\ misread' = misread
    BY <1>3, <1>4, <1>5, <1>9, Zenon DEF Joined
  <2>2. Again /\ misread' \in BOOLEAN
    BY <1>6, <2>1, Zenon DEF Again, Requeue
  <2>3. rec' \in Recs \cup {NoRec} /\ queued' \in BOOLEAN
    BY <2>2, Zenon DEF Again
  <2>4. ServiceTypeOK'
    BY <1>1, <2>2, <2>3, ServiceTypes, Zenon DEF ServiceTypeOK, Versions, Reconciling
  <2>5. QED
    BY <1>1, <2>1, <2>2, <2>4, Zenon
<1>10. CASE ~r.failed /\ r.pc = "apply" /\ StatusObject(s) # {}
  <2>1. /\ IF StatusFor(s, n) = s.status THEN rec' = NoRec
           ELSE rec' = [r EXCEPT !.pc = "status", !.status = StatusFor(s, n)]
        /\ misread' = (s.computed = TLS /\ domainSeen # domain)
        /\ queued' = queued
    BY <1>3, <1>4, <1>5, <1>10, Zenon DEF Joined
  <2>2. n \in StatusObject(s)
    BY <1>10, Zenon
  <2> HIDE DEF n
  <2>3. StatusFor(s, n) \in Statuses
    BY StatusTypes, Zenon
  <2>4. ASSUME StatusFor(s, n) # s.status
        PROVE  /\ rec' \in Recs /\ rec'.pc = "status" /\ rec'.status = StatusFor(s, n)
               /\ rec'.svc = r.svc /\ rec'.fresh = r.fresh /\ rec'.owned = r.owned
    <3>1. PICK st \in Statuses : st = StatusFor(s, n)
      BY <2>3, Zenon
    <3>2. rec' = [r EXCEPT !.pc = "status", !.status = st]
      BY <2>1, <2>4, <3>1, Zenon
    <3>3. rec' \in Recs
      BY <1>5, <3>2, Zenon DEF Recs, Statuses
    <3>4. /\ rec'.pc = "status" /\ rec'.status = st
          /\ rec'.svc = r.svc /\ rec'.fresh = r.fresh /\ rec'.owned = r.owned
      BY <3>2, Zenon DEF Recs
    <3>5. QED
      BY <3>1, <3>3, <3>4, Zenon
  <2>5. \/ rec' = NoRec /\ StatusFor(s, n) = s.status
        \/ Onward /\ rec'.pc = "status" /\ rec'.status # s.status
    BY <1>3, <2>1, <2>4, Zenon DEF Onward
  <2>6. Applied
    BY <1>3, <1>4, <1>10, <2>1, <2>2, <2>5, Zenon DEF Applied
  <2>7. rec' \in Recs \cup {NoRec} /\ queued' \in BOOLEAN /\ misread' \in BOOLEAN
    BY <2>1, <2>5, ServiceTypes, Zenon DEF Onward
  <2>8. ServiceTypeOK'
    BY <1>1, <2>7, ServiceTypes, Zenon DEF ServiceTypeOK, Versions, Reconciling
  <2>9. QED
    BY <1>1, <1>3, <1>10, <2>1, <2>6, <2>8, Zenon
<1>11. QED
  <2>1. r.pc = "cleanup" \/ r.pc = "apply"
    BY <1>1, <1>3, Zenon
  <2>2. QED
    BY <1>7, <1>8, <1>9, <1>10, <2>1, Zenon

LEMMA StatusStep ==
    ASSUME ServiceTypeOK, FeedInv, CopyInv, UpdateServiceStatus
    PROVE  /\ ServiceTypeOK'
           /\ rec.pc = "status"
           /\ VersionStep
           /\ \/ Again /\ VersionStays
              \/ /\ rec' = NoRec /\ queued' = queued
                 /\ service # None /\ service' # None /\ service' # service
                 /\ service'.computed = service.computed
           /\ Reconciling /\ UNCHANGED <<endpoints, reserved, forgotten, misread>>
<1>1. /\ Reconciling /\ UNCHANGED <<endpoints, reserved, forgotten, misread>> /\ serviceSeen' = serviceSeen
      /\ rec.pc = "status"
  BY Zenon DEF UpdateServiceStatus, Reconciling, caches, outside, ghosts
<1>2. rec.pc # "idle"
  BY <1>1
<1>3. PICK r \in Recs : rec = r
  BY <1>2, RecTypes, Zenon
<1>4. PICK o \in Services : r.svc = o
  BY RecFields, Zenon
<1>5. PICK st \in Statuses : r.status = st
  BY RecFields, Zenon
<1>6. st # o.status
  BY <1>1, <1>2, <1>3, <1>4, <1>5, Zenon DEF CopyInv
<1> DEFINE s == [o EXCEPT !.status = st]
<1>7. s \in Services
  BY Zenon DEF Services, Statuses
<1>8. s.status = st /\ s.finalizer = o.finalizer /\ s.deleting = o.deleting /\ s.computed = o.computed
  BY Zenon DEF Services
<1>9. UpdateService(s, NoRec)
  BY <1>3, <1>4, <1>5, Zenon DEF UpdateServiceStatus
<1> HIDE DEF s
<1>10. s.finalizer = rec.svc.finalizer /\ s.deleting = rec.svc.deleting
  BY <1>3, <1>4, <1>8, Zenon
<1>11. \/ Again /\ VersionStays /\ VersionStep
       \/ /\ rec.fresh /\ rec.svc = service /\ service # None
          /\ rec' = NoRec /\ queued' = queued /\ service' = s /\ VersionStep
  BY <1>1, <1>2, <1>7, <1>9, <1>10, UpdateServiceStep, Zenon
<1>12. VersionStep /\ rec' \in Recs \cup {NoRec} /\ queued' \in BOOLEAN
  BY <1>11, ServiceTypes, Zenon DEF Again
<1>13. service' \in Versions /\ serviceFeed' \in Seq(Versions)
  BY <1>12, VersionGrows, Zenon
<1>14. ServiceTypeOK'
  BY <1>1, <1>12, <1>13, ServiceTypes, Zenon DEF ServiceTypeOK, Versions, Reconciling
<1>15. s # o /\ s # None
  BY <1>6, <1>7, <1>8, ServiceFields, Zenon
<1>16. QED
  BY <1>1, <1>3, <1>4, <1>8, <1>11, <1>12, <1>14, <1>15, Zenon

Released ==
    /\ rec.svc.finalizer /\ service # None
    /\ service.deleting => service' = None
    /\ ~service.deleting => service' # None /\ ~service'.finalizer /\ service'.computed = service.computed

LEMMA ReleaseStep ==
    ASSUME ServiceTypeOK, Release
    PROVE  /\ ServiceTypeOK'
           /\ rec.pc = "release" /\ rec' = NoRec
           /\ VersionStep
           /\ \/ Again /\ VersionStays
              \/ queued' = queued /\ VersionStays /\ ~rec.svc.finalizer
              \/ queued' = queued /\ Released
           /\ Reconciling /\ UNCHANGED <<endpoints, reserved, forgotten, misread>>
<1>1. /\ Reconciling /\ UNCHANGED <<endpoints, reserved, forgotten, misread>> /\ serviceSeen' = serviceSeen
      /\ rec.pc = "release"
  BY Zenon DEF Release, Reconciling, caches, outside, ghosts
<1>2. \/ Again /\ VersionStays
      \/ queued' = queued /\ VersionStays /\ ~rec.svc.finalizer /\ rec' = NoRec
      \/ queued' = queued /\ Released /\ rec' = NoRec /\ VersionMoves
  <2>1. CASE ~rec.svc.finalizer
    BY <2>1, Zenon DEF Release, Finished, VersionStays
  <2>2. CASE rec.svc.finalizer /\ service = None
    BY <2>2, Zenon DEF Release, Requeue, Again, VersionStays
  <2>3. CASE rec.svc.finalizer /\ service # None
    <3>1. /\ Store(IF service.deleting THEN None ELSE [service EXCEPT !.finalizer = FALSE])
          /\ Finished
      BY <2>3, Zenon DEF Release
    <3>2. PICK s \in Services : service = s
      BY <2>3, ServiceTypes, Zenon DEF Versions
    <3>3. CASE s.deleting
      <4>1. Store(None)
        BY <3>1, <3>2, <3>3, Zenon
      <4>2. service' = None
            /\ serviceFeed' = IF service' = service THEN serviceFeed ELSE Append(serviceFeed, service')
        BY <4>1, Zenon DEF Store
      <4>3. QED
        BY <2>3, <3>1, <3>2, <3>3, <4>2, Zenon DEF VersionMoves, Released, Finished, Versions, Unhandled
    <3>4. CASE ~s.deleting
      <4> DEFINE t == [s EXCEPT !.finalizer = FALSE]
      <4>1. t \in Services
        BY Zenon DEF Services
      <4>2. t.finalizer = FALSE /\ t.deleting = s.deleting /\ t.computed = s.computed
        BY Zenon DEF Services
      <4>3. Store(t)
        BY <3>1, <3>2, <3>4, Zenon
      <4> HIDE DEF t
      <4>4. service' = t /\ t # None
            /\ serviceFeed' = IF service' = service THEN serviceFeed ELSE Append(serviceFeed, service')
        BY <4>1, <4>3, ServiceFields, Zenon DEF Store
      <4>5. QED
        BY <2>3, <3>1, <3>2, <3>4, <4>1, <4>2, <4>4, Zenon DEF VersionMoves, Released, Finished, Versions
    <3>5. QED
      BY <3>3, <3>4
  <2>4. QED
    BY <2>1, <2>2, <2>3, Zenon
<1>3. VersionStep /\ rec' = NoRec /\ queued' \in BOOLEAN
  BY <1>1, <1>2, ServiceTypes, Zenon DEF VersionStep, Again
<1>4. service' \in Versions /\ serviceFeed' \in Seq(Versions)
  BY <1>3, VersionGrows, Zenon
<1>5. ServiceTypeOK'
  BY <1>1, <1>3, <1>4, ServiceTypes, Zenon DEF ServiceTypeOK, Versions, Reconciling
<1>6. QED
  BY <1>1, <1>2, <1>3, <1>5, Zenon

LEMMA FaultStep ==
    ASSUME ServiceTypeOK, Fault
    PROVE  /\ ServiceTypeOK' /\ rec # NoRec /\ Again
           /\ UNCHANGED <<service, serviceFeed, endpoints, serviceSeen, endpointsSeen, domain, forgotten>>
<1>1. /\ rec # NoRec /\ Again /\ ServiceEvent
      /\ UNCHANGED <<service, serviceFeed, endpoints, serviceSeen, endpointsSeen, policySeen, domainSeen, policy,
                     domain, reserved, forgotten, misread>>
  BY Zenon DEF Fault, Requeue, Again, objects, caches, outside, ghosts
<1>2. events' \in 0..MaxEvents
  BY <1>1, ServiceEventStep, Zenon
<1>3. ServiceTypeOK'
  BY <1>1, <1>2, ServiceTypes, Zenon DEF ServiceTypeOK, Versions, Again
<1>4. QED
  BY <1>1, <1>3, Zenon

\* After a restart the caches are those of the API server.
Renewed ==
    /\ rec' = NoRec /\ serviceSeen' = service /\ serviceFeed' = <<>> /\ endpointsSeen' = endpoints
    /\ UNCHANGED <<service, endpoints, domain>>
    /\ \/ queued' = TRUE
       \/ /\ ~Handled(service) /\ \A n \in Names : endpoints[n] = None
          /\ Unhandled(service) /\ service.finalizer => forgotten'

LEMMA RestartStep ==
    ASSUME ServiceTypeOK, RestartController
    PROVE  ServiceTypeOK' /\ Renewed
<1>1. /\ rec' = NoRec /\ serviceSeen' = service /\ serviceFeed' = <<>> /\ endpointsSeen' = endpoints
      /\ policySeen' = policy /\ domainSeen' = domain /\ ServiceEvent
      /\ UNCHANGED <<service, endpoints, policy, domain, reserved, misread>>
  BY Zenon DEF RestartController, outside
<1> DEFINE told == \/ service # None /\ Passes(None, service)
                   \/ Existing(endpoints) # {}
                   \/ service # None /\ service.spec.policy /\ policy # None
<1>2. queued' = told /\ forgotten' = (forgotten \/ (~told /\ service # None /\ service.finalizer))
  BY Zenon DEF RestartController
<1>3. events' \in 0..MaxEvents
  BY <1>1, ServiceEventStep, Zenon
<1>4. told \in BOOLEAN
  OBVIOUS
<1>5. queued' \in BOOLEAN /\ forgotten' \in BOOLEAN
  BY <1>2, <1>4, Zenon
<1>6. <<>> \in Seq(Services \cup {None})
  OBVIOUS
<1>7. ServiceTypeOK'
  BY <1>1, <1>3, <1>5, <1>6, ServiceTypes, Zenon DEF ServiceTypeOK, Versions
<1>8. ASSUME ~told
      PROVE  /\ ~Handled(service) /\ \A n \in Names : endpoints[n] = None
             /\ Unhandled(service) /\ service.finalizer => forgotten'
  <2>1. ~Handled(service)
    BY <1>8, Zenon DEF Passes, Handled
  <2>2. \A n \in Names : endpoints[n] = None
    BY <1>8, Zenon DEF Existing
  <2>3. Unhandled(service) /\ service.finalizer => forgotten'
    BY <1>2, <1>8, Zenon DEF Unhandled
  <2>4. QED
    BY <2>1, <2>2, <2>3
<1>9. queued' = TRUE \/ ~told
  BY <1>2, <1>4, Zenon
<1> HIDE DEF told
<1>10. QED
  BY <1>1, <1>7, <1>8, <1>9, Zenon DEF Renewed

Informed ==
    /\ queued' = TRUE
    /\ \A n \in Names : endpointsSeen'[n] = endpointsSeen[n] \/ endpointsSeen'[n] = endpoints[n]
    /\ \E n \in Names : endpointsSeen[n] # endpoints[n]
    /\ UNCHANGED <<service, serviceFeed, serviceSeen, endpoints, domain, reserved, rec, forgotten>>

LEMMA DeliverEndpointsStep ==
    ASSUME ServiceTypeOK, NEW k \in Kinds, DeliverEndpoints(k)
    PROVE  ServiceTypeOK' /\ Informed
<1>1. /\ queued' = TRUE
      /\ UNCHANGED <<service, serviceFeed, endpoints, serviceSeen, policySeen, domainSeen, policy, domain, reserved,
                     rec, forgotten, misread, events>>
  BY Zenon DEF DeliverEndpoints, objects, outside, ghosts
<1>2. PICK new \in SUBSET Names :
         /\ \E n \in new : endpointsSeen[n] # endpoints[n]
         /\ endpointsSeen' = [n \in Names |-> IF n \in new THEN endpoints[n] ELSE endpointsSeen[n]]
  BY Zenon DEF DeliverEndpoints
<1>3. endpoints \in [Names -> Endpoints \cup {None}] /\ endpointsSeen \in [Names -> Endpoints \cup {None}]
  BY ServiceTypes, Zenon
<1>4. /\ \A n \in Names : endpointsSeen'[n] = endpointsSeen[n] \/ endpointsSeen'[n] = endpoints[n]
      /\ endpointsSeen' \in [Names -> Endpoints \cup {None}]
  BY <1>2, <1>3, Zenon
<1>5. \E n \in Names : endpointsSeen[n] # endpoints[n]
  BY <1>2, Zenon
<1>6. ServiceTypeOK'
  BY <1>1, <1>4, ServiceTypes, Zenon DEF ServiceTypeOK, Versions
<1>7. QED
  BY <1>1, <1>4, <1>5, <1>6, Zenon DEF Informed

(***************************************************************************)
(* The invariant is kept.  First what does not depend on the reconcile.    *)
(***************************************************************************)
Core == FeedInv /\ BirthInv /\ FinalizerInv /\ RefInv /\ OrderInv
Work == CopyInv /\ UpdateInv /\ OwnedInv /\ RemovalInv /\ RestInv

LEMMA BirthKept ==
    ASSUME BirthInv, VersionStep, rec # NoRec \/ queued
    PROVE  BirthInv'
<1>1. SUFFICES ASSUME serviceSeen' = None
               PROVE  serviceFeed' = <<>> /\ service' = None
  BY Zenon DEF BirthInv
<1>2. serviceFeed = <<>> /\ service = None
  BY <1>1, Zenon DEF BirthInv, Unborn, VersionStep
<1>3. QED
  BY <1>2, Zenon DEF VersionStep, VersionMoves, VersionStays

LEMMA CoreKept ==
    ASSUME ServiceInv, ServiceTypeOK', VersionStep, EndpointsAge, rec.pc # "idle" \/ queued
    PROVE  Core'
<1>1. ServiceTypeOK /\ FeedInv /\ BirthInv /\ FinalizerInv /\ RefInv /\ OrderInv
  BY Zenon DEF ServiceInv
<1>2. rec # NoRec \/ queued
  BY NoRecFacts, Zenon
<1>3. FeedInv' /\ BirthInv' /\ FinalizerInv'
  BY <1>1, <1>2, FeedStep, BirthKept, FinalizerStep, Zenon
<1>4. RefInv' /\ OrderInv'
  BY <1>1, RefKept, OrderKept, Zenon
<1>5. QED
  BY <1>3, <1>4, Zenon DEF Core

LEMMA EndpointsStill ==
    ASSUME UNCHANGED <<endpoints, endpointsSeen, domain>>
    PROVE  EndpointsAge
  BY AgesNot, Zenon DEF EndpointsAge, DomainMoves

LEMMA CoreOuter ==
    ASSUME ServiceInv, ServiceTypeOK', Outer
    PROVE  Core'
<1>1. ServiceTypeOK /\ FeedInv /\ BirthInv /\ FinalizerInv /\ RefInv /\ OrderInv /\ VersionStep /\ EndpointsAge
  BY Zenon DEF ServiceInv, Outer
<1>2. FeedInv' /\ FinalizerInv'
  BY <1>1, FeedStep, FinalizerStep, Zenon
<1>3. RefInv' /\ OrderInv'
  BY <1>1, RefKept, OrderKept, Zenon
<1>4. BirthInv'
  <2>1. SUFFICES ASSUME serviceSeen' = None
                 PROVE  (serviceFeed' = <<>> /\ service' = None) \/ Unborn'
    BY Zenon DEF BirthInv
  <2>2. serviceSeen = None /\ endpointsSeen' = endpointsSeen /\ queued' = queued
    BY <1>1, <2>1, Zenon DEF VersionStep, EndpointsAge, Outer
  <2>3. CASE serviceFeed = <<>> /\ service = None
    BY <1>1, <2>3, Zenon DEF VersionStep, VersionMoves, VersionStays
  <2>4. CASE Unborn
    <3>1. rec' = NoRec
      <4>1. rec' \in Recs \cup {NoRec} /\ SameWork
        BY <1>1, RecSameStep, Zenon DEF Outer
      <4>2. rec'.pc = "idle"
        BY <2>4, <4>1, NoRecFacts, Zenon DEF Unborn, SameWork
      <4>3. QED
        BY <4>1, <4>2, RecFields, Zenon
    <3>2. \A n \in Names : endpoints'[n] = None /\ endpointsSeen'[n] = None
      BY <2>2, <2>4, Zenon DEF Unborn, Outer
    <3>3. service' # None => ~service'.finalizer
      <4>1. service' # None => service # None
        BY <1>1, Zenon DEF VersionStep, VersionMoves, VersionStays
      <4>2. QED
        BY <2>4, <4>1, Zenon DEF Unborn, Outer
    <3>4. FeedGrows
      BY <1>1, VersionGrows, Zenon
    <3>5. \A i \in DOMAIN serviceFeed' : serviceFeed'[i] # None => ~serviceFeed'[i].finalizer
      BY <2>4, <3>3, <3>4, Zenon DEF Unborn, FeedGrows
    <3>6. Unborn'
      BY <2>2, <2>4, <3>1, <3>2, <3>3, <3>5, Zenon DEF Unborn
    <3>7. QED
      BY <3>6
  <2>5. QED
    BY <1>1, <2>2, <2>3, <2>4, Zenon DEF BirthInv
<1>5. QED
  BY <1>2, <1>3, <1>4, Zenon DEF Core

LEMMA CoreDelivered ==
    ASSUME ServiceInv, ServiceTypeOK', DeliverService
    PROVE  Core'
<1>1. ServiceTypeOK /\ FeedInv /\ FinalizerInv /\ RefInv /\ OrderInv
  BY Zenon DEF ServiceInv
<1>2. FeedShrinks /\ serviceFeed # <<>>
  BY <1>1, DeliverServiceStep, Zenon
<1>3. UNCHANGED <<endpoints, endpointsSeen, domain, forgotten, service>>
  BY Zenon DEF DeliverService, outside, ghosts
<1>4. FeedInv' /\ FinalizerInv'
  BY <1>1, <1>2, <1>3, FeedDelivered, FinalizerDelivered, Zenon
<1>5. RefInv' /\ OrderInv'
  BY <1>1, <1>3, EndpointsStill, RefKept, OrderKept, Zenon
<1>6. BirthInv'
  <2>1. SUFFICES ASSUME serviceSeen' = None
                 PROVE  serviceFeed' = <<>> /\ service' = None
    BY Zenon DEF BirthInv
  <2>2. serviceFeed[1] = None /\ 1 \in DOMAIN serviceFeed
    BY <1>2, <2>1, Zenon DEF FeedShrinks
  <2>3. 1 = Len(serviceFeed)
    BY <1>1, <2>2, Zenon DEF FeedInv
  <2>4. service = None
    BY <1>1, <1>2, <2>2, <2>3, Zenon DEF FeedInv
  <2>5. Len(serviceFeed') = 0
    <3>1. Len(serviceFeed') = Len(serviceFeed) - 1
      BY <1>2, Zenon DEF FeedShrinks
    <3>2. QED
      BY <2>3, <3>1
  <2>6. PICK q \in Seq(Versions) : serviceFeed' = q
    BY DEF ServiceTypeOK, Versions
  <2>7. q = <<>>
    BY <2>5, <2>6
  <2>8. QED
    BY <1>3, <2>4, <2>6, <2>7, Zenon
<1>7. QED
  BY <1>4, <1>5, <1>6, Zenon DEF Core

LEMMA CoreInformed ==
    ASSUME ServiceInv, ServiceTypeOK', Informed
    PROVE  Core'
<1>1. FeedInv /\ BirthInv /\ FinalizerInv /\ RefInv /\ OrderInv /\ ServiceTypeOK
  BY Zenon DEF ServiceInv
<1>2. FeedInv' /\ FinalizerInv'
  <2>1. VersionStep
    BY Zenon DEF Informed, VersionStep, VersionStays
  <2>2. QED
    BY <1>1, <2>1, FeedStep, FinalizerStep, Zenon
<1>3. BirthInv'
  BY <1>1, Zenon DEF BirthInv, Unborn, Informed
<1>4. RefInv'
  BY <1>1, Zenon DEF RefInv, Informed
<1>5. OrderInv'
  <2>1. SUFFICES ASSUME NEW n \in Names, endpointsSeen'[n] # None, endpoints'[n] # None
                 PROVE  /\ endpointsSeen'[n].domainRef <= endpoints'[n].domainRef
                        /\ endpointsSeen'[n].deleting => endpoints'[n].deleting
    BY Zenon DEF OrderInv
  <2>2. CASE endpointsSeen'[n] = endpointsSeen[n]
    BY <1>1, <2>1, <2>2, Zenon DEF OrderInv, Informed
  <2>3. CASE endpointsSeen'[n] = endpoints'[n]
    <3>1. endpoints'[n].domainRef \in 0..2
      BY <1>1, <2>1, <2>3, EndpointTypes, EndpointFields, Zenon DEF Informed
    <3>2. QED
      BY <2>3, <3>1
  <2>4. QED
    BY <2>2, <2>3, Zenon DEF Informed
<1>6. QED
  BY <1>2, <1>3, <1>4, <1>5, Zenon DEF Core

LEMMA CoreRenewed ==
    ASSUME ServiceInv, Renewed
    PROVE  Core'
<1>1. FeedInv /\ RefInv /\ ServiceTypeOK
  BY Zenon DEF ServiceInv
<1>2. DOMAIN <<>> = {}
  OBVIOUS
<1>3. FeedInv'
  BY <1>1, <1>2, Zenon DEF FeedInv, DeletingAt, Renewed
<1>4. BirthInv'
  BY Zenon DEF BirthInv, Renewed
<1>5. FinalizerInv'
  BY <1>2, Zenon DEF FinalizerInv, Kept, Renewed
<1>6. RefInv'
  BY <1>1, Zenon DEF RefInv, Renewed
<1>7. OrderInv'
  <2>1. \A n \in Names : endpoints[n] # None => endpoints[n].domainRef \in 0..2
    BY <1>1, EndpointTypes, EndpointFields, Zenon
  <2>2. \A n \in Names : endpoints[n] # None => endpoints[n].domainRef <= endpoints[n].domainRef
    BY <2>1
  <2>3. QED
    BY <2>2, Zenon DEF OrderInv, Renewed
<1>8. QED
  BY <1>3, <1>4, <1>5, <1>6, <1>7, Zenon DEF Core

(***************************************************************************)
(* What a reconcile works towards.                                         *)
(***************************************************************************)

\* A retry leaves nothing to say.
LEMMA WorkAgain ==
    ASSUME rec' = NoRec, queued' = TRUE
    PROVE  Work'
  BY NoRecFacts, Zenon DEF Work, CopyInv, UpdateInv, OwnedInv, RemovalInv, RestInv

LEMMA CopyKept ==
    ASSUME CopyInv, VersionStep, reserved' \subseteq reserved,
           rec'.pc = rec.pc, rec'.svc = rec.svc, rec'.url = rec.url, rec'.status = rec.status,
           rec'.fresh => rec.fresh /\ service' = service
    PROVE  CopyInv'
<1>1. SUFFICES ASSUME rec.pc # "idle"
               PROVE  CopyInv'
  BY Zenon DEF CopyInv
<1>2. DeletingAt(rec.svc)
  BY <1>1, Zenon DEF CopyInv
<1>3. rec.svc # None /\ rec.svc.deleting => rec.svc.finalizer /\ (service' = None \/ service'.deleting)
  BY <1>2, DeletingKept, Zenon
<1>4. DeletingAt(rec.svc)'
  BY <1>3, Zenon DEF DeletingAt
<1>5. QED
  BY <1>1, <1>4, Zenon DEF CopyInv

\* The caches, as far as a reconcile reads them, stay.
CacheStays ==
    /\ serviceSeen' = serviceSeen /\ endpointsSeen' = endpointsSeen
    /\ policySeen' = policySeen \/ ~findServicesForTrafficPolicy

LEMMA CacheSame ==
    ASSUME CacheStays
    PROVE  /\ \A k \in Kinds : Owned(k)' = Owned(k)
           /\ Existing(endpointsSeen)' = Existing(endpointsSeen)
           /\ serviceSeen # None => \A k \in Kinds : Ask(k)' = Ask(k)
<1>1. /\ \A k \in Kinds : Owned(k)' = Owned(k)
      /\ Existing(endpointsSeen)' = Existing(endpointsSeen)
  BY Zenon DEF Owned, Existing, CacheStays
<1>2. ASSUME serviceSeen # None
      PROVE  \A k \in Kinds : Ask(k)' = Ask(k)
  <2>1. CASE policySeen' = policySeen
    BY <2>1, Zenon DEF Ask, CacheStays
  <2>2. CASE ~serviceSeen.spec.policy
    <3>1. Desired(serviceSeen, serviceSeen.computed, policySeen') = Desired(serviceSeen, serviceSeen.computed, policySeen)
      BY <2>2, DesiredSame, Zenon
    <3>2. QED
      BY <3>1, Zenon DEF Ask, CacheStays
  <2>3. QED
    BY <1>2, <2>1, <2>2, Zenon DEF CacheStays, findServicesForTrafficPolicy
<1>3. QED
  BY <1>1, <1>2

LEMMA FitsSame ==
    ASSUME CacheStays, serviceSeen # None
    PROVE  /\ \A k \in Kinds : Single(k)' <=> Single(k)
           /\ \A k \in Kinds : Fits(k)' <=> Fits(k)
           /\ Settled' <=> Settled
<1>1. /\ \A k \in Kinds : Owned(k)' = Owned(k)
      /\ \A k \in Kinds : Ask(k)' = Ask(k)
      /\ endpointsSeen' = endpointsSeen
  BY CacheSame, Zenon DEF CacheStays
<1>2. \A k \in Kinds : Single(k)' <=> Single(k)
  BY <1>1, Zenon DEF Single
<1>3. \A k \in Kinds : Fits(k)' <=> Fits(k)
  BY <1>1, Zenon DEF Fits
<1>4. QED
  BY <1>1, <1>2, <1>3, Zenon DEF Settled

LEMMA CarriedStays ==
    ASSUME CacheStays, serviceSeen # None, NEW k \in Kinds, Carried(k),
           rec'.plan[k] = rec.plan[k],
           \A n \in Names : Stale(n) => Stale(n)', SomeStale => SomeStale'
    PROVE  Carried(k)'
<1>1. /\ Single(k)' <=> Single(k)
      /\ Fits(k)' <=> Fits(k)
      /\ Owned(k)' = Owned(k) /\ Ask(k)' = Ask(k)
  BY FitsSame, CacheSame, Zenon
<1>2. Owned(k) \in SUBSET Names
  BY OwnedTypes, Zenon
<1>3. CASE Single(k)
  BY <1>1, <1>3, Zenon DEF Carried
<1>4. CASE ~Single(k)
  BY <1>1, <1>2, <1>4, Zenon DEF Carried
<1>5. QED
  BY <1>3, <1>4

\* The status stays right whatever becomes of the Domain.
LEMMA PublishedStays ==
    ASSUME ServiceTypeOK, RefInv, DomainMoves, serviceSeen' = serviceSeen, endpointsSeen' = endpointsSeen,
           misread' = misread, NEW n \in Names, endpointsSeen[n] # None, Published(n)
    PROVE  Published(n)'
<1>1. PICK e \in Endpoints : endpointsSeen[n] = e /\ endpointsSeen'[n] = e
  BY EndpointTypes, Zenon
<1>2. e.domainRef \in 0..2 /\ e # None
  BY EndpointFields, Zenon
<1>3. (e.domainRef > 0 => domain # None) /\ (e.domainRef = 2 => domain = "cname")
  BY <1>1, <1>2, Zenon DEF RefInv
<1>4. CASE serviceSeen.computed # TLS
  BY <1>4, Zenon DEF Published
<1>5. CASE serviceSeen.computed = TLS
  <2>1. SUFFICES \/ misread \/ e.domainRef = 0 \/ serviceSeen.status = domain'
                 \/ (e.domainRef = 1 /\ serviceSeen.status = "plain" /\ domain' = "cname")
    BY <1>1, <1>5, Zenon DEF Published
  <2>2. \/ misread \/ e.domainRef = 0 \/ serviceSeen.status = domain
        \/ (e.domainRef = 1 /\ serviceSeen.status = "plain" /\ domain = "cname")
    BY <1>1, <1>5, Zenon DEF Published
  <2>3. e.domainRef = 0 \/ e.domainRef = 1 \/ e.domainRef = 2
    BY <1>2
  <2>4. e.domainRef # 0 => domain # None
    BY <1>2, <1>3
  <2>5. "plain" # "cname"
    OBVIOUS
  <2>6. QED
    BY <1>3, <2>2, <2>3, <2>4, <2>5, DomainStays, Zenon DEF DomainMoves
<1>6. QED
  BY <1>4, <1>5

LEMMA WorkOuter ==
    ASSUME ServiceInv, ServiceTypeOK', Outer
    PROVE  Work'
<1>1. /\ ServiceTypeOK /\ FeedInv /\ CopyInv /\ UpdateInv /\ OwnedInv /\ RemovalInv /\ RestInv /\ RefInv /\ OrderInv
      /\ VersionStep /\ EndpointsAge /\ RecSame
  BY Zenon DEF ServiceInv, Outer
<1>2. SameWork
  BY <1>1, RecSameStep, Zenon
<1>3. CopyInv'
  <2>1. rec'.fresh => rec.fresh /\ service' = service
    BY <1>2, Zenon DEF SameWork, Outer
  <2>2. reserved' \subseteq reserved
    BY Zenon DEF Outer
  <2>3. QED
    BY <1>1, <1>2, <2>1, <2>2, CopyKept, Zenon DEF SameWork
<1>4. SUFFICES ASSUME ~queued'
               PROVE  UpdateInv' /\ OwnedInv' /\ RemovalInv' /\ RestInv'
  BY <1>3, Zenon DEF Work, UpdateInv, OwnedInv, RemovalInv, RestInv
<1>5. ~queued /\ CacheStays
  BY <1>1, <1>4, Zenon DEF Outer, VersionStep, EndpointsAge, CacheStays
<1>6. /\ \A n \in Names : Stale(n) => Stale(n)'
      /\ SomeStale => SomeStale'
  BY <1>1, SomeStaleStays, Zenon
<1>7. /\ \A k \in Kinds : Owned(k)' = Owned(k)
      /\ Existing(endpointsSeen)' = Existing(endpointsSeen)
      /\ serviceSeen' = serviceSeen /\ endpointsSeen' = endpointsSeen
  BY <1>5, CacheSame, Zenon DEF CacheStays
<1>8. serviceFeed' = <<>> => serviceFeed = <<>> /\ service' = service
  <2>1. FeedGrows
    BY <1>1, VersionGrows, Zenon
  <2>2. QED
    BY <2>1, Zenon DEF FeedGrows
<1>9. Kept' /\ ~Handled(serviceSeen) /\ ~HandledAhead' => Kept /\ ~HandledAhead
  BY <1>1, KeptBefore, Zenon
<1>10. UpdateInv'
  <2>1. SUFFICES ASSUME rec'.pc \in Updates
                 PROVE  UpdateInv'
    BY Zenon DEF UpdateInv
  <2>2. rec.pc \in Updates /\ Wanted(serviceSeen) /\ serviceSeen # None
    BY <1>1, <1>2, <1>5, <2>1, Zenon DEF UpdateInv, SameWork, Wanted, Handled
  <2>3. ASSUME serviceFeed' = <<>>
        PROVE  /\ rec'.svc = serviceSeen'
               /\ rec'.pc \in {"apply", "status"} => Computed(rec'.svc)
               /\ rec'.pc = "apply" /\ ~rec'.failed => \A k \in Kinds : Carried(k)'
    <3>1. /\ rec.svc = serviceSeen
          /\ rec.pc \in {"apply", "status"} => Computed(rec.svc)
          /\ rec.pc = "apply" /\ ~rec.failed => \A k \in Kinds : Carried(k)
      BY <1>1, <1>5, <1>8, <2>2, <2>3, Zenon DEF UpdateInv
    <3>2. ASSUME rec'.pc = "apply", ~rec'.failed, NEW k \in Kinds
          PROVE  Carried(k)'
      <4>1. Carried(k) /\ rec'.plan[k] = rec.plan[k]
        BY <1>2, <3>1, <3>2, Zenon DEF SameWork
      <4>2. QED
        BY <1>5, <1>6, <2>2, <4>1, CarriedStays, Zenon
    <3>3. QED
      BY <1>2, <1>7, <3>1, <3>2, Zenon DEF SameWork
  <2>4. QED
    BY <1>7, <2>2, <2>3, Zenon DEF UpdateInv, Wanted, Handled, Computed
<1>11. OwnedInv'
  BY <1>1, <1>2, <1>5, <1>7, Zenon DEF OwnedInv, SameWork
<1>12. RemovalInv'
  <2>1. SUFFICES ASSUME rec'.pc \in Removals
                 PROVE  RemovalInv'
    BY Zenon DEF RemovalInv
  <2>2. rec.pc \in Removals
    BY <1>2, <2>1, Zenon DEF SameWork
  <2>3. \A k \in Kinds : Owned(k) \in SUBSET Names
    BY OwnedTypes, Zenon
  <2>4. Existing(endpointsSeen) \in SUBSET Names
    BY Zenon DEF Existing
  <2>5. rec'.pc = "cleanup" /\ ~rec'.failed =>
             \A k \in Kinds : \A n \in Owned(k)' : n \in rec'.plan[k].delete \/ Stale(n)'
    BY <1>1, <1>2, <1>5, <1>6, <1>7, <2>2, <2>3, Zenon DEF RemovalInv, SameWork
  <2>6. rec'.pc = "release" => \A n \in Existing(endpointsSeen)' : Stale(n)'
    BY <1>1, <1>2, <1>5, <1>6, <1>7, <2>2, <2>4, Zenon DEF RemovalInv, SameWork
  <2>7. Kept' /\ Unhandled(serviceSeen)' /\ ~HandledAhead' => rec'.svc.finalizer
    BY <1>1, <1>2, <1>5, <1>7, <1>9, <2>2, Zenon DEF RemovalInv, SameWork, Handled, Unhandled
  <2>8. serviceSeen' # None /\ (Handled(serviceSeen)' => serviceSeen'.deleting /\ rec'.svc.deleting)
    BY <1>1, <1>2, <1>5, <1>7, <2>2, Zenon DEF RemovalInv, SameWork, Handled
  <2>9. QED
    BY <2>5, <2>6, <2>7, <2>8, Zenon DEF RemovalInv
<1>13. RestInv'
  <2>1. SUFFICES ASSUME rec'.pc = "idle"
                 PROVE  RestInv'
    BY Zenon DEF RestInv
  <2>2. rec.pc = "idle"
    BY <1>2, <2>1, Zenon DEF SameWork
  <2>3. Unhandled(serviceSeen)' => SomeStale' \/ Existing(endpointsSeen)' = {}
    BY <1>1, <1>5, <1>6, <1>7, <2>2, Zenon DEF RestInv, Unhandled
  <2>4. Unhandled(serviceSeen)' /\ ~HandledAhead' => ~Kept'
    BY <1>1, <1>5, <1>7, <1>9, <2>2, Zenon DEF RestInv, Unhandled, Handled
  <2>5. Handled(serviceSeen)' /\ serviceSeen'.deleting => service' = None
    BY <1>1, <1>5, <1>7, <2>2, Zenon DEF RestInv, Handled, VersionStep, VersionMoves, VersionStays
  <2>6. ASSUME Wanted(serviceSeen)', serviceFeed' = <<>>
        PROVE  /\ serviceSeen'.finalizer /\ Computed(serviceSeen)'
               /\ SomeStale' \/ (Settled' /\ \E n \in StatusObject(serviceSeen)' : Published(n)')
    <3>1. Wanted(serviceSeen) /\ serviceFeed = <<>> /\ serviceSeen # None
      BY <1>7, <1>8, <2>6, Zenon DEF Wanted, Handled
    <3>2. /\ serviceSeen.finalizer /\ Computed(serviceSeen)
          /\ SomeStale \/ (Settled /\ \E n \in StatusObject(serviceSeen) : Published(n))
      BY <1>1, <1>5, <2>2, <3>1, Zenon DEF RestInv
    <3>3. serviceSeen'.finalizer /\ Computed(serviceSeen)'
      BY <1>7, <3>2, Zenon DEF Computed
    <3>4. CASE SomeStale
      BY <1>6, <3>3, <3>4, Zenon
    <3>5. CASE Settled /\ \E n \in StatusObject(serviceSeen) : Published(n)
      <4>1. Settled'
        BY <1>5, <3>1, <3>5, FitsSame, Zenon
      <4>2. PICK n \in StatusObject(serviceSeen) : Published(n)
        BY <3>5, Zenon
      <4>3. n \in Names /\ endpointsSeen[n] # None
        BY Zenon DEF StatusObject, Existing
      <4>4. Published(n)'
        BY <1>1, <1>7, <4>2, <4>3, PublishedStays, Zenon DEF EndpointsAge, Outer
      <4>5. n \in StatusObject(serviceSeen)'
        BY <1>7, Zenon DEF StatusObject, Existing
      <4>6. QED
        BY <3>3, <4>1, <4>4, <4>5, Zenon
    <3>6. QED
      BY <3>2, <3>4, <3>5, Zenon
  <2>7. QED
    BY <2>3, <2>4, <2>5, <2>6, Zenon DEF RestInv
<1>14. QED
  BY <1>10, <1>11, <1>12, <1>13

LEMMA WorkDelivered ==
    ASSUME ServiceInv, DeliverService
    PROVE  Work'
<1>1. /\ ServiceTypeOK /\ FeedInv /\ BirthInv /\ CopyInv /\ UpdateInv /\ OwnedInv /\ RemovalInv /\ RestInv
  BY Zenon DEF ServiceInv
<1>2. FeedShrinks /\ serviceFeed # <<>>
  BY <1>1, DeliverServiceStep, Zenon
<1>3. UNCHANGED <<service, endpoints, endpointsSeen, rec, reserved, forgotten>>
  BY Zenon DEF DeliverService, outside, ghosts
<1>4. CopyInv'
  BY <1>1, <1>3, Zenon DEF CopyInv, DeletingAt
<1>5. queued' = (queued \/ Passes(serviceSeen, serviceFeed[1])) /\ serviceSeen' = serviceFeed[1]
  <2>1. queued' = (queued \/ Passes(serviceSeen, Head(serviceFeed))) /\ serviceSeen' = Head(serviceFeed)
    BY Zenon DEF DeliverService
  <2>2. serviceSeen' = serviceFeed[1]
    BY <1>2, Zenon DEF FeedShrinks
  <2>3. QED
    BY <2>1, <2>2, Zenon
<1>6. SUFFICES ASSUME ~queued'
               PROVE  UpdateInv' /\ OwnedInv' /\ RemovalInv' /\ RestInv'
  BY <1>4, Zenon DEF Work, UpdateInv, OwnedInv, RemovalInv, RestInv
<1>7. ~queued /\ Unhandled(serviceSeen') /\ ~Handled(serviceSeen') /\ ~Handled(serviceSeen)
  BY <1>5, <1>6, Zenon DEF Passes, Handled, Unhandled
<1>8. \A n \in Names : Stale(n)' <=> Stale(n)
  BY <1>3, Zenon DEF Stale
<1>9. ~HandledAhead' => ~HandledAhead
  <2>1. SUFFICES ASSUME NEW i \in DOMAIN serviceFeed, Handled(serviceFeed[i])
                 PROVE  HandledAhead'
    BY Zenon DEF HandledAhead
  <2>2. i # 1
    BY <1>5, <1>7, <2>1, Zenon
  <2>3. i - 1 \in DOMAIN serviceFeed' /\ serviceFeed'[i - 1] = serviceFeed[i]
    BY <1>2, <2>2, Zenon DEF FeedShrinks
  <2>4. QED
    BY <2>1, <2>3, Zenon DEF HandledAhead, Handled
<1>10. Kept' <=> Kept
  BY <1>3, Zenon DEF Kept, Unhandled
<1>11. /\ \A k \in Kinds : Owned(k)' = Owned(k)
       /\ Existing(endpointsSeen)' = Existing(endpointsSeen)
       /\ \A k \in Kinds : Owned(k) \in SUBSET Names
       /\ Existing(endpointsSeen) \in SUBSET Names
  BY <1>3, OwnedTypes, Zenon DEF Owned, Existing
<1>12. UpdateInv'
  BY <1>1, <1>3, <1>7, Zenon DEF UpdateInv, Wanted
<1>13. OwnedInv'
  BY <1>1, <1>3, <1>7, <1>11, Zenon DEF OwnedInv
<1>14. RemovalInv'
  <2>1. SUFFICES ASSUME rec.pc \in Removals
                 PROVE  RemovalInv'
    BY <1>3, Zenon DEF RemovalInv
  <2>2. serviceSeen # None
    BY <1>1, <1>7, <2>1, Zenon DEF RemovalInv
  <2>3. Unhandled(serviceSeen)
    BY <1>7, <2>2, Zenon DEF Handled, Unhandled
  <2>4. rec'.pc = "cleanup" /\ ~rec'.failed =>
             \A k \in Kinds : \A n \in Owned(k)' : n \in rec'.plan[k].delete \/ Stale(n)'
    BY <1>1, <1>3, <1>7, <1>8, <1>11, <2>1, Zenon DEF RemovalInv
  <2>5. rec'.pc = "release" => \A n \in Existing(endpointsSeen)' : Stale(n)'
    BY <1>1, <1>3, <1>7, <1>8, <1>11, <2>1, Zenon DEF RemovalInv
  <2>6. Kept' /\ ~HandledAhead' => rec'.svc.finalizer
    BY <1>1, <1>3, <1>7, <1>9, <1>10, <2>1, <2>3, Zenon DEF RemovalInv
  <2>7. serviceSeen' # None /\ ~Handled(serviceSeen)'
    BY <1>7, Zenon DEF Unhandled, Handled
  <2>8. QED
    BY <2>4, <2>5, <2>6, <2>7, Zenon DEF RemovalInv
<1>15. RestInv'
  <2>1. SUFFICES ASSUME rec.pc = "idle"
                 PROVE  RestInv'
    BY <1>3, Zenon DEF RestInv
  <2>2. (SomeStale' \/ Existing(endpointsSeen)' = {}) /\ (~HandledAhead' => ~Kept')
    <3>1. CASE serviceSeen = None
      <4>1. Unborn
        BY <1>1, <1>2, <3>1, Zenon DEF BirthInv
      <4>2. Existing(endpointsSeen) = {}
        BY <4>1, Zenon DEF Unborn, Existing
      <4>3. ~Kept
        BY <4>1, Zenon DEF Unborn, Kept, Unhandled
      <4>4. QED
        BY <1>10, <1>11, <4>2, <4>3, Zenon
    <3>2. CASE serviceSeen # None
      <4>1. Unhandled(serviceSeen)
        BY <1>7, <3>2, Zenon DEF Handled, Unhandled
      <4>2. (SomeStale \/ Existing(endpointsSeen) = {}) /\ (~HandledAhead => ~Kept)
        BY <1>1, <1>7, <2>1, <4>1, Zenon DEF RestInv
      <4>3. SomeStale => SomeStale'
        BY <1>8, Zenon DEF SomeStale
      <4>4. QED
        BY <1>9, <1>10, <1>11, <4>2, <4>3, Zenon
    <3>3. QED
      BY <3>1, <3>2
  <2>3. ~Handled(serviceSeen)' /\ ~Wanted(serviceSeen)'
    BY <1>7, Zenon DEF Handled, Wanted
  <2>4. QED
    BY <2>2, <2>3, Zenon DEF RestInv
<1>16. QED
  BY <1>12, <1>13, <1>14, <1>15

LEMMA WorkInformed ==
    ASSUME ServiceInv, Informed
    PROVE  Work'
<1>1. CopyInv
  BY Zenon DEF ServiceInv
<1>2. CopyInv'
  BY <1>1, Zenon DEF CopyInv, DeletingAt, Informed
<1>3. UpdateInv' /\ OwnedInv' /\ RemovalInv' /\ RestInv'
  BY Zenon DEF UpdateInv, OwnedInv, RemovalInv, RestInv, Informed
<1>4. QED
  BY <1>2, <1>3, Zenon DEF Work

LEMMA IdleWork ==
    ASSUME rec' = NoRec
    PROVE  CopyInv' /\ UpdateInv' /\ OwnedInv' /\ RemovalInv'
<1>1. rec'.pc = "idle" /\ "idle" \notin Updates /\ "idle" \notin Removals
  BY NoRecFacts DEF Updates, Removals
<1>2. QED
  BY <1>1, Zenon DEF CopyInv, UpdateInv, OwnedInv, RemovalInv

LEMMA WorkRenewed ==
    ASSUME Renewed
    PROVE  Work'
<1>1. rec' = NoRec
  BY Zenon DEF Renewed
<1>2. CASE queued' = TRUE
  BY <1>1, <1>2, WorkAgain, Zenon
<1>3. CASE queued' # TRUE
  <2>1. /\ ~Handled(service) /\ \A n \in Names : endpoints[n] = None
        /\ Unhandled(service) /\ service.finalizer => forgotten'
        /\ serviceSeen' = service /\ service' = service /\ endpointsSeen' = endpoints
    BY <1>3, Zenon DEF Renewed
  <2>2. Existing(endpointsSeen)' = {}
    BY <2>1, Zenon DEF Existing
  <2>3. ~Kept' /\ ~Handled(serviceSeen)' /\ ~Wanted(serviceSeen)'
    BY <2>1, Zenon DEF Kept, Unhandled, Handled, Wanted
  <2>4. RestInv'
    BY <2>2, <2>3, Zenon DEF RestInv
  <2>5. QED
    BY <1>1, <2>4, IdleWork, Zenon DEF Work
<1>4. QED
  BY <1>2, <1>3

LEMMA PcFacts ==
    /\ \A pc \in Updates : pc # "idle" /\ pc \notin Removals
    /\ \A pc \in Removals : pc # "idle" /\ pc \notin Updates
    /\ {"register", "build", "annotate", "clear", "apply", "status"} \subseteq Updates
    /\ {"cleanup", "release"} \subseteq Removals
    /\ "register" \notin {"apply", "status"} /\ "build" \notin {"apply", "status"}
    /\ "annotate" \notin {"apply", "status"} /\ "clear" \notin {"apply", "status"}
    /\ "status" # "apply" /\ "cleanup" # "release"
    /\ \A pc \in Steps : pc \in Updates \/ pc \in Removals
  BY DEF Updates, Removals, Steps

LEMMA AllOwned ==
    ASSUME ServiceTypeOK, NEW n \in Existing(endpointsSeen)
    PROVE  \E k \in Kinds : n \in Owned(k)
<1>1. n \in Names /\ endpointsSeen[n] # None
  BY Zenon DEF Existing
<1>2. endpointsSeen[n].kind \in Kinds
  BY <1>1, EndpointTypes, EndpointFields, Zenon
<1>3. QED
  BY <1>2, Zenon DEF Owned

LEMMA WorkStarted ==
    ASSUME ServiceInv, StartService
    PROVE  Work'
<1>1. ServiceTypeOK /\ FeedInv /\ FinalizerInv
  BY Zenon DEF ServiceInv
<1>2. /\ queued' = FALSE /\ (Started \/ NotStarted)
      /\ UNCHANGED <<service, serviceFeed, endpoints, serviceSeen, endpointsSeen, forgotten>>
  BY <1>1, StartServiceStep, Zenon DEF Reconciling
<1>3. /\ \A k \in Kinds : Owned(k)' = Owned(k)
      /\ Existing(endpointsSeen)' = Existing(endpointsSeen)
  BY <1>2, Zenon DEF Owned, Existing
<1>4. (Kept' <=> Kept) /\ (HandledAhead' <=> HandledAhead)
  BY <1>2, Zenon DEF Kept, Unhandled, HandledAhead
<1>5. CASE NotStarted
  <2>1. rec' = NoRec /\ ~Unhandled(serviceSeen)' /\ ~Wanted(serviceSeen)'
        /\ (Handled(serviceSeen)' => ~serviceSeen'.deleting)
    BY <1>2, <1>5, Zenon DEF NotStarted, Unhandled, Handled, Wanted
  <2>2. RestInv'
    BY <2>1, Zenon DEF RestInv
  <2>3. QED
    BY <2>1, <2>2, IdleWork, Zenon DEF Work
<1>6. CASE Started
  <2>1. /\ serviceSeen # None /\ rec' \in Recs
        /\ rec'.svc = serviceSeen /\ rec'.failed = FALSE
        /\ rec'.fresh = (serviceFeed = <<>>)
        /\ \A k \in Kinds : rec'.owned[k] = Owned(k)
    BY <1>6, Zenon DEF Started
  <2>2. OwnedInv'
    BY <1>3, <2>1, Zenon DEF OwnedInv
  <2>3. DeletingAt(serviceSeen) /\ (serviceFeed = <<>> => serviceSeen = service)
    BY <1>1, Zenon DEF FeedInv
  <2>4. DeletingAt(rec.svc)' /\ (rec'.fresh => rec'.svc = service')
    BY <1>2, <2>1, <2>3, Zenon DEF DeletingAt
  <2>5. CASE rec'.pc \in {"build", "register"}
    <3>1. /\ rec'.pc \in Updates /\ rec'.pc # "idle" /\ rec'.pc \notin Removals
          /\ rec'.pc \notin {"apply", "status"} /\ rec'.pc # "apply" /\ rec'.pc # "status"
          /\ rec'.pc # "annotate" /\ rec'.pc # "clear" /\ rec'.pc # "cleanup" /\ rec'.pc # "release"
      BY <2>5 DEF Updates, Removals
    <3>2. Wanted(serviceSeen) /\ (rec'.pc # "register" => serviceSeen.finalizer)
      BY <1>6, <3>1, Zenon DEF Started
    <3>3. CopyInv'
      BY <2>1, <2>4, <3>1, <3>2, Zenon DEF CopyInv
    <3>4. UpdateInv'
      BY <1>2, <2>1, <3>1, <3>2, Zenon DEF UpdateInv
    <3>5. RemovalInv' /\ RestInv'
      BY <3>1, Zenon DEF RemovalInv, RestInv
    <3>6. QED
      BY <2>2, <3>3, <3>4, <3>5, Zenon DEF Work
  <2>6. CASE rec'.pc \in Removals
    <3>1. /\ rec'.pc \notin Updates /\ rec'.pc # "idle" /\ rec'.pc # "register" /\ rec'.pc # "build"
          /\ rec'.pc # "annotate" /\ rec'.pc # "clear" /\ rec'.pc # "status" /\ "cleanup" # "release"
      BY <2>6 DEF Updates, Removals
    <3>2. CopyInv'
      BY <2>4, <3>1, Zenon DEF CopyInv
    <3>3. UpdateInv' /\ RestInv'
      BY <3>1, Zenon DEF UpdateInv, RestInv
    <3>4. \/ /\ rec'.pc = "cleanup" /\ (serviceSeen.deleting \/ Unhandled(serviceSeen))
             /\ \A k \in Kinds : rec'.plan[k].delete = Owned(k)
          \/ /\ rec'.pc = "release"
             /\ Unhandled(serviceSeen) /\ \A k \in Kinds : Owned(k) = {}
      BY <1>6, <3>1, Zenon DEF Started
    <3>5. Handled(serviceSeen) => serviceSeen.deleting
      BY <3>4, Zenon DEF Handled, Unhandled
    <3>6. rec'.pc = "cleanup" /\ ~rec'.failed =>
             \A k \in Kinds : \A n \in Owned(k)' : n \in rec'.plan[k].delete \/ Stale(n)'
      BY <1>3, <3>1, <3>4, Zenon
    <3>7. rec'.pc = "release" => \A n \in Existing(endpointsSeen)' : Stale(n)'
      BY <1>1, <1>3, <3>1, <3>4, AllOwned, Zenon
    <3>8. Kept /\ Unhandled(serviceSeen) /\ ~HandledAhead => serviceSeen.finalizer
      BY <1>1, Zenon DEF FinalizerInv, Unhandled, Handled
    <3>9. RemovalInv'
      BY <1>2, <1>4, <2>1, <3>5, <3>6, <3>7, <3>8, Zenon DEF RemovalInv, Handled, Unhandled
    <3>10. QED
      BY <2>2, <3>2, <3>3, <3>9, Zenon DEF Work
  <2>7. QED
    BY <1>6, <2>5, <2>6, PcFacts, Zenon DEF Started
<1>7. QED
  BY <1>2, <1>5, <1>6, Zenon

\* A reconcile that goes on with its update, and has not reached the endpoints.
LEMMA Going ==
    ASSUME rec'.pc \in {"build", "annotate", "clear", "apply", "status"},
           rec'.svc.finalizer, rec'.fresh => rec'.svc = service', DeletingAt(rec.svc)',
           rec'.pc = "annotate" =>
             /\ rec'.url # None /\ rec'.url # rec'.svc.computed
             /\ rec'.svc.computed = None \/ rec'.svc.spec.url = TLS,
           rec'.pc = "clear" =>
             /\ rec'.svc.computed # None /\ rec'.svc.computed \notin reserved'
             /\ rec'.url = rec'.svc.computed,
           rec'.pc = "status" => rec'.status # rec'.svc.status
    PROVE  CopyInv' /\ RemovalInv' /\ RestInv'
<1>1. rec'.pc # "idle" /\ rec'.pc \notin Removals
  BY DEF Removals
<1>2. QED
  BY <1>1, Zenon DEF CopyInv, RemovalInv, RestInv

\* The endpoints that a reconcile started from stay the ones it owns.
LEMMA OwnedKept ==
    ASSUME OwnedInv, rec.pc # "idle", queued' = queued, rec'.owned = rec.owned, endpointsSeen' = endpointsSeen
    PROVE  OwnedInv'
<1>1. \A k \in Kinds : Owned(k)' = Owned(k)
  BY Zenon DEF Owned, Existing
<1>2. QED
  BY <1>1, Zenon DEF OwnedInv

LEMMA WorkRegistered ==
    ASSUME ServiceInv, Register
    PROVE  Work'
<1>1. ServiceTypeOK /\ FeedInv /\ UpdateInv /\ OwnedInv
  BY Zenon DEF ServiceInv
<1>2. /\ ServiceTypeOK' /\ rec.pc = "register"
      /\ \/ Again /\ VersionStep
         \/ /\ rec' \in Recs /\ rec'.pc = "build" /\ rec'.svc = service' /\ rec'.owned = rec.owned
            /\ service' # None /\ service'.finalizer
            /\ queued' = queued /\ VersionStep
      /\ UNCHANGED <<serviceSeen, endpointsSeen>>
  BY <1>1, RegisterServiceStep, Zenon DEF Reconciling
<1>3. CASE Again
  BY <1>3, WorkAgain, Zenon DEF Again
<1>4. CASE /\ rec' \in Recs /\ rec'.pc = "build" /\ rec'.svc = service' /\ rec'.owned = rec.owned
           /\ service' # None /\ service'.finalizer
           /\ queued' = queued /\ VersionStep
  <2>1. FeedInv' /\ DeletingAt(service)'
    BY <1>1, <1>4, FeedStep, NewDeleting, Zenon
  <2>2. rec'.pc \in {"build", "annotate", "clear", "apply", "status"} /\ rec'.pc \in Updates
        /\ rec'.pc # "annotate" /\ rec'.pc # "clear" /\ rec'.pc # "status" /\ rec'.pc # "apply"
        /\ rec'.pc \notin {"apply", "status"} /\ rec.pc # "idle" /\ rec.pc \in Updates
    BY <1>2, <1>4 DEF Updates
  <2>3. DeletingAt(rec.svc)'
    BY <1>4, <2>1, Zenon DEF DeletingAt
  <2>4. CopyInv' /\ RemovalInv' /\ RestInv'
    BY <1>4, <2>2, <2>3, Going, Zenon
  <2>5. OwnedInv'
    BY <1>1, <1>2, <1>4, <2>2, OwnedKept, Zenon
  <2>6. serviceFeed' = <<>> => serviceSeen' = service'
    BY <2>1, Zenon DEF FeedInv
  <2>7. UpdateInv'
    BY <1>1, <1>2, <1>4, <2>2, <2>6, Zenon DEF UpdateInv, Wanted, Handled
  <2>8. QED
    BY <2>4, <2>5, <2>7, Zenon DEF Work
<1>5. QED
  BY <1>2, <1>3, <1>4, Zenon

LEMMA WorkBuilt ==
    ASSUME ServiceInv, buildEndpoints
    PROVE  Work'
<1>1. ServiceTypeOK /\ CopyInv /\ UpdateInv /\ OwnedInv
  BY Zenon DEF ServiceInv
<1>2. /\ ServiceTypeOK' /\ rec.pc = "build"
      /\ \/ Again
         \/ queued' = queued /\ (BuiltPlan \/ BuiltURL \/ BuiltOld)
      /\ UNCHANGED <<serviceSeen, endpointsSeen, service, serviceFeed, policySeen>>
  BY <1>1, BuildStep, Zenon DEF Reconciling
<1>3. CASE Again
  BY <1>3, WorkAgain, Zenon DEF Again
<1>4. CASE queued' = queued /\ (BuiltPlan \/ BuiltURL \/ BuiltOld)
  <2>1. rec' \in Recs /\ rec'.svc = rec.svc /\ rec'.fresh = rec.fresh /\ rec'.owned = rec.owned
    BY <1>4, Zenon DEF BuiltPlan, BuiltURL, BuiltOld, Built
  <2>2. rec.pc # "idle" /\ rec.pc \in Updates /\ rec.pc \in Updates \ {"register"}
    BY <1>2 DEF Updates
  <2>3. rec.svc.finalizer /\ (rec.fresh => rec.svc = service) /\ DeletingAt(rec.svc)
    BY <1>1, <2>2, Zenon DEF CopyInv
  <2>4. rec'.svc.finalizer /\ (rec'.fresh => rec'.svc = service') /\ DeletingAt(rec.svc)'
    BY <1>2, <2>1, <2>3, Zenon DEF DeletingAt
  <2>5. OwnedInv'
    BY <1>1, <1>2, <1>4, <2>1, <2>2, OwnedKept, Zenon
  <2>6. ASSUME ~queued'
        PROVE  Wanted(serviceSeen)' /\ (serviceFeed' = <<>> => rec.svc = serviceSeen)
    BY <1>1, <1>2, <1>4, <2>2, <2>6, Zenon DEF UpdateInv, Wanted, Handled
  <2>7. CASE BuiltURL \/ BuiltOld
    <3>1. rec'.pc = "annotate" \/ rec'.pc = "clear"
      BY <2>7, Zenon DEF BuiltURL, BuiltOld
    <3>2. /\ rec'.pc \in {"build", "annotate", "clear", "apply", "status"} /\ rec'.pc # "status" /\ rec'.pc # "apply"
          /\ rec'.pc \notin {"apply", "status"}
      BY <3>1
    <3>3. /\ rec'.pc = "annotate" =>
              /\ rec'.url # None /\ rec'.url # rec'.svc.computed
              /\ rec'.svc.computed = None \/ rec'.svc.spec.url = TLS
          /\ rec'.pc = "clear" =>
             /\ rec'.svc.computed # None /\ rec'.svc.computed \notin reserved'
             /\ rec'.url = rec'.svc.computed
      <4>1. "annotate" # "clear"
        OBVIOUS
      <4>2. QED
        BY <2>1, <2>7, <4>1, Zenon DEF BuiltURL, BuiltOld
    <3>4. CopyInv' /\ RemovalInv' /\ RestInv'
      BY <2>4, <3>2, <3>3, Going, Zenon
    <3>5. UpdateInv'
      BY <1>2, <2>1, <2>6, <3>2, Zenon DEF UpdateInv
    <3>6. QED
      BY <2>5, <3>4, <3>5, Zenon DEF Work
  <2>8. CASE BuiltPlan
    <3>1. rec'.pc = "apply"
      BY <2>8, Zenon DEF BuiltPlan
    <3>2. /\ rec'.pc \in {"build", "annotate", "clear", "apply", "status"} /\ rec'.pc # "status"
          /\ rec'.pc # "annotate" /\ rec'.pc # "clear"
      BY <3>1
    <3>3. CopyInv' /\ RemovalInv' /\ RestInv'
      BY <2>4, <3>2, Going, Zenon
    <3>4. ASSUME ~queued', serviceFeed' = <<>>
          PROVE  rec'.svc = serviceSeen' /\ Computed(rec'.svc) /\ \A k \in Kinds : Carried(k)'
      <4>1. rec.svc = serviceSeen /\ serviceSeen \in Services /\ serviceSeen' = serviceSeen
        BY <1>1, <1>2, <2>2, <2>6, <3>4, RecTypes, RecFields, Zenon
      <4>2. Computed(serviceSeen)
        BY <2>8, <4>1, Zenon DEF BuiltPlan
      <4>3. serviceSeen.computed \in Addrs \cup {TLS} /\ policySeen \in Policies \cup {None}
        BY <1>1, <4>1, <4>2, ServiceFields, ServiceTypes, Zenon DEF Computed
      <4>4. \A k \in Kinds : rec'.plan[k] = Plan(Ask(k), Owned(k))
        BY <1>1, <1>4, <2>2, <2>8, <3>4, <4>1, Zenon DEF BuiltPlan, Ask, OwnedInv
      <4>5. \A k \in Kinds : Ask(k) \in NewEndpoints \cup {None}
        BY <4>1, <4>3, DesiredFacts, Zenon DEF Ask
      <4>6. CacheStays
        BY <1>2, Zenon DEF CacheStays
      <4>7. ASSUME NEW k \in Kinds
            PROVE  Carried(k)'
        <5>1. Owned(k) \in SUBSET Names
          BY OwnedTypes, Zenon
        <5>2. /\ Ask(k) # None /\ Alone(Owned(k))
                   => Plan(Ask(k), Owned(k)).write = Ask(k) /\ Plan(Ask(k), Owned(k)).at \in Owned(k)
              /\ ~(Ask(k) # None /\ Alone(Owned(k)))
                   => Plan(Ask(k), Owned(k)).delete = Owned(k) /\ Plan(Ask(k), Owned(k)).at = None
          BY <4>5, <5>1, PlanFacts, Zenon
        <5>3. (Single(k)' <=> Single(k)) /\ Owned(k)' = Owned(k) /\ Ask(k)' = Ask(k)
          BY <4>1, <4>6, FitsSame, CacheSame, ServiceFields, Zenon
        <5>4. QED
          BY <4>4, <5>2, <5>3, Zenon DEF Carried, Single
      <4>8. QED
        BY <2>1, <4>1, <4>2, <4>7, Zenon
    <3>5. UpdateInv'
      BY <2>6, <3>4, Zenon DEF UpdateInv
    <3>6. QED
      BY <2>5, <3>3, <3>5, Zenon DEF Work
  <2>9. QED
    BY <1>4, <2>7, <2>8, Zenon
<1>5. QED
  BY <1>2, <1>3, <1>4, Zenon

LEMMA FeedAhead ==
    ASSUME ServiceTypeOK, VersionStep, service' # service
    PROVE  serviceFeed' # <<>>
  BY VersionGrows, Zenon DEF FeedGrows

LEMMA WorkAnnotated ==
    ASSUME ServiceInv, setComputedURLAnnotation \/ clearComputedURLAnnotation
    PROVE  Work'
<1>1. ServiceTypeOK /\ FeedInv /\ CopyInv /\ UpdateInv /\ OwnedInv
  BY Zenon DEF ServiceInv
<1>2. /\ ServiceTypeOK' /\ (rec.pc = "annotate" \/ rec.pc = "clear")
      /\ VersionStep
      /\ \/ Again
         \/ /\ rec.fresh /\ rec.svc = service /\ service # None
            /\ queued' = queued
            /\ rec' \in Recs /\ rec'.pc = "apply" /\ rec'.svc = service' /\ rec'.owned = rec.owned
            /\ service' # None /\ service' # service /\ service'.finalizer = rec.svc.finalizer
      /\ UNCHANGED <<serviceSeen, endpointsSeen>>
  BY <1>1, AnnotationStep, Zenon DEF Reconciling
<1>3. CASE Again
  BY <1>3, WorkAgain, Zenon DEF Again
<1>4. CASE /\ rec.fresh /\ rec.svc = service /\ service # None
           /\ queued' = queued
           /\ rec' \in Recs /\ rec'.pc = "apply" /\ rec'.svc = service' /\ rec'.owned = rec.owned
           /\ service' # None /\ service' # service /\ service'.finalizer = rec.svc.finalizer
  <2>1. DeletingAt(service)' /\ serviceFeed' # <<>>
    BY <1>1, <1>2, <1>4, NewDeleting, FeedAhead, Zenon
  <2>2. rec.pc # "idle" /\ rec.pc \in Updates /\ rec.pc \in Updates \ {"register"}
    BY <1>2 DEF Updates
  <2>3. /\ rec'.pc \in {"build", "annotate", "clear", "apply", "status"} /\ rec'.pc # "status"
        /\ rec'.pc # "annotate" /\ rec'.pc # "clear"
    BY <1>4
  <2>4. rec'.svc.finalizer /\ (rec'.fresh => rec'.svc = service') /\ DeletingAt(rec.svc)'
    BY <1>1, <1>4, <2>1, <2>2, Zenon DEF CopyInv, DeletingAt
  <2>5. CopyInv' /\ RemovalInv' /\ RestInv'
    BY <2>3, <2>4, Going, Zenon
  <2>6. OwnedInv'
    BY <1>1, <1>2, <1>4, <2>2, OwnedKept, Zenon
  <2>7. UpdateInv'
    BY <1>1, <1>2, <1>4, <2>1, <2>2, Zenon DEF UpdateInv, Wanted, Handled
  <2>8. QED
    BY <2>5, <2>6, <2>7, Zenon DEF Work
<1>5. QED
  BY <1>2, <1>3, <1>4, Zenon

(***************************************************************************)
(* The calls of the sub-reconcilers.                                       *)
(***************************************************************************)

\* A deletion leaves its endpoint stale in the cache.
LEMMA DeletesStale ==
    ASSUME ServiceTypeOK, endpointsSeen' = endpointsSeen, NEW n \in Names, endpointsSeen[n] # None,
           endpoints'[n] # None, endpoints'[n].deleting
    PROVE  Stale(n)'
  BY Zenon DEF Stale

\* A plan deletes, or has deleted, every endpoint of a set.
LEMMA DeletesKept ==
    ASSUME ServiceTypeOK, NEW k \in Kinds, endpointsSeen' = endpointsSeen,
           \A n \in Names : Stale(n) => Stale(n)',
           Deletes(k), \A n \in Owned(k) : n \in rec.plan[k].delete \/ Stale(n)
    PROVE  \A n \in Owned(k) : n \in rec'.plan[k].delete \/ Stale(n)'
<1>1. SUFFICES ASSUME NEW n \in Owned(k)
               PROVE  n \in rec'.plan[k].delete \/ Stale(n)'
  OBVIOUS
<1>2. n \in Names /\ endpointsSeen[n] # None
  BY Zenon DEF Owned, Existing
<1>3. PICK m \in rec.plan[k].delete :
         /\ endpoints'[m] # None /\ endpoints'[m].deleting
         /\ rec'.plan[k].delete = rec.plan[k].delete \ {m}
  BY Zenon DEF Deletes
<1>4. CASE m = n
  BY <1>2, <1>3, <1>4, DeletesStale, Zenon
<1>5. CASE m # n
  BY <1>2, <1>3, <1>5, Zenon
<1>6. QED
  BY <1>4, <1>5

LEMMA CarriedCalled ==
    ASSUME ServiceTypeOK, NEW k \in Kinds, Works(k), CacheStays, serviceSeen # None, Carried(k),
           \A n \in Names : Stale(n) => Stale(n)', SomeStale => SomeStale'
    PROVE  Carried(k)'
<1>1. /\ Single(k)' <=> Single(k)
      /\ Fits(k)' <=> Fits(k)
      /\ Owned(k)' = Owned(k) /\ Ask(k)' = Ask(k) /\ endpointsSeen' = endpointsSeen
  BY FitsSame, CacheSame, Zenon DEF CacheStays
<1>2. Owned(k) \in SUBSET Names /\ None \notin Names
  BY OwnedTypes, ServiceAssumption, Zenon
<1>3. Nothing.delete = {} /\ Nothing.write = None /\ Nothing.at = None
  BY NothingFacts, Zenon
<1>4. CASE Single(k)
  <2>1. CASE rec.plan[k] = Nothing
    BY <1>3, <2>1, Zenon DEF Works, Deletes, Overwrites, Creates
  <2>2. CASE rec.plan[k].write = Ask(k) /\ rec.plan[k].at \in Owned(k)
    <3>1. CASE Deletes(k)
      BY <1>1, <1>4, <2>2, <3>1, Zenon DEF Deletes, Carried
    <3>2. CASE Creates(k)
      BY <1>2, <2>2, <3>2, Zenon DEF Creates
    <3>3. CASE Overwrites(k)
      <4>1. PICK n \in Owned(k) : rec.plan[k].at = n /\ Owned(k) = {n}
        <5>1. \E n \in Owned(k) : Owned(k) = {n}
          BY <1>2, <1>4, OneOwned, Zenon DEF Single
        <5>2. QED
          BY <2>2, <5>1, Zenon
      <4>2. /\ Merge(endpointsSeen[n], Ask(k)) = endpointsSeen[n]
               \/ endpoints'[n] = Merge(endpointsSeen[n], Ask(k))
            /\ rec'.plan[k] = Nothing
        BY <2>2, <3>3, <4>1, Zenon DEF Overwrites
      <4>3. CASE Merge(endpointsSeen[n], Ask(k)) = endpointsSeen[n]
        <5>1. Fits(k)
          BY <4>1, <4>3, Zenon DEF Fits
        <5>2. QED
          BY <1>1, <1>4, <4>2, <5>1, Zenon DEF Carried
      <4>4. CASE Merge(endpointsSeen[n], Ask(k)) # endpointsSeen[n]
        <5>1. n \in Names /\ endpointsSeen[n] # None
          BY Zenon DEF Owned, Existing
        <5>2. Stale(n)'
          BY <1>1, <4>2, <4>4, <5>1, Zenon DEF Stale
        <5>3. SomeStale'
          BY <5>1, <5>2, Zenon DEF SomeStale
        <5>4. QED
          BY <1>1, <1>4, <4>2, <5>3, Zenon DEF Carried
      <4>5. QED
        BY <4>3, <4>4
    <3>4. QED
      BY <3>1, <3>2, <3>3, Zenon DEF Works
  <2>3. QED
    BY <1>4, <2>1, <2>2, Zenon DEF Carried
<1>5. CASE ~Single(k)
  <2>1. rec.plan[k].at = None /\ \A n \in Owned(k) : n \in rec.plan[k].delete \/ Stale(n)
    BY <1>5, Zenon DEF Carried
  <2>2. CASE Deletes(k)
    <3>1. \A n \in Owned(k) : n \in rec'.plan[k].delete \/ Stale(n)'
      BY <1>1, <2>1, <2>2, DeletesKept, Zenon
    <3>2. rec'.plan[k].at = None
      BY <2>1, <2>2, Zenon DEF Deletes
    <3>3. QED
      BY <1>1, <1>5, <3>1, <3>2, Zenon DEF Carried
  <2>3. CASE Overwrites(k)
    BY <2>1, <2>3, Zenon DEF Overwrites
  <2>4. CASE Creates(k)
    <3>1. \A n \in Owned(k) : Stale(n)'
      BY <1>2, <2>1, <2>4, Zenon DEF Creates
    <3>2. rec'.plan[k].at = None
      BY <1>3, <2>4, Zenon DEF Creates
    <3>3. QED
      BY <1>1, <1>5, <3>1, <3>2, Zenon DEF Carried
  <2>5. QED
    BY <2>2, <2>3, <2>4, Zenon DEF Works
<1>6. QED
  BY <1>4, <1>5

LEMMA WorkCalled ==
    ASSUME ServiceInv, NEW k \in Kinds, Called(k)
    PROVE  Work'
<1>1. /\ ServiceTypeOK /\ CopyInv /\ UpdateInv /\ OwnedInv /\ RemovalInv /\ OrderInv
  BY Zenon DEF ServiceInv
<1>2. /\ rec.pc # "idle" /\ rec' \in Recs /\ RecKeeps
      /\ rec'.failed = TRUE \/ Works(k)
      /\ EndpointsAge
      /\ UNCHANGED <<service, serviceFeed, reserved, queued, forgotten, misread>> /\ Reconciling
  BY Zenon DEF Called
<1>3. CacheStays /\ VersionStep
  BY <1>2, Zenon DEF CacheStays, Reconciling, VersionStep, VersionStays
<1>4. /\ \A n \in Names : Stale(n) => Stale(n)'
      /\ SomeStale => SomeStale'
  BY <1>1, <1>2, SomeStaleStays, Zenon
<1>5. /\ \A j \in Kinds : Owned(j)' = Owned(j)
      /\ Existing(endpointsSeen)' = Existing(endpointsSeen)
      /\ \A j \in Kinds : Owned(j) \in SUBSET Names
      /\ Existing(endpointsSeen) \in SUBSET Names
      /\ serviceSeen' = serviceSeen /\ endpointsSeen' = endpointsSeen
  BY <1>3, CacheSame, OwnedTypes, Zenon DEF CacheStays, Existing
<1>6. CopyInv'
  <2>1. /\ rec'.pc = rec.pc /\ rec'.svc = rec.svc /\ rec'.url = rec.url /\ rec'.status = rec.status
        /\ rec'.fresh => rec.fresh /\ service' = service
        /\ reserved' \subseteq reserved
    BY <1>2, Zenon DEF RecKeeps
  <2>2. QED
    BY <1>1, <1>3, <2>1, CopyKept, Zenon
<1>7. OwnedInv'
  BY <1>1, <1>2, <1>5, Zenon DEF OwnedInv, RecKeeps
<1>8. RestInv'
  BY <1>2, Zenon DEF RestInv, RecKeeps
<1>9. UpdateInv'
  <2>1. SUFFICES ASSUME ~queued', rec'.pc \in Updates
                 PROVE  UpdateInv'
    BY Zenon DEF UpdateInv
  <2>2. ~queued /\ rec.pc \in Updates
    BY <1>2, <2>1, Zenon DEF RecKeeps
  <2>3. Wanted(serviceSeen) /\ serviceSeen # None
    BY <1>1, <2>2, Zenon DEF UpdateInv, Wanted, Handled
  <2>4. ASSUME serviceFeed' = <<>>, rec'.pc = "apply", ~rec'.failed
        PROVE  \A j \in Kinds : Carried(j)'
    <3>1. Works(k)
      BY <1>2, <2>4, Zenon
    <3>2. \A j \in Kinds : Carried(j)
      BY <1>1, <1>2, <2>2, <2>4, <3>1, Zenon DEF UpdateInv, Works, RecKeeps
    <3>3. Carried(k)'
      BY <1>1, <1>3, <1>4, <2>3, <3>1, <3>2, CarriedCalled, Zenon
    <3>4. ASSUME NEW j \in Kinds, j # k
          PROVE  Carried(j)'
      <4>1. rec'.plan[j] = rec.plan[j] /\ Carried(j)
        BY <3>1, <3>2, <3>4, Zenon DEF Works
      <4>2. QED
        BY <1>3, <1>4, <2>3, <4>1, CarriedStays, Zenon
    <3>5. QED
      BY <3>3, <3>4, Zenon
  <2>5. serviceFeed' = <<>> =>
             /\ rec'.svc = serviceSeen'
             /\ rec'.pc \in {"apply", "status"} => Computed(rec'.svc)
    BY <1>1, <1>2, <1>5, <2>2, Zenon DEF UpdateInv, RecKeeps
  <2>6. QED
    BY <1>5, <2>3, <2>4, <2>5, Zenon DEF UpdateInv, Wanted, Handled, Computed
<1>10. RemovalInv'
  <2>1. SUFFICES ASSUME ~queued', rec'.pc \in Removals
                 PROVE  RemovalInv'
    BY Zenon DEF RemovalInv
  <2>2. ~queued /\ rec.pc \in Removals
    BY <1>2, <2>1, Zenon DEF RecKeeps
  <2>3. rec.pc # "apply" /\ "cleanup" # "release"
    BY <2>2 DEF Removals
  <2>4. ASSUME rec'.pc = "cleanup", ~rec'.failed, NEW j \in Kinds
        PROVE  \A n \in Owned(j)' : n \in rec'.plan[j].delete \/ Stale(n)'
    <3>1. Works(k) /\ rec'.failed = rec.failed /\ Deletes(k)
      BY <1>2, <2>3, <2>4, Zenon DEF Works, Overwrites, Creates
    <3>2. \A n \in Owned(j) : n \in rec.plan[j].delete \/ Stale(n)
      BY <1>1, <1>2, <2>2, <2>4, <3>1, Zenon DEF RemovalInv, RecKeeps
    <3>3. \A n \in Owned(j) : n \in rec'.plan[j].delete \/ Stale(n)'
      <4>1. CASE j = k
        BY <1>1, <1>4, <1>5, <3>1, <3>2, <4>1, DeletesKept, Zenon
      <4>2. CASE j # k
        BY <1>4, <1>5, <3>1, <3>2, <4>2, Zenon DEF Works
      <4>3. QED
        BY <4>1, <4>2
    <3>4. QED
      BY <1>5, <3>3, Zenon
  <2>5. rec'.pc = "release" => \A n \in Existing(endpointsSeen)' : Stale(n)'
    BY <1>1, <1>2, <1>4, <1>5, <2>2, Zenon DEF RemovalInv, RecKeeps
  <2>6. Kept' /\ Unhandled(serviceSeen)' /\ ~HandledAhead' => rec'.svc.finalizer
    BY <1>1, <1>2, <1>5, <2>2, Zenon DEF RemovalInv, RecKeeps, Kept, Unhandled, HandledAhead
  <2>7. serviceSeen' # None /\ (Handled(serviceSeen)' => serviceSeen'.deleting /\ rec'.svc.deleting)
    BY <1>1, <1>2, <1>5, <2>2, Zenon DEF RemovalInv, RecKeeps, Handled
  <2>8. QED
    BY <2>4, <2>5, <2>6, <2>7, Zenon DEF RemovalInv
<1>11. QED
  BY <1>6, <1>7, <1>8, <1>9, <1>10, Zenon DEF Work

(***************************************************************************)
(* The end of a reconcile.                                                 *)
(***************************************************************************)

\* When nothing was left to do the endpoints are those of the strategy.
LEMMA NothingToDo ==
    ASSUME ServiceTypeOK, serviceSeen \in Services, Computed(serviceSeen), ~SomeStale,
           \A k \in Kinds : Carried(k) /\ rec.plan[k] = Nothing,
           NEW n \in StatusObject(serviceSeen)
    PROVE  Settled
<1>1. serviceSeen.computed \in Addrs \cup {TLS} /\ policySeen \in Policies \cup {None}
  BY ServiceFields, ServiceTypes, Zenon DEF Computed
<1>2. (Ask("cloud") = None <=> ~serviceSeen.spec.verbose) /\ Ask("agent") # None
  <2> DEFINE d == Desired(serviceSeen, serviceSeen.computed, policySeen)
  <2>1. /\ \A k \in Kinds : d[k] \in NewEndpoints \cup {None}
        /\ d["cloud"] = None <=> ~serviceSeen.spec.verbose
        /\ d["agent"] # None
        /\ serviceSeen.spec.verbose => d["cloud"].url = serviceSeen.computed
        /\ ~serviceSeen.spec.verbose => d["agent"].url = serviceSeen.computed
    BY <1>1, DesiredFacts, Zenon
  <2>2. QED
    BY <2>1, Zenon DEF Ask
<1>3. \A k \in Kinds : Single(k) => Fits(k)
  BY NothingFacts, Zenon DEF Carried, Single
<1>4. \A k \in Kinds : ~Single(k) => Owned(k) = {}
  <2>1. SUFFICES ASSUME NEW k \in Kinds, ~Single(k), NEW m \in Owned(k)
                 PROVE  FALSE
    BY Zenon
  <2>2. m \in Names /\ Stale(m)
    BY <2>1, NothingFacts, OwnedTypes, Zenon DEF Carried
  <2>3. QED
    BY <2>2, Zenon DEF SomeStale
<1>5. n \in Existing(endpointsSeen)
  BY Zenon DEF StatusObject
<1>6. \A k \in Kinds : Ask(k) = None => Owned(k) = {}
  BY <1>4, Zenon DEF Single
<1>7. ASSUME NEW k \in Kinds, Ask(k) # None
      PROVE  Single(k)
  <2>1. SUFFICES ASSUME ~Single(k)
                 PROVE  FALSE
    OBVIOUS
  <2>2. Owned(k) = {}
    BY <1>4, <2>1, Zenon
  <2>3. CASE ~serviceSeen.spec.verbose
    <3>1. Owned("cloud") = {} /\ k = "agent"
      BY <1>2, <1>6, <1>7, <2>3, KindFacts, Zenon
    <3>2. QED
      BY <1>5, <2>2, <3>1, AllOwned, KindFacts, Zenon
  <2>4. CASE serviceSeen.spec.verbose
    <3>1. endpointsSeen[n].kind = "cloud" /\ Pair(Existing(endpointsSeen))
      BY <2>4, Zenon DEF StatusObject
    <3>2. n \in Owned("cloud")
      BY <1>5, <3>1, Zenon DEF Owned
    <3>3. Alone(Owned("cloud")) /\ k = "agent"
      BY <1>4, <2>2, <3>2, KindFacts, Zenon DEF Single
    <3>4. Existing(endpointsSeen) = Owned("cloud")
      <4>1. Owned("cloud") \subseteq Existing(endpointsSeen)
        BY Zenon DEF Owned
      <4>2. Existing(endpointsSeen) \subseteq Owned("cloud")
        BY <2>2, <3>3, AllOwned, KindFacts, Zenon
      <4>3. QED
        BY <4>1, <4>2, Zenon
    <3>5. PICK x, y \in Owned("cloud") : x # y
      BY <3>1, <3>4, Zenon DEF Pair
    <3>6. PICK z \in Owned("cloud") : Owned("cloud") = {z}
      BY <3>3, Zenon DEF Alone
    <3>7. x = z /\ y = z
      BY <3>5, <3>6, Zenon
    <3>8. QED
      BY <3>5, <3>7, Zenon
  <2>5. QED
    BY <2>3, <2>4
<1>8. QED
  BY <1>3, <1>6, <1>7, Zenon DEF Settled

LEMMA PublishedNow ==
    ASSUME ServiceTypeOK, serviceSeen \in Services, Computed(serviceSeen),
           NEW n \in StatusObject(serviceSeen), StatusFor(serviceSeen, n) = serviceSeen.status,
           misread' = (serviceSeen.computed = TLS /\ domainSeen # domain),
           UNCHANGED <<serviceSeen, endpointsSeen, domain>>
    PROVE  Published(n)'
<1>1. n \in Names /\ endpointsSeen[n] # None
  BY Zenon DEF StatusObject, Existing
<1>2. endpointsSeen[n].domainRef \in 0..2
  BY <1>1, EndpointTypes, EndpointFields, Zenon
<1>3. serviceSeen.computed \in Addrs \cup {TLS} /\ TLS \notin Addrs
  BY ServiceFields, ServiceAssumption, Zenon DEF Computed
<1>4. CASE serviceSeen.computed # TLS
  <2>1. serviceSeen.computed \in Addrs
    BY <1>3, <1>4, Zenon
  <2>2. StatusFor(serviceSeen, n) = serviceSeen.computed
    BY <1>4, <2>1, Zenon DEF StatusFor
  <2>3. QED
    BY <1>4, <2>2, Zenon DEF Published
<1>5. CASE serviceSeen.computed = TLS
  <2>1. CASE misread'
    BY <1>5, <2>1, Zenon DEF Published
  <2>2. CASE ~misread' /\ endpointsSeen[n].domainRef = 0
    BY <1>5, <2>2, Zenon DEF Published
  <2>3. CASE ~misread' /\ endpointsSeen[n].domainRef # 0
    <3>1. endpointsSeen[n].domainRef > 0
      BY <1>2, <2>3
    <3>2. domainSeen = domain
      BY <1>5, <2>3, Zenon
    <3>3. StatusFor(serviceSeen, n) = domainSeen
      BY <1>3, <1>5, <3>1, Zenon DEF StatusFor
    <3>4. QED
      BY <1>5, <3>2, <3>3, Zenon DEF Published
  <2>4. QED
    BY <2>1, <2>2, <2>3
<1>6. QED
  BY <1>4, <1>5

LEMMA WorkJoined ==
    ASSUME ServiceInv, Joined
    PROVE  Work'
<1>1. ServiceTypeOK /\ CopyInv /\ UpdateInv /\ OwnedInv /\ RemovalInv
  BY Zenon DEF ServiceInv
<1>2. /\ ServiceTypeOK'
      /\ rec.pc \in {"cleanup", "apply"} /\ \A k \in Kinds : rec.plan[k] = Nothing
      /\ Again \/ (~rec.failed /\ queued' = queued /\ (Cleaned \/ Applied))
      /\ UNCHANGED <<service, serviceFeed, endpoints, reserved, forgotten, serviceSeen, endpointsSeen, policySeen, domain>>
  BY <1>1, JoinedStep, Zenon DEF Reconciling
<1>3. rec.pc # "idle"
  BY <1>2
<1>4. CASE Again
  BY <1>4, WorkAgain, Zenon DEF Again
<1>5. (rec.fresh => rec.svc = service) /\ DeletingAt(rec.svc)
  BY <1>1, <1>3, Zenon DEF CopyInv
<1>6. /\ \A k \in Kinds : Owned(k)' = Owned(k)
      /\ Existing(endpointsSeen)' = Existing(endpointsSeen)
      /\ \A n \in Names : Stale(n)' <=> Stale(n)
      /\ Existing(endpointsSeen) \in SUBSET Names
  BY <1>2, Zenon DEF Owned, Existing, Stale
<1>7. (SomeStale' <=> SomeStale) /\ (Kept' <=> Kept) /\ (HandledAhead' <=> HandledAhead)
  BY <1>2, <1>6, Zenon DEF SomeStale, Kept, Unhandled, HandledAhead
<1>8. CASE ~rec.failed /\ queued' = queued /\ Cleaned
  <2>1. /\ rec.pc = "cleanup" /\ rec'.pc = "release"
        /\ rec'.svc = rec.svc /\ rec'.fresh = rec.fresh /\ rec'.owned = rec.owned
    BY <1>8, Zenon DEF Cleaned, Onward
  <2>2. /\ rec'.pc \notin Updates /\ rec'.pc # "idle" /\ rec'.pc # "register" /\ rec'.pc # "build"
        /\ rec'.pc # "annotate" /\ rec'.pc # "clear" /\ rec'.pc # "status" /\ rec'.pc # "cleanup"
        /\ rec.pc \in Removals
    BY <2>1 DEF Updates, Removals
  <2>3. CopyInv'
    BY <1>2, <1>5, <2>1, <2>2, Zenon DEF CopyInv, DeletingAt
  <2>4. UpdateInv' /\ RestInv'
    BY <2>2, Zenon DEF UpdateInv, RestInv
  <2>5. OwnedInv'
    BY <1>1, <1>2, <1>3, <1>8, <2>1, OwnedKept, Zenon
  <2>6. RemovalInv'
    <3>1. SUFFICES ASSUME ~queued
                   PROVE  RemovalInv'
      BY <1>8, Zenon DEF RemovalInv
    <3>2. /\ serviceSeen # None
          /\ Handled(serviceSeen) => serviceSeen.deleting /\ rec.svc.deleting
          /\ \A k \in Kinds : \A n \in Owned(k) : n \in rec.plan[k].delete \/ Stale(n)
          /\ Kept /\ Unhandled(serviceSeen) /\ ~HandledAhead => rec.svc.finalizer
      BY <1>1, <1>8, <2>1, <2>2, <3>1, Zenon DEF RemovalInv
    <3>3. \A k \in Kinds : \A n \in Owned(k) : Stale(n)
      BY <1>2, <3>2, NothingFacts, Zenon
    <3>4. \A n \in Existing(endpointsSeen)' : Stale(n)'
      BY <1>1, <1>6, <3>3, AllOwned, Zenon
    <3>5. QED
      BY <1>2, <1>7, <2>1, <2>2, <3>2, <3>4, Zenon DEF RemovalInv, Handled, Unhandled
  <2>7. QED
    BY <2>3, <2>4, <2>5, <2>6, Zenon DEF Work
<1>9. CASE ~rec.failed /\ queued' = queued /\ Applied
  <2>1. rec.pc = "apply" /\ misread' = (rec.svc.computed = TLS /\ domainSeen # domain)
    BY <1>9, Zenon DEF Applied
  <2>2. rec.pc \in Updates /\ rec.pc \in Updates \ {"register"} /\ rec.pc \in {"apply", "status"}
    BY <2>1 DEF Updates
  <2>3. rec.svc.finalizer
    BY <1>1, <1>3, <2>2, Zenon DEF CopyInv
  <2>4. ASSUME ~queued
        PROVE  /\ Wanted(serviceSeen)
               /\ serviceFeed = <<>> => /\ rec.svc = serviceSeen /\ Computed(rec.svc)
                                        /\ \A k \in Kinds : Carried(k)
    BY <1>1, <1>9, <2>1, <2>2, <2>4, Zenon DEF UpdateInv
  <2>5. PICK n \in StatusObject(rec.svc) :
           \/ rec' = NoRec /\ StatusFor(rec.svc, n) = rec.svc.status
           \/ Onward /\ rec'.pc = "status" /\ rec'.status # rec.svc.status
    BY <1>9, Zenon DEF Applied
  <2>6. CASE Onward /\ rec'.pc = "status" /\ rec'.status # rec.svc.status
    <3>1. rec'.svc = rec.svc /\ rec'.fresh = rec.fresh /\ rec'.owned = rec.owned
      BY <2>6, Zenon DEF Onward
    <3>2. /\ rec'.pc \in {"build", "annotate", "clear", "apply", "status"} /\ rec'.pc # "apply"
          /\ rec'.pc # "annotate" /\ rec'.pc # "clear"
      BY <2>6
    <3>3. rec'.svc.finalizer /\ (rec'.fresh => rec'.svc = service') /\ DeletingAt(rec.svc)'
      BY <1>2, <1>5, <2>3, <3>1, Zenon DEF DeletingAt
    <3>4. CopyInv' /\ RemovalInv' /\ RestInv'
      BY <2>6, <3>1, <3>2, <3>3, Going, Zenon
    <3>5. OwnedInv'
      BY <1>1, <1>2, <1>3, <1>9, <3>1, OwnedKept, Zenon
    <3>6. UpdateInv'
      BY <1>2, <1>9, <2>4, <3>1, <3>2, Zenon DEF UpdateInv, Wanted, Handled
    <3>7. QED
      BY <3>4, <3>5, <3>6, Zenon DEF Work
  <2>7. CASE rec' = NoRec /\ StatusFor(rec.svc, n) = rec.svc.status
    <3>1. RestInv'
      <4>1. SUFFICES ASSUME ~queued
                     PROVE  RestInv'
        BY <1>9, Zenon DEF RestInv
      <4>2. Wanted(serviceSeen)
        BY <2>4, <4>1, Zenon
      <4>3. ~Unhandled(serviceSeen)' /\ (Handled(serviceSeen)' => ~serviceSeen'.deleting)
        BY <1>2, <4>2, Zenon DEF Wanted, Handled, Unhandled
      <4>4. ASSUME serviceFeed' = <<>>
            PROVE  /\ serviceSeen'.finalizer /\ Computed(serviceSeen)'
                   /\ SomeStale' \/ (Settled' /\ \E m \in StatusObject(serviceSeen)' : Published(m)')
        <5>1. rec.svc = serviceSeen /\ Computed(serviceSeen) /\ \A k \in Kinds : Carried(k)
          BY <1>2, <2>4, <4>1, <4>4, Zenon
        <5>2. serviceSeen \in Services /\ serviceSeen # None
          BY <1>1, <1>3, <5>1, RecTypes, RecFields, ServiceFields, Zenon
        <5>3. serviceSeen'.finalizer /\ Computed(serviceSeen)'
          BY <1>2, <2>3, <5>1, Zenon DEF Computed
        <5>4. CASE SomeStale
          BY <1>7, <5>3, <5>4, Zenon
        <5>5. CASE ~SomeStale
          <6>1. n \in StatusObject(serviceSeen) /\ \A k \in Kinds : Carried(k) /\ rec.plan[k] = Nothing
            BY <1>2, <5>1, Zenon
          <6>2. Settled
            BY <1>1, <5>1, <5>2, <5>5, <6>1, NothingToDo, Zenon
          <6>3. CacheStays
            BY <1>2, Zenon DEF CacheStays
          <6>4. Settled'
            BY <5>2, <6>2, <6>3, FitsSame, Zenon
          <6>5. Published(n)'
            <7>1. /\ StatusFor(serviceSeen, n) = serviceSeen.status
                  /\ misread' = (serviceSeen.computed = TLS /\ domainSeen # domain)
                  /\ UNCHANGED <<serviceSeen, endpointsSeen, domain>>
              BY <1>2, <2>1, <2>7, <5>1, Zenon
            <7>2. QED
              BY <1>1, <5>1, <5>2, <6>1, <7>1, PublishedNow, Zenon
          <6>6. n \in StatusObject(serviceSeen)'
            BY <1>2, <6>1, Zenon DEF StatusObject, Existing
          <6>7. QED
            BY <5>3, <6>4, <6>5, <6>6, Zenon
        <5>6. QED
          BY <5>4, <5>5
      <4>5. QED
        BY <4>3, <4>4, Zenon DEF RestInv
    <3>2. QED
      BY <2>7, <3>1, IdleWork, Zenon DEF Work
  <2>8. QED
    BY <2>5, <2>6, <2>7, Zenon
<1>10. QED
  BY <1>2, <1>4, <1>8, <1>9, Zenon

LEMMA WorkPublished ==
    ASSUME ServiceInv, UpdateServiceStatus
    PROVE  Work'
<1>1. ServiceTypeOK /\ FeedInv /\ CopyInv /\ UpdateInv
  BY Zenon DEF ServiceInv
<1>2. /\ rec.pc = "status" /\ VersionStep
      /\ \/ Again
         \/ /\ rec' = NoRec /\ queued' = queued
            /\ service # None /\ service' # None /\ service' # service
      /\ serviceSeen' = serviceSeen
  BY <1>1, StatusStep, Zenon DEF Reconciling
<1>3. CASE Again
  BY <1>3, WorkAgain, Zenon DEF Again
<1>4. CASE rec' = NoRec /\ queued' = queued /\ service' # service
  <2>1. rec.pc \in Updates
    BY <1>2 DEF Updates
  <2>2. serviceFeed' # <<>>
    BY <1>1, <1>2, <1>4, FeedAhead, Zenon
  <2>3. RestInv'
    <3>1. SUFFICES ASSUME ~queued
                   PROVE  RestInv'
      BY <1>4, Zenon DEF RestInv
    <3>2. Wanted(serviceSeen)
      BY <1>1, <2>1, <3>1, Zenon DEF UpdateInv
    <3>3. ~Unhandled(serviceSeen)' /\ (Handled(serviceSeen)' => ~serviceSeen'.deleting)
      BY <1>2, <3>2, Zenon DEF Wanted, Handled, Unhandled
    <3>4. QED
      BY <2>2, <3>3, Zenon DEF RestInv
  <2>4. QED
    BY <1>4, <2>3, IdleWork, Zenon DEF Work
<1>5. QED
  BY <1>2, <1>3, <1>4, Zenon

LEMMA WorkReleased ==
    ASSUME ServiceInv, Release
    PROVE  Work'
<1>1. ServiceTypeOK /\ FeedInv /\ CopyInv /\ RemovalInv
  BY Zenon DEF ServiceInv
<1>2. /\ rec.pc = "release" /\ rec' = NoRec /\ VersionStep
      /\ \/ Again
         \/ queued' = queued /\ VersionStays /\ ~rec.svc.finalizer
         \/ queued' = queued /\ Released
      /\ UNCHANGED <<serviceSeen, endpoints, endpointsSeen>>
  BY <1>1, ReleaseStep, Zenon DEF Reconciling
<1>3. CASE Again
  BY <1>3, WorkAgain, Zenon DEF Again
<1>4. CASE /\ queued' = queued
           /\ (VersionStays /\ ~rec.svc.finalizer) \/ Released
  <2>1. rec.pc \in Removals /\ rec.pc # "idle"
    BY <1>2 DEF Removals
  <2>2. RestInv'
    <3>1. SUFFICES ASSUME ~queued
                   PROVE  RestInv'
      BY <1>4, Zenon DEF RestInv
    <3>2. /\ serviceSeen # None
          /\ Handled(serviceSeen) => serviceSeen.deleting /\ rec.svc.deleting
          /\ \A n \in Existing(endpointsSeen) : Stale(n)
          /\ Kept /\ Unhandled(serviceSeen) /\ ~HandledAhead => rec.svc.finalizer
      BY <1>1, <1>2, <2>1, <3>1, Zenon DEF RemovalInv
    <3>3. SomeStale' \/ Existing(endpointsSeen)' = {}
      BY <1>2, <3>2, Zenon DEF SomeStale, Existing, Stale
    <3>4. Unhandled(serviceSeen)' /\ ~HandledAhead' => ~Kept'
      <4>1. SUFFICES ASSUME Unhandled(serviceSeen), ~HandledAhead', Kept'
                     PROVE  FALSE
        BY <1>2, Zenon DEF Unhandled
      <4>2. Kept /\ ~HandledAhead
        BY <1>1, <1>2, <4>1, KeptBefore, Zenon DEF Unhandled, Handled
      <4>3. Released
        BY <1>4, <3>2, <4>1, <4>2, Zenon
      <4>4. QED
        BY <4>1, <4>3, Zenon DEF Released, Kept, Unhandled
    <3>5. Handled(serviceSeen)' /\ serviceSeen'.deleting => service' = None
      <4>1. SUFFICES ASSUME Handled(serviceSeen)
                     PROVE  service' = None
        BY <1>2, Zenon DEF Handled
      <4>2. rec.svc.deleting /\ rec.svc # None /\ DeletingAt(rec.svc)
        BY <1>1, <2>1, <3>2, <4>1, RecTypes, RecFields, ServiceFields, Zenon DEF CopyInv
      <4>3. rec.svc.finalizer /\ (service = None \/ service.deleting)
        BY <4>2, Zenon DEF DeletingAt
      <4>4. QED
        BY <1>4, <4>3, Zenon DEF Released
    <3>6. ~Wanted(serviceSeen)'
      BY <1>2, <3>2, Zenon DEF Wanted, Handled
    <3>7. QED
      BY <3>3, <3>4, <3>5, <3>6, Zenon DEF RestInv
  <2>3. QED
    BY <1>2, <2>2, IdleWork, Zenon DEF Work
<1>5. QED
  BY <1>2, <1>3, <1>4, Zenon

(***************************************************************************)
(* The invariant holds at first and is kept.                               *)
(***************************************************************************)
LEMMA InvTogether ==
    ASSUME ServiceTypeOK', Core', Work'
    PROVE  ServiceInv'
  BY Zenon DEF ServiceInv, Core, Work

LEMMA ServiceInvInit ==
    ASSUME ServiceInit
    PROVE  ServiceInv
<1>1. PICK s \in Services : /\ service = s /\ s.finalizer = FALSE /\ s.deleting = FALSE
                            /\ serviceFeed = <<s>>
  <2>1. None \in Addrs \cup {TLS, None} /\ None \in Addrs \cup {"plain", "cname", None} /\ FALSE \in BOOLEAN
    BY Zenon
  <2>2. service \in Services /\ service.finalizer = FALSE /\ service.deleting = FALSE
    BY <2>1, Zenon DEF ServiceInit, Services
  <2>3. QED
    BY <2>2, Zenon DEF ServiceInit
<1>2. /\ serviceSeen = None /\ rec = NoRec /\ queued = FALSE /\ reserved = {} /\ events = 0
      /\ forgotten = FALSE /\ misread = FALSE /\ domain = None /\ domainSeen = None
      /\ policy \in Policies \cup {None} /\ policySeen = policy
      /\ endpoints = [n \in Names |-> None] /\ endpointsSeen = endpoints
  BY Zenon DEF ServiceInit
<1>3. serviceFeed \in Seq(Services \cup {None}) /\ DOMAIN serviceFeed = {1} /\ Len(serviceFeed) = 1
      /\ serviceFeed[1] = s /\ serviceFeed # <<>>
  BY <1>1
<1>4. \A n \in Names : endpoints[n] = None /\ endpointsSeen[n] = None
  BY <1>2, Zenon
<1>5. s # None /\ None # TLS
  BY ServiceFields, ServiceAssumption, Zenon
<1>6. events \in 0..MaxEvents
  BY <1>2, ServiceAssumption
<1>7. ServiceTypeOK
  <2>1. endpoints \in [Names -> Endpoints \cup {None}]
    BY <1>2, Zenon
  <2>2. QED
    BY <1>1, <1>2, <1>3, <1>6, <2>1, Zenon DEF ServiceTypeOK
<1>8. FeedInv
  BY <1>1, <1>2, <1>3, Zenon DEF FeedInv, DeletingAt
<1>9. BirthInv
  BY <1>1, <1>2, <1>3, <1>4, Zenon DEF BirthInv, Unborn
<1>10. FinalizerInv
  BY <1>1, <1>2, Zenon DEF FinalizerInv, Kept
<1>11. rec.pc = "idle"
  BY <1>2, NoRecFacts, Zenon
<1>12. CopyInv /\ UpdateInv /\ OwnedInv /\ RemovalInv
  BY <1>11, PcFacts, Zenon DEF CopyInv, UpdateInv, OwnedInv, RemovalInv
<1>13. RestInv
  BY <1>2, Zenon DEF RestInv, Handled, Unhandled, Wanted
<1>14. RefInv /\ OrderInv
  BY <1>4 DEF RefInv, OrderInv
<1>15. QED
  BY <1>7, <1>8, <1>9, <1>10, <1>12, <1>13, <1>14, Zenon DEF ServiceInv

LEMMA CoreReconciled ==
    ASSUME ServiceInv, ServiceTypeOK', VersionStep, rec.pc # "idle" \/ queued,
           UNCHANGED <<endpoints, endpointsSeen, domain>>
    PROVE  Core'
<1>1. EndpointsAge
  BY EndpointsStill, Zenon
<1>2. QED
  BY <1>1, CoreKept, Zenon

LEMMA StillVersion ==
    ASSUME UNCHANGED <<service, serviceFeed, serviceSeen, forgotten>>
    PROVE  VersionStep
  BY Zenon DEF VersionStep, VersionStays

LEMMA ReconcileKeeps ==
    ASSUME ServiceInv, ReconcileService
    PROVE  ServiceInv'
<1>1. ServiceTypeOK /\ FeedInv /\ CopyInv
  BY Zenon DEF ServiceInv
<1>2. CASE StartService
  <2>1. /\ ServiceTypeOK' /\ queued
        /\ UNCHANGED <<service, serviceFeed, serviceSeen, forgotten>>
        /\ UNCHANGED <<endpoints, endpointsSeen, domain>>
    BY <1>1, <1>2, StartServiceStep, Zenon DEF Reconciling
  <2>2. Core'
    BY <2>1, StillVersion, CoreReconciled, Zenon
  <2>3. QED
    BY <1>2, <2>1, <2>2, WorkStarted, InvTogether, Zenon
<1>3. CASE Register
  <2>1. /\ ServiceTypeOK' /\ rec.pc = "register" /\ VersionStep
        /\ UNCHANGED <<endpoints, endpointsSeen, domain>>
    BY <1>1, <1>3, RegisterServiceStep, Zenon DEF Reconciling
  <2>2. rec.pc # "idle"
    BY <2>1
  <2>3. Core'
    BY <2>1, <2>2, CoreReconciled, Zenon
  <2>4. QED
    BY <1>3, <2>1, <2>3, WorkRegistered, InvTogether, Zenon
<1>4. CASE buildEndpoints
  <2>1. /\ ServiceTypeOK' /\ rec.pc = "build"
        /\ UNCHANGED <<service, serviceFeed, serviceSeen, forgotten>>
        /\ UNCHANGED <<endpoints, endpointsSeen, domain>>
    BY <1>1, <1>4, BuildStep, Zenon DEF Reconciling
  <2>2. rec.pc # "idle"
    BY <2>1
  <2>3. Core'
    BY <2>1, <2>2, StillVersion, CoreReconciled, Zenon
  <2>4. QED
    BY <1>4, <2>1, <2>3, WorkBuilt, InvTogether, Zenon
<1>5. CASE setComputedURLAnnotation \/ clearComputedURLAnnotation
  <2>1. /\ ServiceTypeOK' /\ (rec.pc = "annotate" \/ rec.pc = "clear") /\ VersionStep
        /\ UNCHANGED <<endpoints, endpointsSeen, domain>>
    BY <1>1, <1>5, AnnotationStep, Zenon DEF Reconciling
  <2>2. rec.pc # "idle"
    BY <2>1
  <2>3. Core'
    BY <2>1, <2>2, CoreReconciled, Zenon
  <2>4. QED
    BY <1>5, <2>1, <2>3, WorkAnnotated, InvTogether, Zenon
<1>6. ASSUME NEW k \in Kinds, deleteOwned(k) \/ updateOwned(k) \/ createOwned(k) \/ Cancelled(k)
      PROVE  ServiceInv'
  <2>1. ServiceTypeOK' /\ Called(k)
    BY <1>1, <1>6, DeleteOwnedStep, UpdateOwnedStep, CreateOwnedStep, CancelledStep, Zenon
  <2>2. /\ rec.pc # "idle" /\ EndpointsAge
        /\ UNCHANGED <<service, serviceFeed, serviceSeen, forgotten>>
    BY <2>1, Zenon DEF Called, Reconciling
  <2>3. Core'
    BY <2>1, <2>2, StillVersion, CoreKept, Zenon
  <2>4. QED
    BY <2>1, <2>3, WorkCalled, InvTogether, Zenon
<1>7. CASE Joined
  <2>1. /\ ServiceTypeOK' /\ rec.pc \in {"cleanup", "apply"}
        /\ UNCHANGED <<service, serviceFeed, serviceSeen, forgotten>>
        /\ UNCHANGED <<endpoints, endpointsSeen, domain>>
    BY <1>1, <1>7, JoinedStep, Zenon DEF Reconciling
  <2>2. rec.pc # "idle"
    BY <2>1
  <2>3. Core'
    BY <2>1, <2>2, StillVersion, CoreReconciled, Zenon
  <2>4. QED
    BY <1>7, <2>1, <2>3, WorkJoined, InvTogether, Zenon
<1>8. CASE UpdateServiceStatus
  <2>1. /\ ServiceTypeOK' /\ rec.pc = "status" /\ VersionStep
        /\ UNCHANGED <<endpoints, endpointsSeen, domain>>
    BY <1>1, <1>8, StatusStep, Zenon DEF Reconciling
  <2>2. rec.pc # "idle"
    BY <2>1
  <2>3. Core'
    BY <2>1, <2>2, CoreReconciled, Zenon
  <2>4. QED
    BY <1>8, <2>1, <2>3, WorkPublished, InvTogether, Zenon
<1>9. CASE Release
  <2>1. /\ ServiceTypeOK' /\ rec.pc = "release" /\ VersionStep
        /\ UNCHANGED <<endpoints, endpointsSeen, domain>>
    BY <1>1, <1>9, ReleaseStep, Zenon DEF Reconciling
  <2>2. rec.pc # "idle"
    BY <2>1
  <2>3. Core'
    BY <2>1, <2>2, CoreReconciled, Zenon
  <2>4. QED
    BY <1>9, <2>1, <2>3, WorkReleased, InvTogether, Zenon
<1>10. QED
  BY <1>2, <1>3, <1>4, <1>5, <1>6, <1>7, <1>8, <1>9, Zenon DEF ReconcileService

LEMMA OuterKeeps ==
    ASSUME ServiceInv, ServiceTypeOK', Outer
    PROVE  ServiceInv'
  BY CoreOuter, WorkOuter, InvTogether, Zenon

LEMMA OthersKeep ==
    ASSUME ServiceInv, Inform \/ Others \/ Disturb
    PROVE  ServiceInv'
<1>1. ServiceTypeOK
  BY Zenon DEF ServiceInv
<1>2. CASE DeliverService
  <2>1. ServiceTypeOK'
    BY <1>1, <1>2, DeliverServiceStep, Zenon
  <2>2. QED
    BY <1>2, <2>1, CoreDelivered, WorkDelivered, InvTogether, Zenon
<1>3. ASSUME NEW k \in Kinds, DeliverEndpoints(k)
      PROVE  ServiceInv'
  <2>1. ServiceTypeOK' /\ Informed
    BY <1>1, <1>3, DeliverEndpointsStep, Zenon
  <2>2. QED
    BY <2>1, CoreInformed, WorkInformed, InvTogether, Zenon
<1>4. CASE EditService \/ DeleteService
  <2>1. ServiceTypeOK' /\ Outer
    BY <1>1, <1>4, WrittenOutside, Zenon
  <2>2. QED
    BY <2>1, OuterKeeps, Zenon
<1>5. ASSUME NEW n \in Names, DeleteEndpoint(n) \/ CollectGarbage(n) \/ FinishDeletion(n) \/ SetDomainRef(n)
      PROVE  ServiceInv'
  <2>1. ServiceTypeOK' /\ Outer
    BY <1>1, <1>5, EndpointOutside, Zenon
  <2>2. QED
    BY <2>1, OuterKeeps, Zenon
<1>6. CASE EditPolicy \/ SetCNAMETarget \/ DeliverPolicy \/ DeliverDomain \/ \E a \in Addrs : ReleaseAddress(a)
  <2>1. ServiceTypeOK' /\ Outer
    BY <1>1, <1>6, OtherOutside, Zenon
  <2>2. QED
    BY <2>1, OuterKeeps, Zenon
<1>7. CASE Fault
  <2>1. /\ ServiceTypeOK' /\ rec # NoRec /\ Again
        /\ UNCHANGED <<service, serviceFeed, serviceSeen, forgotten>>
        /\ UNCHANGED <<endpoints, endpointsSeen, domain>>
    BY <1>1, <1>7, FaultStep, Zenon
  <2>2. rec.pc # "idle"
    BY <1>1, <2>1, RecTypes, Zenon
  <2>3. Core'
    BY <2>1, <2>2, StillVersion, CoreReconciled, Zenon
  <2>4. QED
    BY <2>1, <2>3, WorkAgain, InvTogether, Zenon DEF Again
<1>8. CASE RestartController
  <2>1. ServiceTypeOK' /\ Renewed
    BY <1>1, <1>8, RestartStep, Zenon
  <2>2. QED
    BY <2>1, CoreRenewed, WorkRenewed, InvTogether, Zenon
<1>9. QED
  BY <1>2, <1>3, <1>4, <1>5, <1>6, <1>7, <1>8, Zenon DEF Inform, Others, Disturb

LEMMA ServiceStutters ==
    ASSUME ServiceInv, UNCHANGED serviceVars
    PROVE  ServiceInv'
<1>1. UNCHANGED <<service, serviceFeed, endpoints, serviceSeen, endpointsSeen, policySeen, domainSeen, policy, domain,
                  reserved, queued, rec, forgotten, misread, events>>
  BY Zenon DEF serviceVars, objects, caches, outside, ghosts
<1>2. ServiceTypeOK /\ CopyInv
  BY Zenon DEF ServiceInv
<1>3. ServiceTypeOK'
  BY <1>1, <1>2, Zenon DEF ServiceTypeOK
<1>4. VersionStep /\ EndpointsAge
  BY <1>1, StillVersion, EndpointsStill, Zenon
<1>5. Outer
  BY <1>1, <1>4, Zenon DEF Outer, RecSame
<1>6. QED
  BY <1>3, <1>5, OuterKeeps, Zenon

\* The invariant: what the last reconcile left behind, what it read and what has
\* come since are in step (Reconcile, the watches of SetupWithManager).
THEOREM ServiceInvariant == ServiceSpec => []ServiceInv
<1>1. ServiceInit => ServiceInv
  BY ServiceInvInit
<1>2. ServiceInv /\ [ServiceNext]_serviceVars => ServiceInv'
  <2>1. SUFFICES ASSUME ServiceInv, [ServiceNext]_serviceVars
                 PROVE  ServiceInv'
    OBVIOUS
  <2>2. QED
    BY <2>1, ReconcileKeeps, OthersKeep, ServiceStutters, Zenon DEF ServiceNext
<1>3. QED
  BY <1>1, <1>2, PTL DEF ServiceSpec

(***************************************************************************)
(* At rest.                                                                *)
(***************************************************************************)
LEMMA AtRest ==
    ASSUME ServiceInv, Quiet, service # None
    PROVE  /\ serviceSeen = service /\ service \in Services /\ ~SomeStale /\ ~HandledAhead
           /\ ~queued /\ rec.pc = "idle" /\ serviceFeed = <<>>
           /\ endpointsSeen = endpoints /\ policySeen = policy
<1>1. ServiceTypeOK /\ FeedInv
  BY Zenon DEF ServiceInv
<1>2. /\ rec = NoRec /\ ~queued /\ serviceFeed = <<>>
      /\ endpointsSeen = endpoints /\ policySeen = policy /\ domainSeen = domain
      /\ \A n \in Existing(endpoints) : ~endpoints[n].deleting
  BY Zenon DEF Quiet
<1>3. serviceSeen = service /\ service \in Services
  BY <1>1, <1>2, ServiceTypes, Zenon DEF FeedInv, Versions
<1>4. ~SomeStale
  BY <1>2, Zenon DEF SomeStale, Stale, Existing
<1>5. DOMAIN serviceFeed = {}
  BY <1>2
<1>6. ~HandledAhead
  BY <1>5, Zenon DEF HandledAhead
<1>7. rec.pc = "idle"
  BY <1>2, NoRecFacts, Zenon
<1>8. QED
  BY <1>2, <1>3, <1>4, <1>6, <1>7, Zenon

LEMMA SettledMatches ==
    ASSUME Settled, serviceSeen = service, endpointsSeen = endpoints, policySeen = policy
    PROVE  Matches(service)
<1> DEFINE d == Desired(service, service.computed, policy)
           Mine(k) == {n \in Existing(endpoints) : endpoints[n].kind = k}
<1>1. ASSUME NEW k \in Kinds
      PROVE  Ask(k) = d[k] /\ Owned(k) = Mine(k)
  BY Zenon DEF Ask, Owned
<1> HIDE DEF d, Mine
<1>2. ASSUME NEW k \in Kinds
      PROVE  IF d[k] = None THEN Mine(k) = {}
             ELSE Alone(Mine(k)) /\ \A n \in Mine(k) : Merge(endpoints[n], d[k]) = endpoints[n]
  <2>1. CASE Ask(k) = None
    BY <1>1, <2>1, Zenon DEF Settled
  <2>2. CASE Ask(k) # None
    <3>1. Alone(Owned(k)) /\ \A n \in Owned(k) : Merge(endpointsSeen[n], Ask(k)) = endpointsSeen[n]
      BY <2>2, Zenon DEF Settled, Single, Fits
    <3>2. QED
      BY <1>1, <2>2, <3>1, Zenon
  <2>3. QED
    BY <2>1, <2>2, Zenon
<1>3. QED
  BY <1>2, Zenon DEF Matches, d, Mine

LEMMA EndpointsRest ==
    ASSUME ServiceInv
    PROVE  EndpointsSettle
<1>1. SUFFICES ASSUME Quiet, service # None
               PROVE  /\ service.deleting => forgotten
                      /\ ~shouldHandleService(service) =>
                            /\ Existing(endpoints) = {}
                            /\ service.finalizer => forgotten
                      /\ shouldHandleService(service) /\ service.spec.ports /\ ~service.deleting =>
                            /\ service.finalizer
                            /\ service.computed # None
                            /\ service.computed = TLS <=> service.spec.url = TLS
                            /\ Matches(service)
  BY Zenon DEF EndpointsSettle
<1>2. /\ serviceSeen = service /\ service \in Services /\ ~SomeStale /\ ~HandledAhead
      /\ ~queued /\ rec.pc = "idle" /\ serviceFeed = <<>>
      /\ endpointsSeen = endpoints /\ policySeen = policy
  BY <1>1, AtRest, Zenon
<1>3. ServiceTypeOK /\ FeedInv /\ RestInv
  BY Zenon DEF ServiceInv
<1>4. service.deleting => service.finalizer
  BY <1>1, <1>3, Zenon DEF FeedInv, DeletingAt
<1>5. CASE Unhandled(service)
  <2>1. Existing(endpointsSeen) = {} /\ ~Kept
    BY <1>2, <1>3, <1>5, Zenon DEF RestInv
  <2>2. service.finalizer => forgotten
    BY <1>5, <2>1, Zenon DEF Kept
  <2>3. QED
    BY <1>2, <1>4, <1>5, <2>1, <2>2, Zenon DEF Unhandled
<1>6. CASE Handled(service)
  <2>1. ~service.deleting
    BY <1>1, <1>2, <1>3, <1>6, Zenon DEF RestInv
  <2>2. ASSUME service.spec.ports
        PROVE  service.finalizer /\ Computed(service) /\ Matches(service)
    <3>1. Wanted(service)
      BY <1>6, <2>1, <2>2, Zenon DEF Wanted
    <3>2. service.finalizer /\ Computed(service) /\ Settled
      BY <1>2, <1>3, <3>1, Zenon DEF RestInv
    <3>3. QED
      BY <1>2, <3>2, SettledMatches, Zenon
  <2>3. QED
    BY <1>6, <2>1, <2>2, Zenon DEF Handled, Computed
<1>7. QED
  BY <1>1, <1>5, <1>6, Zenon DEF Handled, Unhandled

\* The endpoint that the status is read from has the computed URL.
LEMMA StatusURL ==
    ASSUME ServiceTypeOK, serviceSeen \in Services, Computed(serviceSeen), Settled,
           NEW n \in StatusObject(serviceSeen)
    PROVE  endpointsSeen[n].url = serviceSeen.computed
<1>1. serviceSeen.computed \in Addrs \cup {TLS} /\ policySeen \in Policies \cup {None}
  BY ServiceFields, ServiceTypes, Zenon DEF Computed
<1> DEFINE d == Desired(serviceSeen, serviceSeen.computed, policySeen)
<1>2. /\ \A k \in Kinds : d[k] \in NewEndpoints \cup {None}
      /\ d["cloud"] = None <=> ~serviceSeen.spec.verbose
      /\ d["agent"] # None
      /\ serviceSeen.spec.verbose => d["cloud"].url = serviceSeen.computed
      /\ ~serviceSeen.spec.verbose => d["agent"].url = serviceSeen.computed
  BY <1>1, DesiredFacts, Zenon
<1>3. \A k \in Kinds : Ask(k) = d[k]
  BY Zenon DEF Ask
<1> HIDE DEF d
<1>4. n \in Existing(endpointsSeen) /\ n \in Names /\ endpointsSeen[n] # None
  BY Zenon DEF StatusObject, Existing
<1>5. PICK e \in Endpoints : endpointsSeen[n] = e
  BY <1>4, EndpointTypes, Zenon
<1>6. ASSUME NEW k \in Kinds, n \in Owned(k), d[k].url = serviceSeen.computed
      PROVE  endpointsSeen[n].url = serviceSeen.computed
  <2>1. Ask(k) # None /\ Fits(k)
    BY <1>6, Zenon DEF Settled
  <2>2. PICK w \in Endpoints : Ask(k) = w /\ w.url = serviceSeen.computed
    BY <1>2, <1>3, <1>6, <2>1, NewFields, Zenon
  <2>3. Merge(e, w) = e
    BY <1>5, <1>6, <2>1, <2>2, Zenon DEF Fits
  <2>4. Merge(e, w).url = w.url
    BY MergeFacts, Zenon
  <2>5. QED
    BY <1>5, <2>2, <2>3, <2>4, Zenon
<1>7. CASE serviceSeen.spec.verbose
  <2>1. endpointsSeen[n].kind = "cloud"
    BY <1>7, Zenon DEF StatusObject
  <2>2. n \in Owned("cloud")
    BY <1>4, <2>1, Zenon DEF Owned
  <2>3. QED
    BY <1>2, <1>6, <1>7, <2>2, KindFacts, Zenon
<1>8. CASE ~serviceSeen.spec.verbose
  <2>1. Owned("cloud") = {}
    BY <1>2, <1>3, <1>8, KindFacts, Zenon DEF Settled
  <2>2. n \in Owned("agent")
    BY <1>4, <2>1, AllOwned, KindFacts, Zenon
  <2>3. QED
    BY <1>2, <1>6, <1>8, <2>2, KindFacts, Zenon
<1>9. QED
  BY <1>7, <1>8, Zenon

LEMMA StatusRests ==
    ASSUME ServiceInv
    PROVE  StatusSettles
<1>1. SUFFICES ASSUME Quiet, service # None, ~service.deleting, ~misread,
                      shouldHandleService(service), service.spec.ports
               PROVE  service.status = IF service.computed = TLS THEN domain ELSE service.computed
  BY Zenon DEF StatusSettles
<1>2. /\ serviceSeen = service /\ service \in Services /\ ~SomeStale /\ ~HandledAhead
      /\ ~queued /\ rec.pc = "idle" /\ serviceFeed = <<>>
      /\ endpointsSeen = endpoints /\ policySeen = policy
  BY <1>1, AtRest, Zenon
<1>3. ServiceTypeOK /\ RestInv
  BY Zenon DEF ServiceInv
<1>4. Wanted(serviceSeen)
  BY <1>1, <1>2, Zenon DEF Wanted, Handled
<1>5. Computed(serviceSeen) /\ Settled /\ \E n \in StatusObject(serviceSeen) : Published(n)
  BY <1>2, <1>3, <1>4, Zenon DEF RestInv
<1>6. PICK n \in StatusObject(serviceSeen) : Published(n)
  BY <1>5, Zenon
<1>7. CASE service.computed # TLS
  BY <1>2, <1>6, <1>7, Zenon DEF Published
<1>8. CASE service.computed = TLS
  <2>1. endpointsSeen[n].url = TLS /\ n \in Existing(endpoints)
    BY <1>2, <1>3, <1>5, <1>8, StatusURL, Zenon DEF StatusObject
  <2>2. /\ endpoints[n].domainRef > 0
        /\ domain = "cname" => endpoints[n].domainRef = 2
    BY <1>1, <1>2, <2>1, Zenon DEF Quiet
  <2>3. endpoints[n].domainRef # 0 /\ ~(endpoints[n].domainRef = 1 /\ domain = "cname")
    BY <2>2
  <2>4. QED
    BY <1>1, <1>2, <1>6, <1>8, <2>3, Zenon DEF Published
<1>9. QED
  BY <1>7, <1>8, Zenon

\* When nothing is under way a Service has exactly the endpoints, the finalizer, the
\* URL and the status that it asks for, for any names, addresses, policies, specs and
\* number of events (Reconcile, buildEndpoints, updateStatus, the watches).
THEOREM ServiceSettlesAlways == ServiceSpec => []ServiceSettles
<1>1. ServiceInv => ServiceSettles
  BY EndpointsRest, StatusRests, Zenon DEF ServiceSettles
<1>2. QED
  BY <1>1, ServiceInvariant, PTL

(***************************************************************************)
(* The computed address.                                                   *)
(***************************************************************************)
SameAddress == service # None /\ service' # None => service'.computed = service.computed

LEMMA RegisterSame ==
    ASSUME ServiceTypeOK, Register
    PROVE  SameAddress
<1>1. CASE service = None
  BY <1>1, Zenon DEF SameAddress
<1>2. CASE service # None
  <2>1. PICK o \in Services : service = o
    BY <1>2, ServiceTypes, Zenon DEF Versions
  <2>2. service' = [o EXCEPT !.finalizer = TRUE]
    BY <1>2, <2>1, Zenon DEF Register, Store
  <2>3. service'.computed = o.computed
    BY <2>2, Zenon DEF Services
  <2>4. QED
    BY <2>1, <2>3, Zenon DEF SameAddress
<1>3. QED
  BY <1>1, <1>2, Zenon

LEMMA AnnotationKeeps ==
    ASSUME ServiceInv, setComputedURLAnnotation \/ clearComputedURLAnnotation
    PROVE  SameAddress \/ service.spec.url = TLS \/ service.computed = None \/ service.computed \notin reserved
<1>1. ServiceTypeOK /\ FeedInv /\ CopyInv
  BY Zenon DEF ServiceInv
<1>2. /\ rec.pc = "annotate" \/ rec.pc = "clear"
      /\ VersionStays \/ rec.svc = service
  BY <1>1, AnnotationStep, Zenon
<1>3. rec.pc # "idle"
  BY <1>2
<1>4. /\ rec.pc = "annotate" => rec.svc.computed = None \/ rec.svc.spec.url = TLS
      /\ rec.pc = "clear" => rec.svc.computed \notin reserved
  BY <1>1, <1>3, Zenon DEF CopyInv
<1>5. CASE VersionStays
  BY <1>5, Zenon DEF VersionStays, SameAddress
<1>6. CASE rec.svc = service
  BY <1>2, <1>4, <1>6, Zenon
<1>7. QED
  BY <1>2, <1>5, <1>6, Zenon

LEMMA ReconcileKeepsAddress ==
    ASSUME ServiceInv, ReconcileService
    PROVE  SameAddress \/ service.spec.url = TLS \/ service.computed = None \/ service.computed \notin reserved
<1>1. ServiceTypeOK /\ FeedInv /\ CopyInv
  BY Zenon DEF ServiceInv
<1>2. service' = service => SameAddress
  BY Zenon DEF SameAddress
<1>3. CASE StartService
  BY <1>1, <1>2, <1>3, StartServiceStep, Zenon
<1>4. CASE Register
  BY <1>1, <1>4, RegisterSame, Zenon
<1>5. CASE buildEndpoints
  BY <1>1, <1>2, <1>5, BuildStep, Zenon
<1>6. CASE setComputedURLAnnotation \/ clearComputedURLAnnotation
  BY <1>6, AnnotationKeeps, Zenon
<1>7. ASSUME NEW k \in Kinds, deleteOwned(k) \/ updateOwned(k) \/ createOwned(k) \/ Cancelled(k)
      PROVE  SameAddress
  <2>1. Called(k)
    BY <1>1, <1>7, DeleteOwnedStep, UpdateOwnedStep, CreateOwnedStep, CancelledStep, Zenon
  <2>2. QED
    BY <1>2, <2>1, Zenon DEF Called
<1>8. CASE Joined
  BY <1>1, <1>2, <1>8, JoinedStep, Zenon
<1>9. CASE UpdateServiceStatus
  <2>1. VersionStays \/ service'.computed = service.computed
    BY <1>1, <1>9, StatusStep, Zenon
  <2>2. QED
    BY <2>1, Zenon DEF SameAddress, VersionStays
<1>10. CASE Release
  <2>1. VersionStays \/ Released
    BY <1>1, <1>10, ReleaseStep, Zenon
  <2>2. QED
    BY <2>1, Zenon DEF SameAddress, VersionStays, Released
<1>11. QED
  BY <1>3, <1>4, <1>5, <1>6, <1>7, <1>8, <1>9, <1>10, Zenon DEF ReconcileService

LEMMA OthersKeepAddress ==
    ASSUME ServiceInv, Inform \/ Others \/ Disturb
    PROVE  SameAddress
<1>1. ServiceTypeOK
  BY Zenon DEF ServiceInv
<1>2. service' = service => SameAddress
  BY Zenon DEF SameAddress
<1>3. CASE DeliverService
  BY <1>1, <1>2, <1>3, DeliverServiceStep, Zenon DEF FeedShrinks
<1>4. ASSUME NEW k \in Kinds, DeliverEndpoints(k)
      PROVE  SameAddress
  BY <1>1, <1>2, <1>4, DeliverEndpointsStep, Zenon DEF Informed
<1>5. CASE Outer
  BY <1>5, Zenon DEF Outer, SameAddress
<1>6. CASE EditService \/ DeleteService
  BY <1>1, <1>5, <1>6, WrittenOutside, Zenon
<1>7. ASSUME NEW n \in Names, DeleteEndpoint(n) \/ CollectGarbage(n) \/ FinishDeletion(n) \/ SetDomainRef(n)
      PROVE  SameAddress
  BY <1>1, <1>5, <1>7, EndpointOutside, Zenon
<1>8. CASE EditPolicy \/ SetCNAMETarget \/ DeliverPolicy \/ DeliverDomain \/ \E a \in Addrs : ReleaseAddress(a)
  BY <1>1, <1>5, <1>8, OtherOutside, Zenon
<1>9. CASE Fault
  BY <1>1, <1>2, <1>9, FaultStep, Zenon
<1>10. CASE RestartController
  BY <1>1, <1>2, <1>10, RestartStep, Zenon DEF Renewed
<1>11. QED
  BY <1>3, <1>4, <1>6, <1>7, <1>8, <1>9, <1>10, Zenon DEF Inform, Others, Disturb

\* A Service that wants a TCP address keeps the one it has while that is reserved,
\* whatever copy a reconcile works on (buildEndpoints, setComputedURLAnnotation,
\* clearComputedURLAnnotation).
THEOREM AddressAlwaysKept == ServiceSpec => AddressKept
<1>1. ServiceInv /\ [ServiceNext]_serviceVars => [KeepsAddress]_serviceVars
  <2>1. SUFFICES ASSUME ServiceInv, ServiceNext
                 PROVE  KeepsAddress
    BY Zenon
  <2>2. SameAddress \/ service.spec.url = TLS \/ service.computed = None \/ service.computed \notin reserved
    BY <2>1, ReconcileKeepsAddress, OthersKeepAddress, Zenon DEF ServiceNext
  <2>3. None \notin Addrs
    BY ServiceAssumption, Zenon
  <2>4. QED
    BY <2>2, <2>3, Zenon DEF KeepsAddress, SameAddress
<1>2. QED
  BY <1>1, ServiceInvariant, PTL DEF ServiceSpec, AddressKept

==============================================================================
