------------------------ MODULE BoundEndpointPoller ------------------------
(***************************************************************************)
(* The poller that keeps BoundEndpoints in step with the endpoints bound   *)
(* to this operator in the ngrok API, and the ports it gives them          *)
(* (internal/controller/bindings: boundendpoint_poller.go and              *)
(* port_allocator.go).                                                     *)
(*                                                                         *)
(* Each poll cancels the goroutines of the poll before it, fetches the     *)
(* bound endpoints, lists the BoundEndpoints from the cache, rebuilds the  *)
(* port bitmap from that list and starts one goroutine each for what is to *)
(* be created, updated and deleted.  Cancelling does not wait: a call that *)
(* is under way may still succeed after the next list.                     *)
(***************************************************************************)
EXTENDS Naturals, FiniteSets

CONSTANTS
    None,         \* no object, no call
    URLs,         \* endpoint URLs
    Names,        \* names of BoundEndpoints
    hashURL,      \* the name each URL gets
    UrlOf,        \* Spec.EndpointURL of the BoundEndpoint of each name
    IDs,          \* IDs of the endpoints aggregated under an URL
    Min, Max,     \* PortRange
    Fresh,        \* the cache is current whenever the poller lists
    Straddles,    \* the cancelled goroutines ("create", "delete") that may outlast the next list
    MaxChanges,   \* bound on changes made by users
    MaxFailures,  \* bound on failed calls
    MaxRestarts   \* bound on restarts

ASSUME PollerAssumption ==
    /\ hashURL \in [URLs -> Names]
    /\ UrlOf \in [Names -> URLs]
    /\ \A u \in URLs : UrlOf[hashURL[u]] = u
    /\ Min \in Nat /\ Max \in Nat /\ Min < Max
    /\ Fresh \in BOOLEAN
    /\ Straddles \subseteq {"create", "delete"}
    /\ MaxChanges \in Nat
    /\ MaxFailures \in Nat
    /\ MaxRestarts \in Nat

\* newPortBitmap has one bit for each of end - start ports: the last is Max - 1.
Ports == Min..(Max - 1)

BoundEndpoints == [port : Ports, deleting : BOOLEAN, ids : SUBSET IDs]

\* What the goroutine of an action works on: names and the ports listed with
\* them, for a delete; URLs, for a create.
Listed == [name : Names, port : Ports]

\* A call of createBinding or deleteBinding: what it has come to, and whether
\* its context was alive when it started.
CreateCalls == [url : URLs, port : Ports, step : {"create", "status"}, live : BOOLEAN]
DeleteCalls == [name : Names, port : Ports, step : {"delete", "unset"}, live : BOOLEAN]

ASSUME NoneAssumption == None \notin BoundEndpoints \cup CreateCalls \cup DeleteCalls

Gens == {"new", "old"}

VARIABLES
    wanted,     \* in the ngrok API: the IDs bound to each URL
    objs,       \* the BoundEndpoints in the API server
    cache,      \* the cache of this process
    bitmap,     \* portAllocator: the set bits and where SetAny goes on
    state,      \* "waiting" for the operator's ID, "polling" or "stopped"
    pc,         \* "idle", or "list" between the fetch and the list
    fetched,    \* desiredBoundEndpoints of the last fetch
    creates,    \* the create goroutines of the last poll and of the one before
    deletes,    \* the delete goroutines
    updates,    \* remainingBindings of the update goroutine
    draining,   \* what IsDraining answers
    changes, failures, restarts

poll == <<bitmap, state, pc, fetched, creates, deletes, updates>>
bounds == <<changes, failures, restarts>>
vars == <<wanted, objs, cache, poll, draining, bounds>>

\* A goroutine of reconcileBoundEndpointAction: how many ticks it has had (2 for
\* more), the bindings of this tick not yet tried, those left for the next tick,
\* and the call under way.
Goroutines(Items, Calls) ==
    [ticks : 0..2, round : SUBSET Items, remaining : SUBSET Items, call : Calls \cup {None}]

Ended == [ticks |-> 0, round |-> {}, remaining |-> {}, call |-> None]

Live(n) == objs[n] # None /\ ~objs[n].deleting

TypeOK ==
    /\ wanted \in [URLs -> SUBSET IDs]
    /\ objs \in [Names -> BoundEndpoints \cup {None}]
    /\ cache \in [Names -> BoundEndpoints \cup {None}]
    /\ bitmap \in [set : SUBSET Ports, curr : Min..Max]
    /\ state \in {"waiting", "polling", "stopped"}
    /\ pc \in {"idle", "list"}
    /\ fetched \in [URLs -> SUBSET IDs]
    /\ creates \in [Gens -> Goroutines(URLs, CreateCalls)]
    /\ deletes \in [Gens -> Goroutines(Listed, DeleteCalls)]
    /\ updates \subseteq URLs
    /\ draining \in BOOLEAN
    /\ changes \in 0..MaxChanges
    /\ failures \in 0..MaxFailures
    /\ restarts \in 0..MaxRestarts

\* An operator that starts: BoundEndpoints an earlier version has named in
\* another way may exist.
Init ==
    /\ wanted \in [URLs -> SUBSET IDs]
    /\ objs \in [Names -> BoundEndpoints \cup {None}]
    /\ \A n \in Names : objs[n] # None =>
          /\ n # hashURL[UrlOf[n]]
          /\ Live(n)
          /\ \A m \in Names \ {n} : objs[m] # None => objs[m].port # objs[n].port
    /\ cache = objs
    /\ bitmap = [set |-> {}, curr |-> Min]
    /\ state = "waiting"
    /\ pc = "idle"
    /\ fetched = [u \in URLs |-> {}]
    /\ creates = [g \in Gens |-> Ended]
    /\ deletes = [g \in Gens |-> Ended]
    /\ updates = {}
    /\ draining = FALSE
    /\ changes = 0
    /\ failures = 0
    /\ restarts = 0

(***************************************************************************)
(* The ngrok API, users, other controllers and the cache.                  *)
(***************************************************************************)
Change ==
    /\ changes < MaxChanges
    /\ changes' = changes + 1
    /\ UNCHANGED <<failures, restarts>>

Fail ==
    /\ failures < MaxFailures
    /\ failures' = failures + 1
    /\ UNCHANGED <<changes, restarts>>

\* Endpoints are bound and unbound, any number of them between two polls.
ApiChanges(w) ==
    /\ Change
    /\ w # wanted
    /\ wanted' = w
    /\ UNCHANGED <<objs, cache, poll, draining>>

\* A delete call: an object with finalizers stays until they are removed.
DeleteObject(n) ==
    \E o \in IF objs[n].deleting
             THEN {objs[n]}
             ELSE {None, [objs[n] EXCEPT !.deleting = TRUE]} :
        objs' = [objs EXCEPT ![n] = o]

UserDeletes(n) ==
    /\ Change
    /\ Live(n)
    /\ DeleteObject(n)
    /\ UNCHANGED <<wanted, cache, poll, draining>>

\* The BoundEndpoint and the forwarder controllers have cleaned up.
Released(n) ==
    /\ objs[n] # None
    /\ objs[n].deleting
    /\ objs' = [objs EXCEPT ![n] = None]
    /\ UNCHANGED <<wanted, cache, poll, draining, bounds>>

CacheCatchesUp ==
    /\ cache # objs
    /\ cache' = objs
    /\ UNCHANGED <<wanted, objs, poll, draining, bounds>>

DrainBegins ==
    /\ ~draining
    /\ draining' = TRUE
    /\ UNCHANGED <<wanted, objs, cache, poll, bounds>>

(***************************************************************************)
(* The polling loop.                                                       *)
(***************************************************************************)

\* getKubernetesOperatorId has found the operator registered.
Start ==
    /\ state = "waiting"
    /\ state' = "polling"
    /\ bitmap' = [set |-> {}, curr |-> Min]
    /\ UNCHANGED <<wanted, objs, cache, pc, fetched, creates, deletes, updates, draining, bounds>>

\* reconcilingCancel: the goroutines run on until they look at their context.
\* Those of the poll before have ended by then: this bounds how many there are.
Cancel ==
    /\ creates["old"] = Ended
    /\ deletes["old"] = Ended
    /\ creates' = [g \in Gens |-> IF g = "old" THEN creates["new"] ELSE Ended]
    /\ deletes' = [g \in Gens |-> IF g = "old" THEN deletes["new"] ELSE Ended]
    /\ updates' = {}

\* Mutant of StopForDrain: the goroutines are not cancelled.
StopForDrainUncancelled ==
    /\ state = "polling"
    /\ pc = "idle"
    /\ draining
    /\ state' = "stopped"
    /\ UNCHANGED <<wanted, objs, cache, bitmap, pc, fetched, creates, deletes, updates, draining, bounds>>

\* cancelIfDraining, and the loop returns.
StopForDrain ==
    /\ state = "polling"
    /\ pc = "idle"
    /\ draining
    /\ Cancel
    /\ state' = "stopped"
    /\ UNCHANGED <<wanted, objs, cache, bitmap, pc, fetched, draining, bounds>>

Tried(w) == w.round = {} /\ w.call = None

\* The goroutines of the last poll have tried everything once.  The next poll
\* comes before that only when calls take longer than the polling interval,
\* which counts as a failure.
HadTheirTurn ==
    /\ \A w \in {creates["new"], deletes["new"]} :
          w.ticks = 2 \/ (Tried(w) /\ (w.remaining # {} => w.ticks = 1))
    /\ updates = {}

\* reconcileBoundEndpointsFromAPI as far as the fetch.
PollFetch ==
    /\ state = "polling"
    /\ pc = "idle"
    /\ ~draining
    /\ Cancel
    /\ \/ /\ IF HadTheirTurn THEN UNCHANGED bounds ELSE Fail
          /\ fetched' = wanted
          /\ pc' = "list"
       \/ /\ Fail
          /\ UNCHANGED <<fetched, pc>>
    /\ UNCHANGED <<wanted, objs, cache, bitmap, state, draining>>

Existing == {n \in Names : cache[n] # None}

\* Set refuses a port that is set already.
PortsClash ==
    \E m, n \in Existing : m # n /\ cache[m].port = cache[n].port

Desired == {u \in URLs : fetched[u] # {}}

\* The BoundEndpoint of each desired URL that the loop over the list meets first.
FirstListed ==
    LET found == {u \in Desired : \E n \in Existing : UrlOf[n] = u}
    IN  {f \in [found -> Existing] : \A u \in found : UrlOf[f[u]] = u}

\* Mutant of ToUpdate: those that are up to date are left out.
ToUpdateOutdated(first) ==
    {u \in DOMAIN first : first[u] = hashURL[u] /\ cache[first[u]].ids # fetched[u]}

\* filterBoundEndpointActions: only the first one of an URL can be updated, and
\* only if it has the expected name.
ToUpdate(first) == {u \in DOMAIN first : first[u] = hashURL[u]}
ToCreate(first) == Desired \ ToUpdate(first)
ToDelete(first) ==
    {[name |-> n, port |-> cache[n].port] :
        n \in {n \in Existing : ~(UrlOf[n] \in ToUpdate(first) /\ n = hashURL[UrlOf[n]])}}

\* Mutant of PollApply: the new bitmap is not filled from the list.
PollApplyEmpty ==
    /\ pc = "list"
    /\ Fresh => cache = objs
    /\ "create" \in Straddles \/ creates["old"] = Ended
    /\ "delete" \in Straddles \/ deletes["old"] = Ended
    /\ pc' = "idle"
    /\ bitmap' = [set |-> {}, curr |-> Min]
    /\ \E first \in FirstListed :
          /\ creates' = [creates EXCEPT !["new"].remaining = ToCreate(first)]
          /\ deletes' = [deletes EXCEPT !["new"].remaining = ToDelete(first)]
          /\ updates' = ToUpdate(first)
    /\ UNCHANGED <<wanted, objs, cache, state, fetched, draining, bounds>>

\* The rest of the poll: list, new bitmap, new goroutines.
PollApply ==
    /\ pc = "list"
    /\ Fresh => cache = objs
    /\ "create" \in Straddles \/ creates["old"] = Ended
    /\ "delete" \in Straddles \/ deletes["old"] = Ended
    /\ pc' = "idle"
    /\ IF PortsClash
       THEN UNCHANGED <<bitmap, creates, deletes, updates>>
       ELSE /\ bitmap' = [set |-> {cache[n].port : n \in Existing}, curr |-> Min]
            /\ \E first \in FirstListed :
                  /\ creates' = [creates EXCEPT !["new"].remaining = ToCreate(first)]
                  /\ deletes' = [deletes EXCEPT !["new"].remaining = ToDelete(first)]
                  /\ updates' = ToUpdate(first)
    /\ UNCHANGED <<wanted, objs, cache, state, fetched, draining, bounds>>

\* The process stops, and with it its goroutines; another takes its place.
Restart ==
    /\ restarts < MaxRestarts
    /\ restarts' = restarts + 1
    /\ state' = "waiting"
    /\ pc' = "idle"
    /\ creates' = [g \in Gens |-> Ended]
    /\ deletes' = [g \in Gens |-> Ended]
    /\ updates' = {}
    /\ cache' = objs
    /\ UNCHANGED <<wanted, objs, bitmap, fetched, draining, changes, failures>>

(***************************************************************************)
(* The goroutines of reconcileBoundEndpointAction.                         *)
(***************************************************************************)
\* A tick: try again what has failed.
NextRound(w) ==
    [ticks |-> IF w.ticks = 0 THEN 1 ELSE 2, round |-> w.remaining, remaining |-> {}, call |-> None]

TickCreates(g) ==
    /\ Tried(creates[g])
    /\ creates[g].remaining # {}
    /\ creates' = [creates EXCEPT ![g] = NextRound(@)]
    /\ UNCHANGED <<wanted, objs, cache, bitmap, state, pc, fetched, deletes, updates, draining, bounds>>

TickDeletes(g) ==
    /\ Tried(deletes[g])
    /\ deletes[g].remaining # {}
    /\ deletes' = [deletes EXCEPT ![g] = NextRound(@)]
    /\ UNCHANGED <<wanted, objs, cache, bitmap, state, pc, fetched, creates, updates, draining, bounds>>

\* A cancelled goroutine sees ctx.Done.
SeesCancel ==
    /\ \/ /\ Tried(creates["old"])
          /\ creates["old"] # Ended
          /\ creates' = [creates EXCEPT !["old"] = Ended]
          /\ UNCHANGED deletes
       \/ /\ Tried(deletes["old"])
          /\ deletes["old"] # Ended
          /\ deletes' = [deletes EXCEPT !["old"] = Ended]
          /\ UNCHANGED creates
    /\ UNCHANGED <<wanted, objs, cache, bitmap, state, pc, fetched, updates, draining, bounds>>

Free == Ports \ bitmap.set

\* SetAny(serial) finds p: the next free port from where the last search ended,
\* or else the first of the range.
SetAny(p) ==
    /\ p \in Free
    /\ \A q \in Free : IF p >= bitmap.curr THEN q >= bitmap.curr => p <= q
                                          ELSE q < bitmap.curr /\ p <= q

Begin(w, x, call) == [w EXCEPT !.round = @ \ {x}, !.call = call]
Done(w) == [w EXCEPT !.call = None]
Retry(w, x) == [w EXCEPT !.round = @ \ {x}, !.remaining = @ \cup {x}, !.call = None]

\* createBinding allocates a port, from whatever bitmap is current.
CreateBegins(g, u) ==
    /\ creates[g].call = None
    /\ u \in creates[g].round
    /\ IF Free = {}
       THEN /\ creates' = [creates EXCEPT ![g] = Retry(@, u)]
            /\ UNCHANGED bitmap
       ELSE \E p \in Min..Max :
               /\ SetAny(p)
               /\ creates' = [creates EXCEPT ![g] = Begin(@, u,
                     [url |-> u, port |-> p, step |-> "create", live |-> g = "new"])]
               /\ bitmap' = [set |-> bitmap.set \cup {p}, curr |-> p + 1]
    /\ UNCHANGED <<wanted, objs, cache, state, pc, fetched, deletes, updates, draining, bounds>>

Creating(g, step) == creates[g].call # None /\ creates[g].call.step = step

\* The create call reaches the API server.  When the name is taken, the port is
\* not given back; a name the cache does not have yet is left for the next poll.
CreateCall(g) ==
    /\ Creating(g, "create")
    /\ creates[g].call.live
    /\ LET n == hashURL[creates[g].call.url]
       IN  IF objs[n] = None
           THEN /\ objs' = [objs EXCEPT ![n] =
                      [port |-> creates[g].call.port, deleting |-> FALSE, ids |-> {}]]
                /\ creates' = [creates EXCEPT ![g].call.step = "status"]
           ELSE /\ creates' = [creates EXCEPT
                      ![g] = IF cache[n] = None THEN Done(@) ELSE [@ EXCEPT !.call.step = "status"]]
                /\ UNCHANGED objs
    /\ UNCHANGED <<wanted, cache, bitmap, state, pc, fetched, deletes, updates, draining, bounds>>

\* A call under a cancelled context fails, unless it was sent before.
CreateFails(g) ==
    /\ Creating(g, "create")
    /\ IF g = "old" THEN UNCHANGED bounds ELSE Fail
    /\ creates' = [creates EXCEPT ![g] = Retry(@, creates[g].call.url)]
    /\ UNCHANGED <<wanted, objs, cache, bitmap, state, pc, fetched, deletes, updates, draining>>

\* updateBindingStatus writes the copy it finds in the cache: one that is not
\* there or not the current version fails.
CreateStatus(g) ==
    /\ Creating(g, "status")
    /\ LET u == creates[g].call.url
           n == hashURL[u]
       IN  IF g = "new" /\ cache[n] # None /\ cache[n] = objs[n]
           THEN /\ objs' = [objs EXCEPT ![n].ids = fetched[u]]
                /\ creates' = [creates EXCEPT ![g] = Done(@)]
           ELSE /\ creates' = [creates EXCEPT ![g] = Retry(@, u)]
                /\ UNCHANGED objs
    /\ UNCHANGED <<wanted, cache, bitmap, state, pc, fetched, deletes, updates, draining, bounds>>

\* Mutant of boundEndpointNeedsUpdate: only the spec is compared.
boundEndpointNeedsUpdateSpec(u) == FALSE

\* Status.Endpoints is not the list of the fetch; one that is not in the cache
\* is left for the next poll.
boundEndpointNeedsUpdate(u) ==
    cache[hashURL[u]] # None /\ cache[hashURL[u]].ids # fetched[u]

\* updateBinding: a copy that is not the current version is refused and tried
\* again.
UpdateBinding(u) ==
    /\ u \in updates
    /\ updates' = updates \ {u}
    /\ IF boundEndpointNeedsUpdate(u)
       THEN /\ cache[hashURL[u]] = objs[hashURL[u]]
            /\ objs' = [objs EXCEPT ![hashURL[u]].ids = fetched[u]]
       ELSE UNCHANGED objs
    /\ UNCHANGED <<wanted, cache, bitmap, state, pc, fetched, creates, deletes, draining, bounds>>

Deleting(g, step) == deletes[g].call # None /\ deletes[g].call.step = step

DeleteBegins(g, d) ==
    /\ deletes[g].call = None
    /\ d \in deletes[g].round
    /\ deletes' = [deletes EXCEPT ![g] = Begin(@, d,
          [name |-> d.name, port |-> d.port, step |-> "delete", live |-> g = "new"])]
    /\ UNCHANGED <<wanted, objs, cache, bitmap, state, pc, fetched, creates, updates, draining, bounds>>

DeleteItem(g) == [name |-> deletes[g].call.name, port |-> deletes[g].call.port]

\* The delete call reaches the API server; "not found" is an error.
DeleteCall(g) ==
    /\ Deleting(g, "delete")
    /\ deletes[g].call.live
    /\ IF objs[deletes[g].call.name] = None
       THEN /\ deletes' = [deletes EXCEPT ![g] = Retry(@, DeleteItem(g))]
            /\ UNCHANGED objs
       ELSE /\ DeleteObject(deletes[g].call.name)
            /\ deletes' = [deletes EXCEPT ![g].call.step = "unset"]
    /\ UNCHANGED <<wanted, cache, bitmap, state, pc, fetched, creates, updates, draining, bounds>>

DeleteFails(g) ==
    /\ Deleting(g, "delete")
    /\ IF g = "old" THEN UNCHANGED bounds ELSE Fail
    /\ deletes' = [deletes EXCEPT ![g] = Retry(@, DeleteItem(g))]
    /\ UNCHANGED <<wanted, objs, cache, bitmap, state, pc, fetched, creates, updates, draining>>

\* Unset gives the port back, although the BoundEndpoint may have to wait for
\* its finalizers.
DeleteUnset(g) ==
    /\ Deleting(g, "unset")
    /\ bitmap' = [bitmap EXCEPT !.set = @ \ {deletes[g].call.port}]
    /\ deletes' = [deletes EXCEPT ![g] = Done(@)]
    /\ UNCHANGED <<wanted, objs, cache, state, pc, fetched, creates, updates, draining, bounds>>

-----------------------------------------------------------------------------

Environment ==
    \/ \E w \in [URLs -> SUBSET IDs] : ApiChanges(w)
    \/ \E n \in Names : UserDeletes(n) \/ Released(n)
    \/ CacheCatchesUp
    \/ DrainBegins

Poller ==
    \/ Start
    \/ PollFetch
    \/ PollApply
    \/ StopForDrain
    \/ Restart

Creator(g) ==
    \/ TickCreates(g)
    \/ \E u \in URLs : CreateBegins(g, u)
    \/ CreateCall(g)
    \/ CreateFails(g)
    \/ CreateStatus(g)

Deleter(g) ==
    \/ TickDeletes(g)
    \/ \E d \in Listed : DeleteBegins(g, d)
    \/ DeleteCall(g)
    \/ DeleteFails(g)
    \/ DeleteUnset(g)

\* The loop has returned and the process lives on.
Stopped ==
    /\ state = "stopped"
    /\ UNCHANGED vars

Next ==
    \/ Environment
    \/ Poller
    \/ \E g \in Gens : Creator(g) \/ Deleter(g)
    \/ \E u \in URLs : UpdateBinding(u)
    \/ SeesCancel
    \/ Stopped

Spec == Init /\ [][Next]_vars

\* The informer delivers, the other controllers clean up, the tickers fire and
\* calls return.  A cancelled goroutine for which a tick is also due may take
\* either, but not the tick for ever.
Fairness ==
    /\ WF_vars(CacheCatchesUp)
    /\ \A n \in Names : WF_vars(Released(n))
    /\ SF_vars(Start \/ PollFetch \/ PollApply \/ StopForDrain)
    /\ SF_vars(SeesCancel)
    /\ \A g \in Gens : WF_vars(Creator(g)) /\ WF_vars(Deleter(g))
    /\ \A u \in URLs : WF_vars(UpdateBinding(u))

FairSpec == Spec /\ Fairness

-----------------------------------------------------------------------------
(***************************************************************************)
(* Properties.                                                             *)
(***************************************************************************)

\* Two BoundEndpoints that are not being deleted never have the same port:
\* forwarders could not tell their connections apart, and every later poll
\* would end at the port clash.  The bitmap is rebuilt, given back to and taken
\* from by three goroutines and the next poll while this must hold.
LivePortsUnique ==
    \A m, n \in Names : Live(m) /\ Live(n) /\ m # n => objs[m].port # objs[n].port

\* No two BoundEndpoints have the same port: "portAllocator manages the unique
\* port allocations" (boundendpoint_poller.go).
PortsUnique ==
    \A m, n \in Names :
        objs[m] # None /\ objs[n] # None /\ m # n => objs[m].port # objs[n].port

\* The poller sets out to delete a BoundEndpoint only if its URL is not desired
\* or its name is not the expected one, whatever else is listed.
DeletesOnlyUndesired ==
    \A d \in deletes["new"].remaining \cup deletes["new"].round :
        UrlOf[d.name] \notin Desired \/ d.name # hashURL[UrlOf[d.name]]

\* Once the loop has returned because of a drain, no goroutine sends another
\* create call: a BoundEndpoint can only come from the call that was under way
\* when the goroutines were cancelled, not from the rest of their lists.
NoCreateAfterStop ==
    [][state = "stopped" =>
          \A n \in Names : objs[n] = None /\ objs'[n] # None =>
              creates["old"].call # None /\ creates'["new"] = Ended]_vars

\* What the cluster looks like when it agrees with the ngrok API.
InStep ==
    \A n \in Names :
        IF n = hashURL[UrlOf[n]] /\ wanted[UrlOf[n]] # {}
        THEN Live(n) /\ objs[n].ids = wanted[UrlOf[n]]
        ELSE objs[n] = None

\* When the API and the users come to rest, the BoundEndpoints are those of the
\* bound endpoints, with the right IDs, unless a drain has stopped the poller:
\* ports lost to calls that failed half-way, clashes with BoundEndpoints that
\* are being deleted and conflicts are overcome by later polls.
Converges == <>[](draining \/ InStep)

=============================================================================
