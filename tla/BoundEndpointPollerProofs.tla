--------------------- MODULE BoundEndpointPollerProofs ---------------------
(***************************************************************************)
(* Proofs about the poller, for any URLs, names, range and bounds: its     *)
(* types, for any timing, and the ports of BoundEndpoints.  With a cache   *)
(* that is current when the poller lists, and goroutines that have         *)
(* returned by then, no two live BoundEndpoints have the same port.        *)
(***************************************************************************)
EXTENDS BoundEndpointPoller, TLAPS

(***************************************************************************)
(* Type correctness.  It says among other things that the ports handed out *)
(* lie in the range.                                                       *)
(***************************************************************************)

\* What the steps of a goroutine make of its record.
LEMMA GoroutineSteps ==
    ASSUME NEW Items, NEW Calls, NEW w \in Goroutines(Items, Calls),
           NEW x \in Items, NEW c \in Calls
    PROVE  /\ NextRound(w) \in Goroutines(Items, Calls)
           /\ Begin(w, x, c) \in Goroutines(Items, Calls)
           /\ Done(w) \in Goroutines(Items, Calls)
           /\ Retry(w, x) \in Goroutines(Items, Calls)
<1>1. NextRound(w) \in Goroutines(Items, Calls)
  BY DEF Goroutines, NextRound
<1>2. Begin(w, x, c) \in Goroutines(Items, Calls)
  BY Zenon DEF Goroutines, Begin
<1>3. Done(w) \in Goroutines(Items, Calls)
  BY Zenon DEF Goroutines, Done
<1>4. Retry(w, x) \in Goroutines(Items, Calls)
  BY Zenon DEF Goroutines, Retry
<1>5. QED
  BY <1>1, <1>2, <1>3, <1>4, Zenon

LEMMA EndedType == \A Items, Calls : Ended \in Goroutines(Items, Calls)
  BY DEF Goroutines, Ended

LEMMA EndedFields == Ended.round = {} /\ Ended.remaining = {} /\ Ended.call = None
  BY Zenon DEF Ended

LEMMA PortTypes ==
    /\ Ports \subseteq Nat
    /\ Ports \subseteq Min..Max
    /\ Min \in Min..Max
    /\ \A p \in Ports : p + 1 \in Min..Max
  BY PollerAssumption DEF Ports

LEMMA InitTypeOK == Init => TypeOK
<1> SUFFICES ASSUME Init
             PROVE  TypeOK
  OBVIOUS
<1> USE PollerAssumption DEF Init
<1>1. bitmap \in [set : SUBSET Ports, curr : Min..Max]
  BY PortTypes, Zenon
<1>2. /\ creates \in [Gens -> Goroutines(URLs, CreateCalls)]
      /\ deletes \in [Gens -> Goroutines(Listed, DeleteCalls)]
  BY EndedType, Zenon
<1>3. fetched \in [URLs -> SUBSET IDs]
  OBVIOUS
<1>4. /\ wanted \in [URLs -> SUBSET IDs]
      /\ objs \in [Names -> BoundEndpoints \cup {None}]
      /\ cache \in [Names -> BoundEndpoints \cup {None}]
  OBVIOUS
<1>5. changes \in 0..MaxChanges /\ failures \in 0..MaxFailures /\ restarts \in 0..MaxRestarts
  OBVIOUS
<1>6. state \in {"waiting", "polling", "stopped"} /\ pc \in {"idle", "list"}
  OBVIOUS
<1>7. updates \subseteq URLs /\ draining \in BOOLEAN
  OBVIOUS
<1> HIDE DEF Init
<1>8. QED
  BY <1>1, <1>2, <1>3, <1>4, <1>5, <1>6, <1>7, Zenon DEF TypeOK

\* A step that deletes a BoundEndpoint leaves BoundEndpoints.
LEMMA DeleteObjectType ==
    ASSUME TypeOK, NEW n \in Names, objs[n] # None, DeleteObject(n)
    PROVE  objs' \in [Names -> BoundEndpoints \cup {None}]
<1>1. objs[n] \in BoundEndpoints /\ [objs[n] EXCEPT !.deleting = TRUE] \in BoundEndpoints
  BY Zenon DEF TypeOK, BoundEndpoints
<1>2. PICK o \in {None, objs[n], [objs[n] EXCEPT !.deleting = TRUE]} :
        objs' = [objs EXCEPT ![n] = o]
  BY Zenon DEF DeleteObject
<1>3. QED
  BY <1>1, <1>2, Zenon DEF TypeOK

LEMMA NextTypeOK == TypeOK /\ [Next]_vars => TypeOK'
<1> SUFFICES ASSUME TypeOK, [Next]_vars
             PROVE  TypeOK'
  OBVIOUS
<1> USE PollerAssumption, NoneAssumption
<1>types. /\ objs \in [Names -> BoundEndpoints \cup {None}]
          /\ cache \in [Names -> BoundEndpoints \cup {None}]
          /\ creates \in [Gens -> Goroutines(URLs, CreateCalls)]
          /\ deletes \in [Gens -> Goroutines(Listed, DeleteCalls)]
          /\ fetched \in [URLs -> SUBSET IDs]
          /\ bitmap \in [set : SUBSET Ports, curr : Min..Max]
  BY Zenon DEF TypeOK
<1>1. CASE \E w \in [URLs -> SUBSET IDs] : ApiChanges(w)
  BY <1>1 DEF TypeOK, ApiChanges, Change, poll
<1>2. ASSUME NEW n \in Names, UserDeletes(n)
      PROVE  TypeOK'
  BY <1>2, DeleteObjectType DEF TypeOK, UserDeletes, Change, Live, poll
<1>3. ASSUME NEW n \in Names, Released(n)
      PROVE  TypeOK'
  BY <1>3, Zenon DEF TypeOK, Released, poll, bounds
<1>4. CASE CacheCatchesUp
  BY <1>4, Zenon DEF TypeOK, CacheCatchesUp, poll, bounds
<1>5. CASE DrainBegins
  BY <1>5, Zenon DEF TypeOK, DrainBegins, poll, bounds
<1>6. CASE Start
  BY <1>6, PortTypes, Zenon DEF TypeOK, Start, bounds
<1>cancel. ASSUME Cancel
           PROVE  /\ creates' \in [Gens -> Goroutines(URLs, CreateCalls)]
                  /\ deletes' \in [Gens -> Goroutines(Listed, DeleteCalls)]
                  /\ updates' \subseteq URLs
  BY <1>cancel, <1>types, EndedType, Zenon DEF Cancel, Gens
<1>7. CASE StopForDrain
  BY <1>7, <1>cancel, Zenon DEF TypeOK, StopForDrain, bounds
<1>8. CASE PollFetch
  <2>1. /\ changes' \in 0..MaxChanges
        /\ failures' \in 0..MaxFailures
        /\ restarts' \in 0..MaxRestarts
    BY <1>8 DEF TypeOK, PollFetch, Fail, bounds
  <2>2. pc' \in {"idle", "list"} /\ fetched' \in [URLs -> SUBSET IDs]
    BY <1>8, Zenon DEF TypeOK, PollFetch
  <2>3. QED
    BY <1>8, <1>cancel, <2>1, <2>2, Zenon DEF TypeOK, PollFetch
<1>9. CASE PollApply
  <2>1. bitmap' \in [set : SUBSET Ports, curr : Min..Max]
    BY <1>9, <1>types, PortTypes DEF PollApply, Existing, BoundEndpoints
  <2>2. /\ creates' \in [Gens -> Goroutines(URLs, CreateCalls)]
        /\ deletes' \in [Gens -> Goroutines(Listed, DeleteCalls)]
        /\ updates' \subseteq URLs
    <3>1. CASE PortsClash
      BY <1>9, <3>1, <1>types, Zenon DEF PollApply, TypeOK
    <3>2. CASE ~PortsClash
      <4>1. PICK first \in FirstListed :
              /\ creates' = [creates EXCEPT !["new"].remaining = ToCreate(first)]
              /\ deletes' = [deletes EXCEPT !["new"].remaining = ToDelete(first)]
              /\ updates' = ToUpdate(first)
        BY <1>9, <3>2, Zenon DEF PollApply
      <4>2. ToUpdate(first) \subseteq URLs /\ ToCreate(first) \subseteq URLs
        BY Zenon DEF ToUpdate, ToCreate, FirstListed, Desired
      <4>3. ToDelete(first) \subseteq Listed
        BY <1>types DEF ToDelete, Existing, Listed, BoundEndpoints
      <4>4. QED
        BY <4>1, <4>2, <4>3, <1>types DEF Goroutines, Gens
    <3>3. QED
      BY <3>1, <3>2, Zenon
  <2>3. QED
    BY <1>9, <2>1, <2>2, Zenon DEF TypeOK, PollApply, bounds
<1>10. CASE Restart
  BY <1>10, EndedType DEF TypeOK, Restart
<1>11. CASE SeesCancel
  BY <1>11, EndedType DEF TypeOK, SeesCancel, bounds
<1>12. ASSUME NEW u \in URLs, UpdateBinding(u)
       PROVE  TypeOK'
  <2>1. objs' \in [Names -> BoundEndpoints \cup {None}]
    BY <1>12, <1>types DEF UpdateBinding, boundEndpointNeedsUpdate, BoundEndpoints
  <2>2. QED
    BY <1>12, <2>1, Zenon DEF TypeOK, UpdateBinding, bounds
<1>13. ASSUME NEW g \in Gens, Creator(g)
       PROVE  TypeOK'
  <2> DEFINE w == creates[g]
  <2>0. w \in Goroutines(URLs, CreateCalls)
    BY <1>types, Zenon
  <2>call. w.call # None => w.call \in CreateCalls
    BY <2>0, Zenon DEF Goroutines
  <2>1. CASE TickCreates(g)
    <3>1. NextRound(w) \in Goroutines(URLs, CreateCalls)
      BY <2>0 DEF Goroutines, NextRound
    <3>2. QED
      BY <2>1, <3>1, <1>types, Zenon DEF TypeOK, TickCreates, bounds
  <2>2. ASSUME NEW u \in URLs, CreateBegins(g, u)
        PROVE  TypeOK'
    <3>1. CASE Free = {}
      <4>1. Retry(w, u) \in Goroutines(URLs, CreateCalls)
        BY <2>0, Zenon DEF Goroutines, Retry
      <4>2. QED
        BY <2>2, <3>1, <4>1, <1>types DEF TypeOK, CreateBegins, bounds
    <3>2. CASE Free # {}
      <4>1. PICK p \in Min..Max :
              /\ SetAny(p)
              /\ creates' = [creates EXCEPT ![g] = Begin(@, u,
                    [url |-> u, port |-> p, step |-> "create", live |-> g = "new"])]
              /\ bitmap' = [set |-> bitmap.set \cup {p}, curr |-> p + 1]
        BY <2>2, <3>2, Zenon DEF CreateBegins
      <4>2. p \in Ports
        BY <4>1, Zenon DEF SetAny, Free
      <4>3. [url |-> u, port |-> p, step |-> "create", live |-> g = "new"] \in CreateCalls
        BY <4>2, Zenon DEF CreateCalls
      <4>4. creates' \in [Gens -> Goroutines(URLs, CreateCalls)]
        BY <4>1, <4>3, <2>0, <1>types, GoroutineSteps, Zenon
      <4>5. bitmap' \in [set : SUBSET Ports, curr : Min..Max]
        BY <4>1, <4>2, <1>types, PortTypes, Zenon
      <4>6. QED
        BY <2>2, <4>4, <4>5, Zenon DEF TypeOK, CreateBegins, bounds
    <3>3. QED
      BY <3>1, <3>2, Zenon
  <2>3. CASE CreateCall(g)
    <3>0. w.call \in CreateCalls
      BY <2>3, <2>call, Zenon DEF CreateCall, Creating
    <3>1. objs' \in [Names -> BoundEndpoints \cup {None}]
      <4>1. [port |-> w.call.port, deleting |-> FALSE, ids |-> {}] \in BoundEndpoints
        BY <3>0, Zenon DEF CreateCalls, BoundEndpoints
      <4>2. QED
        BY <2>3, <4>1, <1>types DEF CreateCall
    <3>2. creates' \in [Gens -> Goroutines(URLs, CreateCalls)]
      <4>1. [w EXCEPT !.call.step = "status"] \in Goroutines(URLs, CreateCalls)
        BY <2>0, <3>0, Zenon DEF Goroutines, CreateCalls
      <4>2. Done(w) \in Goroutines(URLs, CreateCalls)
        BY <2>0, Zenon DEF Goroutines, Done
      <4>3. creates' = [creates EXCEPT ![g] = [w EXCEPT !.call.step = "status"]]
              \/ creates' = [creates EXCEPT ![g] = Done(w)]
        BY <2>3, <1>types, Zenon DEF CreateCall
      <4>4. QED
        BY <4>1, <4>2, <4>3, <1>types, Zenon
    <3>3. QED
      BY <2>3, <3>1, <3>2, Zenon DEF TypeOK, CreateCall, bounds
  <2>4. CASE CreateFails(g)
    <3>1. w.call.url \in URLs
      BY <2>4, <2>call, Zenon DEF CreateFails, Creating, CreateCalls
    <3>2. Retry(w, w.call.url) \in Goroutines(URLs, CreateCalls)
      BY <2>0, <3>1, Zenon DEF Goroutines, Retry
    <3>3. failures' \in 0..MaxFailures /\ UNCHANGED <<changes, restarts>>
      BY <2>4 DEF TypeOK, CreateFails, Fail, bounds
    <3>4. QED
      BY <2>4, <3>2, <3>3, <1>types, Zenon DEF TypeOK, CreateFails
  <2>5. CASE CreateStatus(g)
    <3>1. w.call.url \in URLs
      BY <2>5, <2>call, Zenon DEF CreateStatus, Creating, CreateCalls
    <3>2. Retry(w, w.call.url) \in Goroutines(URLs, CreateCalls) /\ Done(w) \in Goroutines(URLs, CreateCalls)
      BY <2>0, <3>1, Zenon DEF Goroutines, Retry, Done
    <3>3. creates' \in [Gens -> Goroutines(URLs, CreateCalls)]
      BY SMTT(20), <2>5, <3>2, <1>types DEF CreateStatus
    <3>4. objs' \in [Names -> BoundEndpoints \cup {None}]
      <4> DEFINE u == w.call.url
                 n == hashURL[u]
      <4>1. CASE UNCHANGED objs
        BY <4>1, <1>types, Zenon
      <4>2. CASE g = "new" /\ cache[n] # None /\ cache[n] = objs[n]
        <5>1. n \in Names /\ fetched[u] \in SUBSET IDs
          BY <3>1, <1>types, Zenon
        <5>2. objs[n] \in BoundEndpoints
          BY <4>2, <5>1, <1>types
        <5>3. [objs[n] EXCEPT !.ids = fetched[u]] \in BoundEndpoints
          BY <5>1, <5>2, Zenon DEF BoundEndpoints
        <5>4. objs' = [objs EXCEPT ![n] = [objs[n] EXCEPT !.ids = fetched[u]]]
          BY <2>5, <4>2, Zenon DEF CreateStatus
        <5>5. QED
          BY <5>1, <5>3, <5>4, <1>types, Zenon
      <4>3. QED
        BY <2>5, <4>1, <4>2, Zenon DEF CreateStatus
    <3>5. QED
      BY <2>5, <3>3, <3>4, Zenon DEF TypeOK, CreateStatus, bounds
  <2>6. QED
    BY <1>13, <2>1, <2>2, <2>3, <2>4, <2>5, Zenon DEF Creator
<1>14. ASSUME NEW g \in Gens, Deleter(g)
       PROVE  TypeOK'
  <2> DEFINE w == deletes[g]
  <2>0. w \in Goroutines(Listed, DeleteCalls)
    BY <1>types, Zenon
  <2>call. w.call # None => w.call \in DeleteCalls /\ DeleteItem(g) \in Listed
    BY <2>0, Zenon DEF Goroutines, DeleteCalls, DeleteItem, Listed
  <2>1. CASE TickDeletes(g)
    <3>1. NextRound(w) \in Goroutines(Listed, DeleteCalls)
      BY <2>0 DEF Goroutines, NextRound
    <3>2. QED
      BY <2>1, <3>1, <1>types, Zenon DEF TypeOK, TickDeletes, bounds
  <2>2. ASSUME NEW d \in Listed, DeleteBegins(g, d)
        PROVE  TypeOK'
    <3>1. [name |-> d.name, port |-> d.port, step |-> "delete", live |-> g = "new"] \in DeleteCalls
      BY Zenon DEF Listed, DeleteCalls
    <3>2. QED
      BY <2>2, <3>1, <2>0, <1>types, GoroutineSteps, Zenon DEF TypeOK, DeleteBegins, bounds
  <2>retry. w.call # None => Retry(w, DeleteItem(g)) \in Goroutines(Listed, DeleteCalls)
    BY <2>0, <2>call, Zenon DEF Goroutines, Retry
  <2>3. CASE DeleteCall(g)
    <3>0. w.call \in DeleteCalls /\ w.call.name \in Names
      BY <2>3, <2>call, Zenon DEF DeleteCall, Deleting, DeleteCalls
    <3>1. objs' \in [Names -> BoundEndpoints \cup {None}]
      BY <2>3, <3>0, <1>types, DeleteObjectType, Zenon DEF DeleteCall
    <3>2. [w EXCEPT !.call.step = "unset"] \in Goroutines(Listed, DeleteCalls)
      BY <2>0, <3>0, Zenon DEF Goroutines, DeleteCalls
    <3>3. deletes' = [deletes EXCEPT ![g] = [w EXCEPT !.call.step = "unset"]]
            \/ deletes' = [deletes EXCEPT ![g] = Retry(w, DeleteItem(g))]
      BY <2>3, <1>types, Zenon DEF DeleteCall
    <3>4. deletes' \in [Gens -> Goroutines(Listed, DeleteCalls)]
      BY <2>3, <3>2, <3>3, <2>retry, <1>types DEF DeleteCall, Deleting
    <3>5. QED
      BY <2>3, <3>1, <3>4, Zenon DEF TypeOK, DeleteCall, bounds
  <2>4. CASE DeleteFails(g)
    <3>1. failures' \in 0..MaxFailures /\ UNCHANGED <<changes, restarts>>
      BY <2>4 DEF TypeOK, DeleteFails, Fail, bounds
    <3>2. deletes' \in [Gens -> Goroutines(Listed, DeleteCalls)]
      BY <2>4, <2>retry, <1>types, Zenon DEF DeleteFails, Deleting
    <3>3. QED
      BY <2>4, <3>1, <3>2, Zenon DEF TypeOK, DeleteFails
  <2>5. CASE DeleteUnset(g)
    <3>1. Done(w) \in Goroutines(Listed, DeleteCalls)
      BY <2>0, Zenon DEF Goroutines, Done
    <3>2. QED
      BY <2>5, <3>1, <1>types, Zenon DEF TypeOK, DeleteUnset, bounds
  <2>6. QED
    BY <1>14, <2>1, <2>2, <2>3, <2>4, <2>5, Zenon DEF Deleter
<1>15. CASE UNCHANGED vars
  BY <1>15, Zenon DEF TypeOK, vars, poll, bounds
<1>16. QED
  BY <1>1, <1>2, <1>3, <1>4, <1>5, <1>6, <1>7, <1>8, <1>9, <1>10, <1>11, <1>12, <1>13, <1>14, <1>15, Zenon
     DEF Next, Environment, Poller, Stopped

\* Every variable of the poller keeps its type.
THEOREM TypeCorrect == Spec => []TypeOK
<1>1. QED
  BY InitTypeOK, NextTypeOK, PTL DEF Spec

(***************************************************************************)
(* Ports.                                                                  *)
(***************************************************************************)

\* The timing the result needs: see Fresh and Straddles.
Timely == Fresh /\ Straddles = {}

Active(g) == creates[g] # Ended \/ deletes[g] # Ended

\* What the delete goroutine of a generation still has to do, its call included.
Pending(g) ==
    deletes[g].remaining \cup deletes[g].round
        \cup (IF deletes[g].call = None THEN {} ELSE {DeleteItem(g)})

\* While cancelled goroutines are at it, there are no new ones; a poller that
\* waits for the operator's ID has none at all.
OneGeneration ==
    /\ Active("old") => ~Active("new")
    /\ pc = "list" => state = "polling" /\ ~Active("new")
    /\ state = "waiting" => ~Active("old") /\ ~Active("new")

\* The bitmap knows the ports of all live BoundEndpoints when it is used.
Allocated ==
    \A g \in Gens : Active(g) =>
        \A n \in Names : Live(n) => objs[n].port \in bitmap.set

\* The port of a create call is set, and nobody else has it.
CallsApart ==
    \A g \in Gens : Creating(g, "create") =>
        /\ creates[g].call.port \in bitmap.set
        /\ \A n \in Names : Live(n) => objs[n].port # creates[g].call.port
        /\ \A d \in Pending(g) : d.port # creates[g].call.port

\* The lists of a delete goroutine do not overlap.
ListsApart ==
    \A g \in Gens :
        /\ deletes[g].round \cap deletes[g].remaining = {}
        /\ deletes[g].call # None => DeleteItem(g) \notin deletes[g].round \cup deletes[g].remaining

\* A port that is going to be given back is set until then, and belongs to no
\* live BoundEndpoint but the one to be deleted.
PendingApart ==
    \A g \in Gens :
        /\ \A d \in Pending(g) :
              /\ d.port \in bitmap.set
              /\ \A n \in Names \ {d.name} : Live(n) => objs[n].port # d.port
        /\ \A d, e \in Pending(g) : d.port = e.port => d = e
        /\ Deleting(g, "unset") =>
              \A n \in Names : Live(n) => objs[n].port # deletes[g].call.port

IInv ==
    /\ TypeOK
    /\ LivePortsUnique
    /\ OneGeneration
    /\ Allocated
    /\ CallsApart
    /\ ListsApart
    /\ PendingApart

-----------------------------------------------------------------------------
(***************************************************************************)
(* The inductive invariant.                                                *)
(***************************************************************************)

\* A step after which no BoundEndpoint is live that was not, with that port.
Fewer == \A n \in Names : Live(n)' => Live(n) /\ objs'[n].port = objs[n].port

\* A goroutine that has ended has nothing under way and nothing left.
LEMMA Inactive ==
    ASSUME NEW g \in Gens, ~Active(g)
    PROVE  /\ \A step : ~Creating(g, step) /\ ~Deleting(g, step)
           /\ Pending(g) = {}
  BY DEF Active, Ended, Creating, Deleting, Pending

LEMMA CallPending ==
    ASSUME NEW g \in Gens, deletes[g].call # None
    PROVE  DeleteItem(g) \in Pending(g)
  BY Zenon DEF Pending

\* What the invariant says of a delete that is still to be done.
LEMMA PendingFacts ==
    ASSUME IInv, NEW g \in Gens, NEW d \in Pending(g)
    PROVE  /\ d.port \in bitmap.set
           /\ \A n \in Names \ {d.name} : Live(n) => objs[n].port # d.port
           /\ \A e \in Pending(g) : d.port = e.port => d = e
  BY Zenon DEF IInv, PendingApart

\* A step after which no goroutine runs has nothing to answer for.
LEMMA AllEnded ==
    ASSUME TypeOK', LivePortsUnique', OneGeneration',
           \A g \in Gens : creates'[g] = Ended /\ deletes'[g] = Ended
    PROVE  IInv'
<1>1. \A g \in Gens : Pending(g)' = {} /\ ~Active(g)'
  BY DEF Active, Pending, Ended
<1>2. \A g \in Gens : ~Creating(g, "create")' /\ ~Deleting(g, "unset")'
  BY DEF Creating, Deleting, Ended
<1>3. Allocated' /\ CallsApart'
  BY <1>1, <1>2, Zenon DEF Allocated, CallsApart
<1>4. ListsApart'
  BY DEF ListsApart, Ended
<1>5. PendingApart'
  BY <1>1, <1>2, Zenon DEF PendingApart
<1>6. QED
  BY <1>3, <1>4, <1>5, Zenon DEF IInv

\* A step that neither allocates nor gives back, makes nothing live and adds
\* nothing to what the goroutines have to do.
LEMMA NothingNew ==
    ASSUME IInv, TypeOK', OneGeneration', ListsApart', Fewer, UNCHANGED bitmap,
           \A g \in Gens : Active(g)' => Active(g),
           \A g \in Gens : Creating(g, "create")' =>
               Creating(g, "create") /\ creates'[g].call.port = creates[g].call.port,
           \A g \in Gens : Pending(g)' \subseteq Pending(g),
           \A g \in Gens : Deleting(g, "unset")' =>
               \A n \in Names : Live(n)' => objs'[n].port # deletes'[g].call.port
    PROVE  IInv'
<1>1. LivePortsUnique'
  BY ZenonT(30) DEF IInv, LivePortsUnique, Fewer
<1>2. Allocated'
  BY Zenon DEF IInv, Allocated, Fewer
<1>3. CallsApart'
  BY DEF IInv, CallsApart, Fewer
<1>4. PendingApart'
  <2>1. ASSUME NEW g \in Gens, NEW d \in Pending(g)'
        PROVE  /\ d.port \in bitmap'.set
               /\ \A n \in Names \ {d.name} : Live(n)' => objs'[n].port # d.port
    <3>1. d \in Pending(g)
      OBVIOUS
    <3>2. QED
      BY SMTT(20), <3>1 DEF IInv, PendingApart, Fewer
  <2>2. ASSUME NEW g \in Gens, NEW d \in Pending(g)', NEW e \in Pending(g)', d.port = e.port
        PROVE  d = e
    <3>1. d \in Pending(g) /\ e \in Pending(g)
      OBVIOUS
    <3>2. QED
      BY <3>1, <2>2, Zenon DEF IInv, PendingApart
  <2>3. QED
    BY <2>1, <2>2, Zenon DEF PendingApart
<1>5. QED
  BY <1>1, <1>2, <1>3, <1>4, Zenon DEF IInv

LEMMA InitIInv == Init => IInv
<1> SUFFICES ASSUME Init
             PROVE  IInv
  OBVIOUS
<1>1. TypeOK
  BY InitTypeOK, Zenon
<1>2. \A g \in Gens : creates[g] = Ended /\ deletes[g] = Ended
  BY Zenon DEF Init
<1>3. \A g \in Gens : Pending(g) = {} /\ ~Active(g) /\ ~Creating(g, "create") /\ ~Deleting(g, "unset")
  BY <1>2 DEF Active, Pending, Creating, Deleting, Ended
<1>4. LivePortsUnique
  BY Zenon DEF Init, LivePortsUnique, Live
<1>5. OneGeneration
  BY <1>3, Zenon DEF OneGeneration, Init, Gens
<1>6. ListsApart
  BY <1>2 DEF ListsApart, Ended
<1>7. Allocated /\ CallsApart /\ PendingApart
  BY <1>3, Zenon DEF Allocated, CallsApart, PendingApart
<1>8. QED
  BY <1>1, <1>4, <1>5, <1>6, <1>7, Zenon DEF IInv

\* Steps that touch no goroutine and no port.
LEMMA OthersIInv ==
    ASSUME IInv, TypeOK', Fewer, UNCHANGED <<bitmap, state, pc, creates, deletes>>
    PROVE  IInv'
<1>1. \A g \in Gens :
        /\ Active(g)' <=> Active(g)
        /\ Creating(g, "create")' <=> Creating(g, "create")
        /\ Deleting(g, "unset")' <=> Deleting(g, "unset")
        /\ Pending(g)' = Pending(g)
  BY Zenon DEF Active, Creating, Deleting, Pending, DeleteItem
<1>2. OneGeneration' /\ ListsApart'
  BY Zenon DEF IInv, OneGeneration, ListsApart, Active, DeleteItem
<1>3. \A g \in Gens : Deleting(g, "unset")' =>
          \A n \in Names : Live(n)' => objs'[n].port # deletes'[g].call.port
  BY <1>1, Zenon DEF IInv, PendingApart, Fewer
<1>4. QED
  BY <1>1, <1>2, <1>3, NothingNew, Zenon

\* Deleting makes nothing live.
LEMMA DeleteObjectFewer ==
    ASSUME TypeOK, NEW n \in Names, objs[n] # None, DeleteObject(n)
    PROVE  Fewer /\ ~Live(n)'
<1> DEFINE marked == [objs[n] EXCEPT !.deleting = TRUE]
<1>1. marked.deleting
  BY Zenon DEF TypeOK, BoundEndpoints
<1> HIDE DEF marked
<1>2. ASSUME NEW o, objs' = [objs EXCEPT ![n] = o], o = None \/ o.deleting
      PROVE  Fewer /\ ~Live(n)'
  <2>1. objs'[n] = o /\ \A m \in Names \ {n} : objs'[m] = objs[m]
    BY <1>2, Zenon DEF TypeOK
  <2>2. QED
    BY <1>2, <2>1, Zenon DEF Fewer, Live
<1>3. CASE objs[n].deleting
  <2>1. objs' = [objs EXCEPT ![n] = objs[n]]
    BY <1>3, Zenon DEF DeleteObject
  <2>2. QED
    BY <1>2, <1>3, <2>1, Zenon
<1>4. CASE ~objs[n].deleting
  <2>1. PICK o \in {None, marked} : objs' = [objs EXCEPT ![n] = o]
    BY <1>4, Zenon DEF DeleteObject, marked
  <2>2. QED
    BY <1>1, <1>2, <2>1, Zenon
<1>5. QED
  BY <1>3, <1>4, Zenon

LEMMA EnvironmentIInv ==
    ASSUME IInv, TypeOK', Environment \/ Stopped \/ UNCHANGED vars
    PROVE  IInv'
<1> USE DEF poll
<1>1. CASE UNCHANGED <<objs, poll>>
  BY <1>1, OthersIInv, Zenon DEF Fewer, Live
<1>2. ASSUME NEW n \in Names, UserDeletes(n)
      PROVE  IInv'
  <2>1. Fewer
    BY <1>2, DeleteObjectFewer, Zenon DEF IInv, UserDeletes, Live
  <2>2. QED
    BY <1>2, <2>1, OthersIInv, Zenon DEF UserDeletes
<1>3. ASSUME NEW n \in Names, Released(n)
      PROVE  IInv'
  <2>1. Fewer
    BY <1>3, Zenon DEF IInv, TypeOK, Released, Fewer, Live
  <2>2. QED
    BY <1>3, <2>1, OthersIInv, Zenon DEF Released
<1>4. QED
  BY <1>1, <1>2, <1>3, Zenon DEF Environment, ApiChanges, CacheCatchesUp, DrainBegins, Stopped, vars

LEMMA UpdateIInv ==
    ASSUME IInv, TypeOK', NEW u \in URLs, UpdateBinding(u)
    PROVE  IInv'
<1>1. Fewer
  <2>1. CASE UNCHANGED objs
    BY <2>1, Zenon DEF Fewer, Live
  <2>2. CASE boundEndpointNeedsUpdate(u)
    <3> DEFINE n == hashURL[u]
    <3>1. n \in Names /\ objs[n] \in BoundEndpoints /\ objs' = [objs EXCEPT ![n].ids = fetched[u]]
      BY <2>2, PollerAssumption, Zenon DEF UpdateBinding, boundEndpointNeedsUpdate, IInv, TypeOK
    <3>2. objs'[n].port = objs[n].port /\ objs'[n].deleting = objs[n].deleting
      BY <3>1, Zenon DEF BoundEndpoints, IInv, TypeOK
    <3>3. objs[n] # None /\ \A m \in Names \ {n} : objs'[m] = objs[m]
      BY <3>1, NoneAssumption, Zenon DEF IInv, TypeOK
    <3> HIDE DEF n
    <3>4. QED
      BY <3>2, <3>3, Zenon DEF Fewer, Live
  <2>3. QED
    BY <2>1, <2>2, Zenon DEF UpdateBinding
<1>2. QED
  BY <1>1, OthersIInv, Zenon DEF UpdateBinding

\* Cancelling hands the work of the last poll over to the cancelled goroutines.
LEMMA CancelIInv ==
    ASSUME IInv, TypeOK', Cancel, UNCHANGED <<objs, bitmap>>,
           state = "polling", state' \in {"polling", "stopped"},
           pc' = "list" => state' = "polling"
    PROVE  IInv'
<1>0. /\ creates'["old"] = creates["new"] /\ creates'["new"] = Ended
      /\ deletes'["old"] = deletes["new"] /\ deletes'["new"] = Ended
  BY Zenon DEF Cancel, Gens
<1>1. /\ ~Active("new")'
      /\ Pending("new")' = {}
      /\ ~Creating("new", "create")'
      /\ ~Deleting("new", "unset")'
  BY <1>0 DEF Active, Creating, Deleting, Pending, Ended
<1>2. /\ Active("old")' <=> Active("new")
      /\ Creating("old", "create")' <=> Creating("new", "create")
      /\ Deleting("old", "unset")' <=> Deleting("new", "unset")
      /\ Pending("old")' = Pending("new")
      /\ DeleteItem("old")' = DeleteItem("new")
  BY <1>0, Zenon DEF Active, Creating, Deleting, Pending, DeleteItem
<1>3. \A n \in Names : Live(n)' <=> Live(n)
  BY Zenon DEF Live
<1>4. "new" \in Gens /\ \A g \in Gens : g = "new" \/ g = "old"
  BY Zenon DEF Gens
<1>5. LivePortsUnique'
  BY <1>3, Zenon DEF IInv, LivePortsUnique
<1>6. OneGeneration'
  BY <1>1, Zenon DEF OneGeneration
<1>7. Allocated'
  BY <1>1, <1>2, <1>3, <1>4, Zenon DEF IInv, Allocated
<1>8. CallsApart'
  BY <1>0, <1>1, <1>2, <1>3, <1>4, Zenon DEF IInv, CallsApart
<1>9. ListsApart'
  BY <1>0, <1>2, <1>4 DEF IInv, ListsApart, Ended
<1>10. PendingApart'
  BY <1>0, <1>1, <1>2, <1>3, <1>4 DEF IInv, PendingApart
<1>11. QED
  BY <1>5, <1>6, <1>7, <1>8, <1>9, <1>10, Zenon DEF IInv

\* A list that is current, taken when no goroutine is at it, gives a bitmap that
\* knows every port, and deletes that are apart.
LEMMA PollApplyIInv ==
    ASSUME IInv, TypeOK', Timely, PollApply
    PROVE  IInv'
<1>0. /\ cache = objs
      /\ creates = [g \in Gens |-> Ended]
      /\ deletes = [g \in Gens |-> Ended]
      /\ state = "polling"
      /\ UNCHANGED <<objs, cache, state>>
      /\ pc' = "idle"
  <2>1. ~Active("new") /\ state = "polling"
    BY Zenon DEF PollApply, IInv, OneGeneration
  <2>2. creates["old"] = Ended /\ deletes["old"] = Ended
    BY Zenon DEF PollApply, Timely
  <2>3. QED
    BY <2>1, <2>2, Zenon DEF PollApply, Timely, Active, IInv, TypeOK, Gens
<1>1. LivePortsUnique'
  BY <1>0, Zenon DEF IInv, LivePortsUnique, Live
<1>2. CASE PortsClash
  <2>1. \A g \in Gens : creates'[g] = Ended /\ deletes'[g] = Ended
    BY <1>0, <1>2, Zenon DEF PollApply
  <2>2. OneGeneration'
    BY <1>0, <2>1, Zenon DEF OneGeneration, Active, Gens
  <2>3. QED
    BY <1>1, <2>1, <2>2, AllEnded, Zenon
<1>3. CASE ~PortsClash
  <2>1. PICK first \in FirstListed :
          /\ creates' = [creates EXCEPT !["new"].remaining = ToCreate(first)]
          /\ deletes' = [deletes EXCEPT !["new"].remaining = ToDelete(first)]
    BY <1>3, Zenon DEF PollApply
  <2>2. bitmap'.set = {cache[n].port : n \in Existing}
    BY <1>3 DEF PollApply
  <2>3. /\ creates'["old"] = Ended /\ deletes'["old"] = Ended
        /\ creates'["new"].call = None /\ deletes'["new"].call = None
        /\ deletes'["new"].round = {} /\ deletes'["new"].remaining = ToDelete(first)
    BY <1>0, <2>1, Zenon DEF Gens, Ended
  <2>4. /\ \A g \in Gens : ~Creating(g, "create")' /\ ~Deleting(g, "unset")'
        /\ Pending("old")' = {}
        /\ Pending("new")' = ToDelete(first)
        /\ ~Active("old")'
    BY SMTT(20), <2>3 DEF Gens, Creating, Deleting, Pending, Active, Ended
  <2>5. \A n \in Names : Live(n)' => n \in Existing /\ objs'[n].port = cache[n].port
    BY <1>0, Zenon DEF Live, Existing
  <2>6. \A d \in ToDelete(first) : d.name \in Existing /\ d = [name |-> d.name, port |-> cache[d.name].port]
    BY DEF ToDelete
  <2>7. \A m, n \in Existing : m # n => cache[m].port # cache[n].port
    BY <1>3, Zenon DEF PortsClash
  <2>8. OneGeneration'
    BY <1>0, <2>4, Zenon DEF OneGeneration
  <2>9. Allocated'
    BY <2>2, <2>5, Zenon DEF Allocated
  <2>10. CallsApart' /\ ListsApart'
    <3>1. CallsApart'
      BY <2>4, Zenon DEF CallsApart
    <3>2. \A g \in Gens : deletes'[g].call = None /\ deletes'[g].round = {}
      BY <2>3 DEF Gens, Ended
    <3>3. QED
      BY <3>1, <3>2, Zenon DEF ListsApart
  <2>11. PendingApart'
    <3>1. ASSUME NEW d \in ToDelete(first)
          PROVE  /\ d.port \in bitmap'.set
                 /\ \A n \in Names \ {d.name} : Live(n)' => objs'[n].port # d.port
                 /\ \A e \in ToDelete(first) : d.port = e.port => d = e
      <4>1. d.name \in Existing /\ d.port = cache[d.name].port
        BY <2>6
      <4>2. d.port \in bitmap'.set
        BY <2>2, <4>1, Zenon
      <4>3. \A n \in Names \ {d.name} : Live(n)' => objs'[n].port # d.port
        BY <2>5, <2>7, <4>1, Zenon
      <4>4. ASSUME NEW e \in ToDelete(first), d.port = e.port
            PROVE  d = e
        <5>1. e.name \in Existing /\ e.port = cache[e.name].port
          BY <2>6
        <5>2. d.name = e.name
          BY <2>7, <4>1, <4>4, <5>1, ZenonT(30)
        <5>3. QED
          BY <2>6, <5>2, Zenon
      <4>5. QED
        BY <4>2, <4>3, <4>4, Zenon
    <3>2. ASSUME NEW g \in Gens, NEW d \in Pending(g)'
          PROVE  /\ d.port \in bitmap'.set
                 /\ \A n \in Names \ {d.name} : Live(n)' => objs'[n].port # d.port
                 /\ \A e \in Pending(g)' : d.port = e.port => d = e
      <4>1. Pending(g)' = ToDelete(first)
        BY <2>4, Zenon DEF Gens
      <4>2. QED
        BY <3>1, <4>1
    <3>3. QED
      BY <2>4, <3>2, Zenon DEF PendingApart
  <2>12. QED
    BY <1>1, <2>8, <2>9, <2>10, <2>11, Zenon DEF IInv
<1>4. QED
  BY <1>2, <1>3, Zenon

LEMMA PollerIInv ==
    ASSUME IInv, TypeOK', Timely, Poller
    PROVE  IInv'
<1>1. CASE Start
  <2>1. \A g \in Gens : creates'[g] = Ended /\ deletes'[g] = Ended
    BY <1>1, Zenon DEF Start, IInv, OneGeneration, Active, Gens
  <2>2. LivePortsUnique'
    BY <1>1, Zenon DEF Start, IInv, LivePortsUnique, Live
  <2>3. OneGeneration'
    BY <1>1, <2>1, Zenon DEF Start, IInv, OneGeneration, Active, Gens
  <2>4. QED
    BY <2>1, <2>2, <2>3, AllEnded, Zenon
<1>2. CASE Restart
  <2>1. \A g \in Gens : creates'[g] = Ended /\ deletes'[g] = Ended
    BY <1>2, Zenon DEF Restart
  <2>2. LivePortsUnique'
    BY <1>2, Zenon DEF Restart, IInv, LivePortsUnique, Live
  <2>3. OneGeneration'
    BY <1>2, <2>1, Zenon DEF Restart, OneGeneration, Active, Gens
  <2>4. QED
    BY <2>1, <2>2, <2>3, AllEnded
<1>3. CASE PollFetch
  BY <1>3, CancelIInv, Zenon DEF PollFetch
<1>4. CASE StopForDrain
  BY <1>4, CancelIInv, Zenon DEF StopForDrain
<1>5. CASE PollApply
  BY <1>5, PollApplyIInv, Zenon
<1>6. QED
  BY <1>1, <1>2, <1>3, <1>4, <1>5, Zenon DEF Poller

\* Only one generation works at a time.
LEMMA OtherIdle ==
    ASSUME IInv, NEW g \in Gens, Active(g), NEW h \in Gens \ {g}
    PROVE  ~Active(h)
  BY DEF IInv, OneGeneration, Gens

LEMMA SameGeneration ==
    ASSUME IInv, UNCHANGED <<state, pc>>, \A g \in Gens : Active(g)' => Active(g)
    PROVE  OneGeneration'
  BY Zenon DEF IInv, OneGeneration, Gens

\* A create goroutine that takes a step is at it, and changes nothing of another.
LEMMA CreatorFrame ==
    ASSUME IInv, NEW g \in Gens, Creator(g)
    PROVE  /\ Active(g)
           /\ UNCHANGED <<state, pc, deletes>>
           /\ \A h \in Gens \ {g} : creates'[h] = creates[h]
<1>1. Active(g)
  <2>1. creates[g].remaining # {} \/ creates[g].round # {} \/ creates[g].call # None
    BY Zenon DEF Creator, TickCreates, CreateBegins, CreateCall, CreateFails, CreateStatus, Creating
  <2>2. QED
    BY <2>1 DEF Active, Ended
<1>2. UNCHANGED <<state, pc, deletes>>
  BY Zenon DEF Creator, TickCreates, CreateBegins, CreateCall, CreateFails, CreateStatus
<1>3. \E w : creates' = [creates EXCEPT ![g] = w]
  <2>1. CASE TickCreates(g)
    BY <2>1, Zenon DEF TickCreates
  <2>2. CASE \E u \in URLs : CreateBegins(g, u)
    BY <2>2, Zenon DEF CreateBegins
  <2>3. CASE CreateCall(g)
    BY <2>3, Zenon DEF CreateCall
  <2>4. CASE CreateFails(g)
    BY <2>4, Zenon DEF CreateFails
  <2>5. CASE CreateStatus(g)
    BY <2>5, Zenon DEF CreateStatus
  <2>6. QED
    BY <2>1, <2>2, <2>3, <2>4, <2>5, Zenon DEF Creator
<1>4. \A h \in Gens \ {g} : creates'[h] = creates[h]
  BY <1>3, Zenon DEF IInv, TypeOK
<1>5. QED
  BY <1>1, <1>2, <1>4, Zenon

\* What all steps of a create goroutine have in common.
LEMMA CreatorCommon ==
    ASSUME IInv, NEW g \in Gens, Creator(g)
    PROVE  /\ OneGeneration'
           /\ ListsApart'
           /\ \A h \in Gens : Active(h)' => h = g
           /\ \A h \in Gens : Pending(h)' = Pending(h) /\ (Deleting(h, "unset")' <=> Deleting(h, "unset"))
           /\ \A h \in Gens : Creating(h, "create")' => h = g
           /\ \A h \in Gens : Pending(h) # {} => h = g
           /\ \A h \in Gens : Deleting(h, "unset") => h = g
<1>1. /\ Active(g)
      /\ UNCHANGED <<state, pc, deletes>>
      /\ \A h \in Gens \ {g} : creates'[h] = creates[h]
  BY CreatorFrame, Zenon
<1>2. \A h \in Gens \ {g} : ~Active(h) /\ ~Active(h)'
  BY <1>1, OtherIdle, Zenon DEF Active
<1>3. \A h \in Gens \ {g} : ~Creating(h, "create")'
  BY SMTT(20), <1>2 DEF Active, Creating, Ended
<1>4. \A h \in Gens \ {g} : Pending(h) = {} /\ ~Deleting(h, "unset")
  BY <1>2, Inactive, Zenon
<1>5. OneGeneration'
  BY <1>1, <1>2, SameGeneration, Zenon
<1>6. ListsApart'
  BY <1>1, Zenon DEF IInv, ListsApart, DeleteItem
<1>7. \A h \in Gens : Pending(h)' = Pending(h) /\ (Deleting(h, "unset")' <=> Deleting(h, "unset"))
  BY <1>1, Zenon DEF Pending, DeleteItem, Deleting
<1>8. QED
  BY <1>2, <1>3, <1>4, <1>5, <1>6, <1>7, Zenon

\* A step of a create goroutine that allocates nothing and creates nothing.
LEMMA CreatorQuiet ==
    ASSUME IInv, TypeOK', NEW g \in Gens, Creator(g), Fewer, UNCHANGED bitmap,
           ~Creating(g, "create")'
    PROVE  IInv'
<1>1. Active(g) /\ UNCHANGED deletes
  BY CreatorFrame, Zenon
<1>2. /\ OneGeneration'
      /\ ListsApart'
      /\ \A h \in Gens : Active(h)' => Active(h)
      /\ \A h \in Gens : Pending(h)' \subseteq Pending(h)
      /\ \A h \in Gens : ~Creating(h, "create")'
      /\ \A h \in Gens : Deleting(h, "unset")' <=> Deleting(h, "unset")
  BY <1>1, CreatorCommon, Zenon
<1>3. \A h \in Gens : Deleting(h, "unset")' =>
          \A n \in Names : Live(n)' => objs'[n].port # deletes'[h].call.port
  BY <1>1, <1>2, Zenon DEF IInv, PendingApart, Fewer
<1>4. QED
  BY <1>2, <1>3, NothingNew, Zenon

\* A port that is allocated is nobody's: the bitmap knows all that matter.
LEMMA AllocateIInv ==
    ASSUME IInv, TypeOK', NEW g \in Gens, NEW u \in URLs, CreateBegins(g, u), Free # {}
    PROVE  IInv'
<1>0. Creator(g)
  BY Zenon DEF Creator
<1>1. /\ OneGeneration'
      /\ ListsApart'
      /\ \A h \in Gens : Active(h)' => h = g
      /\ \A h \in Gens : Pending(h)' = Pending(h) /\ (Deleting(h, "unset")' <=> Deleting(h, "unset"))
      /\ \A h \in Gens : Creating(h, "create")' => h = g
      /\ Active(g)
      /\ UNCHANGED deletes
  BY <1>0, CreatorCommon, CreatorFrame, Zenon
<1>2. PICK p : /\ p \in Free
               /\ creates' = [creates EXCEPT ![g] = Begin(@, u,
                     [url |-> u, port |-> p, step |-> "create", live |-> g = "new"])]
               /\ bitmap' = [set |-> bitmap.set \cup {p}, curr |-> p + 1]
  BY Zenon DEF CreateBegins, SetAny
<1>3. p \notin bitmap.set /\ bitmap'.set = bitmap.set \cup {p}
  BY <1>2, Zenon DEF Free
<1>4. creates'[g].call.port = p
  BY <1>2 DEF IInv, TypeOK, Goroutines, Begin
<1>5. UNCHANGED objs /\ \A n \in Names : Live(n)' <=> Live(n)
  BY DEF CreateBegins, Live
<1>6. LivePortsUnique'
  BY <1>5, Zenon DEF IInv, LivePortsUnique
<1>7. Allocated'
  BY <1>1, <1>3, <1>5, Zenon DEF IInv, Allocated
<1>8. CallsApart'
  <2>1. \A n \in Names : Live(n)' => objs'[n].port # p
    BY <1>1, <1>3, <1>5, Zenon DEF IInv, Allocated
  <2>2. \A d \in Pending(g)' : d.port # p
    BY <1>1, <1>3 DEF IInv, PendingApart
  <2>3. QED
    BY <1>1, <1>3, <1>4, <2>1, <2>2, Zenon DEF CallsApart
<1>9. PendingApart'
  <2>1. ASSUME NEW h \in Gens, NEW d \in Pending(h)'
        PROVE  /\ d.port \in bitmap'.set
               /\ \A n \in Names \ {d.name} : Live(n)' => objs'[n].port # d.port
               /\ \A e \in Pending(h)' : d.port = e.port => d = e
    <3>1. Pending(h)' = Pending(h)
      BY <1>1, Zenon
    <3>2. /\ d.port \in bitmap.set
          /\ \A n \in Names \ {d.name} : Live(n) => objs[n].port # d.port
          /\ \A e \in Pending(h) : d.port = e.port => d = e
      BY <3>1, PendingFacts
    <3>3. QED
      BY <1>3, <1>5, <3>1, <3>2, Zenon
  <2>2. ASSUME NEW h \in Gens, Deleting(h, "unset")'
        PROVE  \A n \in Names : Live(n)' => objs'[n].port # deletes'[h].call.port
    <3>1. Deleting(h, "unset") /\ deletes' = deletes
      BY <1>1, <2>2, Zenon
    <3>2. QED
      BY <1>5, <3>1, Zenon DEF IInv, PendingApart
  <2>3. QED
    BY <2>1, <2>2, Zenon DEF PendingApart
<1>10. QED
  BY <1>1, <1>6, <1>7, <1>8, <1>9, Zenon DEF IInv

\* What becomes live has the port that was allocated for it.
LEMMA CreatedIInv ==
    ASSUME IInv, TypeOK', NEW g \in Gens, CreateCall(g),
           objs[hashURL[creates[g].call.url]] = None
    PROVE  IInv'
<1> DEFINE n == hashURL[creates[g].call.url]
<1> DEFINE p == creates[g].call.port
<1>0. Creator(g)
  BY Zenon DEF Creator
<1>1. /\ OneGeneration'
      /\ ListsApart'
      /\ \A h \in Gens : Active(h)' => h = g
      /\ \A h \in Gens : Pending(h)' = Pending(h) /\ (Deleting(h, "unset")' <=> Deleting(h, "unset"))
      /\ \A h \in Gens : Creating(h, "create")' => h = g
      /\ \A h \in Gens : Pending(h) # {} => h = g
      /\ \A h \in Gens : Deleting(h, "unset") => h = g
      /\ Active(g)
      /\ UNCHANGED <<deletes, bitmap>>
  BY <1>0, CreatorCommon, CreatorFrame, Zenon DEF CreateCall
<1>2. /\ Creating(g, "create")
      /\ creates[g].call \in CreateCalls
      /\ n \in Names
  BY PollerAssumption DEF CreateCall, Creating, IInv, TypeOK, Goroutines, CreateCalls
<1>3. /\ p \in bitmap.set
      /\ \A m \in Names : Live(m) => objs[m].port # p
      /\ \A d \in Pending(g) : d.port # p
  BY <1>2, Zenon DEF IInv, CallsApart
<1>4. objs'[n].port = p /\ \A m \in Names \ {n} : objs'[m] = objs[m]
  BY <1>2 DEF CreateCall, IInv, TypeOK
<1>5. ~Creating(g, "create")'
  BY <1>2 DEF CreateCall, Creating, CreateCalls, IInv, TypeOK, Goroutines
<1> HIDE DEF n, p
<1>6. \A m \in Names \ {n} : (Live(m)' <=> Live(m)) /\ objs'[m] = objs[m]
  BY <1>4, Zenon DEF Live
<1>7. LivePortsUnique'
  BY <1>2, <1>3, <1>4, <1>6, ZenonT(30) DEF IInv, LivePortsUnique
<1>8. Allocated'
  BY <1>1, <1>2, <1>3, <1>4, <1>6, Zenon DEF IInv, Allocated
<1>9. CallsApart'
  BY <1>1, <1>5, Zenon DEF CallsApart
<1>10. PendingApart'
  <2>1. ASSUME NEW h \in Gens, NEW d \in Pending(h)'
        PROVE  /\ d.port \in bitmap'.set
               /\ \A m \in Names \ {d.name} : Live(m)' => objs'[m].port # d.port
               /\ \A e \in Pending(h)' : d.port = e.port => d = e
    <3>1. Pending(h)' = Pending(h) /\ bitmap' = bitmap
      BY <1>1, Zenon
    <3>2. /\ d.port \in bitmap.set
          /\ \A m \in Names \ {d.name} : Live(m) => objs[m].port # d.port
          /\ \A e \in Pending(h) : d.port = e.port => d = e
      BY <3>1, PendingFacts
    <3>3. d.port # p
      BY <1>1, <1>3, <3>1, Zenon
    <3>4. QED
      BY <3>1, <3>2, <3>3, <1>4, <1>6, Zenon
  <2>2. ASSUME NEW h \in Gens, Deleting(h, "unset")'
        PROVE  \A m \in Names : Live(m)' => objs'[m].port # deletes'[h].call.port
    <3>1. Deleting(h, "unset") /\ deletes' = deletes /\ h = g
      BY <1>1, <2>2, Zenon
    <3>2. DeleteItem(g) \in Pending(g)
      BY <3>1, CallPending, Zenon DEF Deleting
    <3>3. deletes[h].call.port # p
      BY <1>3, <3>1, <3>2, Zenon DEF DeleteItem
    <3>4. \A m \in Names : Live(m) => objs[m].port # deletes[h].call.port
      BY <3>1, Zenon DEF IInv, PendingApart
    <3>5. QED
      BY <3>1, <3>3, <3>4, <1>4, <1>6, Zenon
  <2>3. QED
    BY <2>1, <2>2, Zenon DEF PendingApart
<1>11. QED
  BY <1>1, <1>7, <1>8, <1>9, <1>10 DEF IInv

LEMMA CreatorIInv ==
    ASSUME IInv, TypeOK', NEW g \in Gens, Creator(g)
    PROVE  IInv'
<1> DEFINE w == creates[g]
<1>types. /\ creates \in [Gens -> Goroutines(URLs, CreateCalls)]
          /\ objs \in [Names -> BoundEndpoints \cup {None}]
  BY Zenon DEF IInv, TypeOK
<1>0. /\ NextRound(w).call = None
      /\ \A x : Retry(w, x).call = None
      /\ Done(w).call = None
  BY <1>types, Zenon DEF NextRound, Retry, Done, Goroutines
<1>same. UNCHANGED objs => Fewer
  BY Zenon DEF Fewer, Live
<1>1. CASE TickCreates(g)
  <2>1. ~Creating(g, "create")'
    BY <1>1, <1>0, <1>types, Zenon DEF TickCreates, Creating
  <2>2. QED
    BY <1>1, <2>1, <1>same, CreatorQuiet, Zenon DEF TickCreates
<1>2. ASSUME NEW u \in URLs, CreateBegins(g, u)
      PROVE  IInv'
  <2>1. CASE Free = {}
    <3>1. ~Creating(g, "create")' /\ UNCHANGED <<objs, bitmap>>
      BY <1>2, <2>1, <1>0, <1>types, Zenon DEF CreateBegins, Creating
    <3>2. QED
      BY <3>1, <1>same, CreatorQuiet, Zenon
  <2>2. QED
    BY <1>2, <2>1, AllocateIInv, Zenon
<1>3. CASE CreateCall(g)
  <2>1. CASE objs[hashURL[w.call.url]] # None
    <3>1. w.call \in CreateCalls /\ [w EXCEPT !.call.step = "status"].call.step = "status"
      BY <1>3, <1>types, ZenonT(30) DEF CreateCall, Creating, Goroutines, CreateCalls
    <3>2. \/ creates' = [creates EXCEPT ![g] = Done(w)]
          \/ creates' = [creates EXCEPT ![g] = [w EXCEPT !.call.step = "status"]]
      BY <1>3, <2>1, <1>types, Zenon DEF CreateCall
    <3>3. ~Creating(g, "create")'
      BY <3>1, <3>2, <1>0, <1>types, Zenon DEF Creating
    <3>4. QED
      BY <1>3, <2>1, <3>3, <1>same, CreatorQuiet, Zenon DEF CreateCall
  <2>2. QED
    BY <1>3, <2>1, CreatedIInv, Zenon
<1>4. CASE CreateFails(g)
  <2>1. ~Creating(g, "create")'
    BY <1>4, <1>0, <1>types, Zenon DEF CreateFails, Creating
  <2>2. QED
    BY <1>4, <2>1, <1>same, CreatorQuiet, Zenon DEF CreateFails
<1>5. CASE CreateStatus(g)
  <2> DEFINE n == hashURL[w.call.url]
  <2>1. ~Creating(g, "create")'
    BY <1>5, <1>0, <1>types DEF CreateStatus, Creating
  <2>2. CASE ~(g = "new" /\ cache[n] # None /\ cache[n] = objs[n])
    BY <1>5, <2>1, <2>2, <1>same, CreatorQuiet, Zenon DEF CreateStatus
  <2>3. CASE g = "new" /\ cache[n] # None /\ cache[n] = objs[n]
    <3>1. n \in Names
      BY SMTT(20), <1>5, <1>types, PollerAssumption DEF CreateStatus, Creating, Goroutines, CreateCalls
    <3>2. objs[n] \in BoundEndpoints /\ objs' = [objs EXCEPT ![n].ids = fetched[w.call.url]]
      BY <1>5, <2>3, <3>1, <1>types, Zenon DEF CreateStatus
    <3>3. objs'[n].port = objs[n].port /\ objs'[n].deleting = objs[n].deleting
      BY <3>1, <3>2, <1>types, Zenon DEF BoundEndpoints
    <3>4. objs[n] # None /\ \A m \in Names \ {n} : objs'[m] = objs[m]
      BY <2>3, <3>1, <3>2, <1>types, Zenon
    <3> HIDE DEF n
    <3>5. Fewer
      BY <3>3, <3>4, Zenon DEF Fewer, Live
    <3>6. QED
      BY <1>5, <2>1, <3>5, CreatorQuiet, ZenonT(30) DEF CreateStatus
  <2>4. QED
    BY <2>2, <2>3, Zenon
<1>6. QED
  BY <1>1, <1>2, <1>3, <1>4, <1>5, Zenon DEF Creator

\* A delete goroutine that takes a step is at it, and changes nothing of another.
LEMMA DeleterFrame ==
    ASSUME IInv, NEW g \in Gens, Deleter(g)
    PROVE  /\ Active(g)
           /\ UNCHANGED <<state, pc, creates>>
           /\ \A h \in Gens \ {g} : deletes'[h] = deletes[h]
<1>1. Active(g)
  <2>1. deletes[g].remaining # {} \/ deletes[g].round # {} \/ deletes[g].call # None
    BY Zenon DEF Deleter, TickDeletes, DeleteBegins, DeleteCall, DeleteFails, DeleteUnset, Deleting
  <2>2. QED
    BY SMTT(20), <2>1 DEF Active, Ended
<1>2. UNCHANGED <<state, pc, creates>>
  BY Zenon DEF Deleter, TickDeletes, DeleteBegins, DeleteCall, DeleteFails, DeleteUnset
<1>3. \E w : deletes' = [deletes EXCEPT ![g] = w]
  <2>1. CASE TickDeletes(g)
    BY <2>1, Zenon DEF TickDeletes
  <2>2. CASE \E d \in Listed : DeleteBegins(g, d)
    BY <2>2, Zenon DEF DeleteBegins
  <2>3. CASE DeleteCall(g)
    BY <2>3, Zenon DEF DeleteCall
  <2>4. CASE DeleteFails(g)
    BY <2>4, Zenon DEF DeleteFails
  <2>5. CASE DeleteUnset(g)
    BY <2>5, Zenon DEF DeleteUnset
  <2>6. QED
    BY <2>1, <2>2, <2>3, <2>4, <2>5, Zenon DEF Deleter
<1>4. \A h \in Gens \ {g} : deletes'[h] = deletes[h]
  BY <1>3, Zenon DEF IInv, TypeOK
<1>5. QED
  BY <1>1, <1>2, <1>4

\* What all steps of a delete goroutine have in common.
LEMMA DeleterCommon ==
    ASSUME IInv, NEW g \in Gens, Deleter(g)
    PROVE  /\ OneGeneration'
           /\ \A h \in Gens : Active(h)' => h = g
           /\ \A h \in Gens \ {g} : Pending(h)' = {} /\ ~Deleting(h, "unset")' /\ deletes'[h] = Ended
           /\ \A h \in Gens \ {g} : ~Creating(h, "create")
           /\ \A h \in Gens : Creating(h, "create")' <=> Creating(h, "create")
<1>1. /\ Active(g)
      /\ UNCHANGED <<state, pc, creates>>
      /\ \A h \in Gens \ {g} : deletes'[h] = deletes[h]
  BY DeleterFrame
<1>2. \A h \in Gens \ {g} : ~Active(h) /\ ~Active(h)'
  BY <1>1, OtherIdle, Zenon DEF Active
<1>3. \A h \in Gens : Creating(h, "create")' <=> Creating(h, "create")
  BY <1>1, Zenon DEF Creating
<1>4. ASSUME NEW h \in Gens \ {g}
      PROVE  Pending(h)' = {} /\ ~Deleting(h, "unset")' /\ deletes'[h] = Ended
  <2>1. deletes'[h] = Ended
    BY <1>2, Zenon DEF Active
  <2>2. QED
    BY <2>1, EndedFields, Zenon DEF Pending, Deleting
<1>5. \A h \in Gens \ {g} : ~Creating(h, "create")
  BY <1>2, Inactive, Zenon
<1>6. OneGeneration'
  BY <1>1, <1>2, SameGeneration
<1>7. QED
  BY <1>2, <1>3, <1>4, <1>5, <1>6, Zenon

\* A step of a delete goroutine that gives nothing back.
LEMMA DeleterQuiet ==
    ASSUME IInv, TypeOK', NEW g \in Gens, Deleter(g), Fewer, UNCHANGED bitmap,
           Pending(g)' \subseteq Pending(g),
           deletes'[g].round \cap deletes'[g].remaining = {},
           deletes'[g].call # None => DeleteItem(g)' \notin deletes'[g].round \cup deletes'[g].remaining,
           Deleting(g, "unset")' =>
               \A n \in Names : Live(n)' => objs'[n].port # deletes'[g].call.port
    PROVE  IInv'
<1>1. /\ OneGeneration'
      /\ \A h \in Gens : Active(h)' => Active(h)
      /\ \A h \in Gens : Pending(h)' \subseteq Pending(h)
      /\ \A h \in Gens \ {g} : ~Deleting(h, "unset")' /\ deletes'[h] = Ended
      /\ \A h \in Gens : Creating(h, "create")' =>
             Creating(h, "create") /\ creates'[h].call.port = creates[h].call.port
  BY DeleterFrame, DeleterCommon, Zenon
<1>2. \A h \in Gens \ {g} : /\ deletes'[h].round \cap deletes'[h].remaining = {}
                             /\ deletes'[h].call = None
  BY <1>1, EndedFields, Zenon
<1>3. ListsApart'
  BY <1>2, Zenon DEF ListsApart
<1>4. QED
  BY <1>1, <1>3, NothingNew, Zenon

\* A port that is given back is nobody's any more.
LEMMA UnsetIInv ==
    ASSUME IInv, TypeOK', NEW g \in Gens, DeleteUnset(g)
    PROVE  IInv'
<1> DEFINE p == deletes[g].call.port
<1>0. Deleter(g)
  BY Zenon DEF Deleter
<1>1. /\ OneGeneration'
      /\ \A h \in Gens : Active(h)' => h = g
      /\ \A h \in Gens \ {g} : Pending(h)' = {} /\ ~Deleting(h, "unset")' /\ deletes'[h] = Ended
      /\ \A h \in Gens \ {g} : ~Creating(h, "create")
      /\ \A h \in Gens : Creating(h, "create")' <=> Creating(h, "create")
      /\ Active(g)
      /\ UNCHANGED creates
  BY <1>0, DeleterFrame, DeleterCommon, Zenon
<1>2. /\ Deleting(g, "unset")
      /\ deletes[g].call # None
      /\ UNCHANGED objs
      /\ bitmap'.set = bitmap.set \ {p}
  BY Zenon DEF DeleteUnset, Deleting, IInv, TypeOK
<1>3. \A n \in Names : Live(n)' <=> Live(n)
  BY <1>2, Zenon DEF Live
<1>4. /\ deletes'[g].call = None
      /\ deletes'[g].round = deletes[g].round
      /\ deletes'[g].remaining = deletes[g].remaining
  BY DEF DeleteUnset, Done, IInv, TypeOK, Goroutines
<1>5. /\ DeleteItem(g) \in Pending(g)
      /\ DeleteItem(g).port = p
      /\ DeleteItem(g) \notin deletes[g].round \cup deletes[g].remaining
  BY <1>2, CallPending, Zenon DEF DeleteItem, IInv, ListsApart
<1>6. Pending(g)' = deletes[g].round \cup deletes[g].remaining
  BY <1>4, Zenon DEF Pending
<1>7. Pending(g)' \subseteq Pending(g) /\ \A d \in Pending(g)' : d.port # p
  <2>1. Pending(g)' \subseteq Pending(g)
    BY <1>6, Zenon DEF Pending
  <2>2. QED
    BY <1>5, <1>6, <2>1, Zenon DEF IInv, PendingApart
<1> HIDE DEF p
<1>8. LivePortsUnique'
  BY <1>2, <1>3, Zenon DEF IInv, LivePortsUnique
<1>9. Allocated'
  BY <1>1, <1>2, <1>3, Zenon DEF IInv, Allocated, PendingApart, p
<1>10. CallsApart'
  <2>1. ASSUME Creating(g, "create")
        PROVE  creates[g].call.port \in bitmap'.set
    BY <1>2, <1>5, <2>1, Zenon DEF IInv, CallsApart
  <2>2. QED
    BY <1>1, <1>2, <1>3, <1>7, <2>1, Zenon DEF IInv, CallsApart
<1>11. ListsApart'
  <2>1. deletes'[g].round \cap deletes'[g].remaining = {} /\ deletes'[g].call = None
    BY <1>4, Zenon DEF IInv, ListsApart
  <2>2. \A h \in Gens \ {g} : /\ deletes'[h].round \cap deletes'[h].remaining = {}
                               /\ deletes'[h].call = None
    BY <1>1, EndedFields, Zenon
  <2>3. QED
    BY <2>1, <2>2 DEF ListsApart
<1>12. PendingApart'
  <2>1. ~Deleting(g, "unset")'
    BY <1>4, Zenon DEF Deleting
  <2>2. ASSUME NEW d \in Pending(g)'
        PROVE  /\ d.port \in bitmap'.set
               /\ \A n \in Names \ {d.name} : Live(n)' => objs'[n].port # d.port
               /\ \A e \in Pending(g)' : d.port = e.port => d = e
    BY <1>2, <1>3, <1>7, Zenon DEF IInv, PendingApart
  <2>3. QED
    BY <1>1, <2>1, <2>2, Zenon DEF PendingApart
<1>13. QED
  BY <1>1, <1>8, <1>9, <1>10, <1>11, <1>12, Zenon DEF IInv

LEMMA DeleterIInv ==
    ASSUME IInv, TypeOK', NEW g \in Gens, Deleter(g)
    PROVE  IInv'
<1> DEFINE w == deletes[g]
<1>types. /\ deletes \in [Gens -> Goroutines(Listed, DeleteCalls)]
          /\ w \in Goroutines(Listed, DeleteCalls)
          /\ objs \in [Names -> BoundEndpoints \cup {None}]
  BY Zenon DEF IInv, TypeOK
<1>apart. /\ w.round \cap w.remaining = {}
          /\ w.call # None => DeleteItem(g) \notin w.round \cup w.remaining
  BY Zenon DEF IInv, ListsApart
<1>same. UNCHANGED objs => Fewer
  BY DEF Fewer, Live
<1>retry. ASSUME deletes' = [deletes EXCEPT ![g] = Retry(w, DeleteItem(g))], w.call # None,
                 UNCHANGED <<objs, bitmap>>
          PROVE  IInv'
  <2>1. /\ deletes'[g].call = None
        /\ deletes'[g].round = w.round \ {DeleteItem(g)}
        /\ deletes'[g].remaining = w.remaining \cup {DeleteItem(g)}
    BY <1>retry, <1>types, Zenon DEF Retry, Goroutines
  <2>2. Pending(g)' \subseteq Pending(g) /\ ~Deleting(g, "unset")'
    BY <1>retry, <2>1, Zenon DEF Pending, Deleting
  <2>3. deletes'[g].round \cap deletes'[g].remaining = {}
    BY <1>apart, <2>1, Zenon
  <2>4. QED
    BY <1>retry, <1>same, <2>1, <2>2, <2>3, DeleterQuiet, Zenon
<1>1. CASE TickDeletes(g)
  <2>1. /\ deletes'[g].call = None
        /\ deletes'[g].round = w.remaining
        /\ deletes'[g].remaining = {}
    BY <1>1, <1>types, Zenon DEF TickDeletes, NextRound
  <2>2. Pending(g)' \subseteq Pending(g) /\ ~Deleting(g, "unset")'
    BY <2>1, Zenon DEF Pending, Deleting
  <2>3. QED
    BY <1>1, <1>same, <2>1, <2>2, DeleterQuiet, Zenon DEF TickDeletes
<1>2. ASSUME NEW d \in Listed, DeleteBegins(g, d)
      PROVE  IInv'
  <2>1. /\ deletes'[g].call = [name |-> d.name, port |-> d.port, step |-> "delete", live |-> g = "new"]
        /\ deletes'[g].round = w.round \ {d}
        /\ deletes'[g].remaining = w.remaining
        /\ d \in w.round
    BY <1>2, <1>types, Zenon DEF DeleteBegins, Begin, Goroutines
  <2>2. DeleteItem(g)' = d
    <3>0. deletes'[g].call.name = d.name /\ deletes'[g].call.port = d.port
      BY <2>1
    <3>1. DeleteItem(g)' = [name |-> d.name, port |-> d.port]
      BY <3>0, Zenon DEF DeleteItem
    <3>2. QED
      BY <3>1, Zenon DEF Listed
  <2>3. Pending(g)' \subseteq Pending(g)
    BY <2>1, <2>2, Zenon DEF Pending
  <2>4. d \notin deletes'[g].round \cup deletes'[g].remaining
    BY <1>apart, <2>1, Zenon
  <2>5. deletes'[g].round \cap deletes'[g].remaining = {}
    BY <1>apart, <2>1, Zenon
  <2>6. ~Deleting(g, "unset")'
    BY <2>1 DEF Deleting
  <2>7. QED
    BY <1>2, <1>same, <2>2, <2>3, <2>4, <2>5, <2>6, DeleterQuiet, Zenon DEF DeleteBegins
<1>3. CASE DeleteCall(g)
  <2>1. CASE objs[w.call.name] = None
    BY <1>3, <2>1, <1>retry, Zenon DEF DeleteCall, Deleting
  <2>2. CASE objs[w.call.name] # None
    <3>1. w.call # None /\ w.call \in DeleteCalls /\ w.call.name \in Names
      BY <1>3, <1>types, Zenon DEF DeleteCall, Deleting, Goroutines, DeleteCalls
    <3>2. deletes' = [deletes EXCEPT ![g].call.step = "unset"] /\ DeleteObject(w.call.name)
      BY <1>3, <2>2, Zenon DEF DeleteCall
    <3>0. PICK gone \in Names : gone = w.call.name
      BY <3>1, Zenon
    <3>3. Fewer /\ ~Live(gone)'
      BY <2>2, <3>0, <3>2, DeleteObjectFewer, Zenon DEF IInv
    <3>4. /\ deletes'[g].call.name = w.call.name
          /\ deletes'[g].call.port = w.call.port
          /\ deletes'[g].round = w.round
          /\ deletes'[g].remaining = w.remaining
      BY <3>1, <3>2, <1>types, Zenon DEF Goroutines, DeleteCalls
    <3>5. DeleteItem(g)' = DeleteItem(g) /\ DeleteItem(g) \in Pending(g)
      BY <3>1, <3>4, CallPending, Zenon DEF DeleteItem
    <3>6. Pending(g)' \subseteq Pending(g)
      BY <3>1, <3>4, <3>5, Zenon DEF Pending
    <3>7. ASSUME NEW n \in Names, Live(n)'
          PROVE  objs'[n].port # deletes'[g].call.port
      <4>1. n # w.call.name /\ Live(n) /\ objs'[n].port = objs[n].port
        BY <3>0, <3>3, <3>7, Zenon DEF Fewer
      <4>2. DeleteItem(g).name = w.call.name /\ DeleteItem(g).port = w.call.port
        BY Zenon DEF DeleteItem
      <4>3. objs[n].port # w.call.port
        <5>1. \A d \in Pending(g) : \A m \in Names \ {d.name} : Live(m) => objs[m].port # d.port
          BY Zenon DEF IInv, PendingApart
        <5>2. QED
          BY <3>5, <4>1, <4>2, <5>1, Zenon
      <4>4. QED
        BY <3>4, <4>1, <4>3, Zenon
    <3>8. UNCHANGED bitmap
      BY <1>3, Zenon DEF DeleteCall
    <3>9. QED
      BY <1>apart, <3>1, <3>3, <3>4, <3>5, <3>6, <3>7, <3>8, DeleterQuiet
  <2>3. QED
    BY <2>1, <2>2, Zenon
<1>4. CASE DeleteFails(g)
  BY <1>4, <1>retry, Zenon DEF DeleteFails, Deleting
<1>5. CASE DeleteUnset(g)
  BY <1>5, UnsetIInv, Zenon
<1>6. QED
  BY <1>1, <1>2, <1>3, <1>4, <1>5, Zenon DEF Deleter

\* A cancelled goroutine that ends.
LEMMA SeesCancelIInv ==
    ASSUME IInv, TypeOK', SeesCancel
    PROVE  IInv'
<1>0. "old" \in Gens /\ UNCHANGED <<objs, bitmap, state, pc>> /\ Fewer
  BY Zenon DEF SeesCancel, Gens, Fewer, Live
<1>1. \A g \in Gens : /\ creates'[g] \in {creates[g], Ended}
                       /\ deletes'[g] \in {deletes[g], Ended}
  BY Zenon DEF SeesCancel, IInv, TypeOK
<1>2. \A g \in Gens : Active(g)' => Active(g)
  BY <1>1, Zenon DEF Active
<1>3. \A g \in Gens : Creating(g, "create")' =>
        Creating(g, "create") /\ creates'[g].call.port = creates[g].call.port
  BY <1>1, EndedFields, Zenon DEF Creating
<1>4. ASSUME NEW g \in Gens
      PROVE  /\ Pending(g)' \subseteq Pending(g)
             /\ deletes'[g].round \cap deletes'[g].remaining = {}
             /\ deletes'[g].call # None => DeleteItem(g)' \notin deletes'[g].round \cup deletes'[g].remaining
  <2>1. CASE deletes'[g] = Ended
    BY <2>1 DEF Pending, Ended
  <2>2. CASE deletes'[g] = deletes[g]
    <3>1. DeleteItem(g)' = DeleteItem(g)
      BY <2>2, Zenon DEF DeleteItem
    <3>2. QED
      BY <2>2, <3>1, Zenon DEF Pending, IInv, ListsApart
  <2>3. QED
    BY <1>1, <2>1, <2>2, Zenon
<1>5. ListsApart'
  BY <1>4, Zenon DEF ListsApart
<1>6. ASSUME NEW g \in Gens, Deleting(g, "unset")'
      PROVE  \A n \in Names : Live(n)' => objs'[n].port # deletes'[g].call.port
  <2>1. deletes'[g] = deletes[g]
    BY SMTT(20), <1>1, <1>6 DEF Deleting, Ended
  <2>2. Deleting(g, "unset")
    BY <1>6, <2>1, Zenon DEF Deleting
  <2>3. QED
    BY <1>0, <2>1, <2>2, Zenon DEF IInv, PendingApart, Fewer
<1>7. OneGeneration'
  BY <1>0, <1>2, SameGeneration, Zenon
<1>8. QED
  BY <1>0, <1>2, <1>3, <1>4, <1>5, <1>6, <1>7, NothingNew, Zenon

LEMMA NextIInv == Timely /\ IInv /\ [Next]_vars => IInv'
<1> SUFFICES ASSUME Timely, IInv, [Next]_vars
             PROVE  IInv'
  OBVIOUS
<1>0. TypeOK'
  BY NextTypeOK, Zenon DEF IInv
<1>1. CASE Environment \/ Stopped \/ UNCHANGED vars
  BY <1>0, <1>1, EnvironmentIInv, Zenon
<1>2. CASE Poller
  BY <1>0, <1>2, PollerIInv, Zenon
<1>3. ASSUME NEW g \in Gens, Creator(g)
      PROVE  IInv'
  BY <1>0, <1>3, CreatorIInv, Zenon
<1>4. ASSUME NEW g \in Gens, Deleter(g)
      PROVE  IInv'
  BY <1>0, <1>4, DeleterIInv, Zenon
<1>5. ASSUME NEW u \in URLs, UpdateBinding(u)
      PROVE  IInv'
  BY <1>0, <1>5, UpdateIInv, Zenon
<1>6. CASE SeesCancel
  BY <1>0, <1>6, SeesCancelIInv, Zenon
<1>7. QED
  BY <1>1, <1>2, <1>3, <1>4, <1>5, <1>6, Zenon DEF Next

-----------------------------------------------------------------------------

\* However polls, ticks, failed calls, deletions by users and restarts
\* interleave, createBinding never makes a BoundEndpoint with the port of
\* another live one, provided that the list a poll starts from is current and
\* the goroutines of the poll before have returned by then.
THEOREM LivePorts == Timely => (Spec => []LivePortsUnique)
<1> SUFFICES ASSUME Timely
             PROVE  Spec => []LivePortsUnique
  OBVIOUS
<1>1. IInv /\ [Next]_vars => IInv'
  BY NextIInv, Zenon
<1>2. IInv => LivePortsUnique
  BY Zenon DEF IInv
<1>3. QED
  BY InitIInv, <1>1, <1>2, PTL DEF Spec


-----------------------------------------------------------------------------
(***************************************************************************)
(* What the poller sets out to delete, and what it does after a drain has  *)
(* stopped it, for any timing.                                             *)
(***************************************************************************)

\* There are no BoundEndpoints that an earlier version has named in another way.
Named == \A n \in Names : hashURL[UrlOf[n]] = n

\* The call that is under way counts as well: it returns to the list when it fails.
Undesired == \A d \in Pending("new") : UrlOf[d.name] \notin Desired

LEMMA DeleterPending ==
    ASSUME TypeOK, NEW g \in Gens, Deleter(g)
    PROVE  Pending(g)' \subseteq Pending(g)
<1> DEFINE w == deletes[g]
<1>types. /\ deletes \in [Gens -> Goroutines(Listed, DeleteCalls)]
          /\ w \in Goroutines(Listed, DeleteCalls)
  BY Zenon DEF TypeOK
<1>retry. ASSUME deletes' = [deletes EXCEPT ![g] = Retry(w, DeleteItem(g))], w.call # None
          PROVE  Pending(g)' \subseteq Pending(g)
  <2>1. /\ deletes'[g].call = None
        /\ deletes'[g].round = w.round \ {DeleteItem(g)}
        /\ deletes'[g].remaining = w.remaining \cup {DeleteItem(g)}
    BY <1>retry, <1>types, Zenon DEF Retry, Goroutines
  <2>2. QED
    BY <1>retry, <2>1, Zenon DEF Pending
<1>1. CASE TickDeletes(g)
  <2>1. /\ deletes'[g].call = None
        /\ deletes'[g].round = w.remaining
        /\ deletes'[g].remaining = {}
    BY <1>1, <1>types, Zenon DEF TickDeletes, NextRound
  <2>2. QED
    BY <2>1, Zenon DEF Pending
<1>2. ASSUME NEW d \in Listed, DeleteBegins(g, d)
      PROVE  Pending(g)' \subseteq Pending(g)
  <2>1. /\ deletes'[g].call = [name |-> d.name, port |-> d.port, step |-> "delete", live |-> g = "new"]
        /\ deletes'[g].round = w.round \ {d}
        /\ deletes'[g].remaining = w.remaining
        /\ d \in w.round
    BY <1>2, <1>types, Zenon DEF DeleteBegins, Begin, Goroutines
  <2>2. DeleteItem(g)' = d
    <3>1. deletes'[g].call.name = d.name /\ deletes'[g].call.port = d.port
      BY <2>1
    <3>2. DeleteItem(g)' = [name |-> d.name, port |-> d.port]
      BY <3>1, Zenon DEF DeleteItem
    <3>3. QED
      BY <3>2, Zenon DEF Listed
  <2>3. QED
    BY <2>1, <2>2, Zenon DEF Pending
<1>3. CASE DeleteCall(g)
  <2>1. CASE objs[w.call.name] = None
    BY <1>3, <2>1, <1>retry, Zenon DEF DeleteCall, Deleting
  <2>2. CASE objs[w.call.name] # None
    <3>1. w.call # None /\ w.call \in DeleteCalls /\ deletes' = [deletes EXCEPT ![g].call.step = "unset"]
      BY <1>3, <2>2, <1>types, Zenon DEF DeleteCall, Deleting, Goroutines
    <3>2. /\ deletes'[g].call.name = w.call.name
          /\ deletes'[g].call.port = w.call.port
          /\ deletes'[g].round = w.round
          /\ deletes'[g].remaining = w.remaining
      BY <3>1, <1>types, Zenon DEF Goroutines, DeleteCalls
    <3>3. DeleteItem(g)' = DeleteItem(g)
      BY <3>2, Zenon DEF DeleteItem
    <3>4. QED
      BY <3>1, <3>2, <3>3, Zenon DEF Pending
  <2>3. QED
    BY <2>1, <2>2, Zenon
<1>4. CASE DeleteFails(g)
  BY <1>4, <1>retry, Zenon DEF DeleteFails, Deleting
<1>5. CASE DeleteUnset(g)
  <2>1. /\ deletes'[g].call = None
        /\ deletes'[g].round = w.round
        /\ deletes'[g].remaining = w.remaining
    BY <1>5, <1>types, Zenon DEF DeleteUnset, Done, Goroutines
  <2>2. QED
    BY <2>1, Zenon DEF Pending
<1>6. QED
  BY <1>1, <1>2, <1>3, <1>4, <1>5, Zenon DEF Deleter

LEMMA NextUndesired ==
    ASSUME TypeOK, Named, Undesired, [Next]_vars
    PROVE  Undesired'
<1>0. ASSUME UNCHANGED fetched, Pending("new")' \subseteq Pending("new")
      PROVE  Undesired'
  BY <1>0, Zenon DEF Undesired, Desired
<1>same. ASSUME UNCHANGED <<fetched, deletes>> PROVE Undesired'
  BY <1>same, <1>0, Zenon DEF Pending, DeleteItem
<1>none. ASSUME deletes'["new"] = Ended PROVE Undesired'
  <2>1. Pending("new")' = {}
    BY <1>none, EndedFields, Zenon DEF Pending
  <2>2. QED
    BY <2>1, Zenon DEF Undesired
<1>1. CASE Environment \/ Stopped \/ UNCHANGED vars
  BY <1>1, <1>same, Zenon DEF Environment, ApiChanges, UserDeletes, Released, CacheCatchesUp, DrainBegins,
                       Stopped, vars, poll
<1>2. CASE Start
  BY <1>2, <1>same, Zenon DEF Start
<1>3. CASE PollFetch \/ StopForDrain \/ Restart
  BY <1>3, <1>none DEF PollFetch, StopForDrain, Restart, Cancel, Gens
<1>4. CASE PollApply
  <2>1. CASE PortsClash
    BY <1>4, <2>1, <1>same, Zenon DEF PollApply
  <2>2. CASE ~PortsClash
    <3>1. PICK first \in FirstListed : deletes' = [deletes EXCEPT !["new"].remaining = ToDelete(first)]
      BY <1>4, <2>2, Zenon DEF PollApply
    <3>2. /\ deletes'["new"].remaining = ToDelete(first)
          /\ deletes'["new"].round = deletes["new"].round
          /\ deletes'["new"].call = deletes["new"].call
      BY <3>1, Zenon DEF TypeOK, Goroutines, Gens
    <3>3. ASSUME NEW d \in ToDelete(first)
          PROVE  UrlOf[d.name] \notin Desired
      <4>1. PICK n \in Existing : /\ d = [name |-> n, port |-> cache[n].port]
                                  /\ ~(UrlOf[n] \in ToUpdate(first) /\ n = hashURL[UrlOf[n]])
        BY Zenon DEF ToDelete
      <4>2. n \in Names /\ d.name = n /\ UrlOf[n] \notin ToUpdate(first)
        BY <4>1, Zenon DEF Existing, Named
      <4>3. ASSUME UrlOf[n] \in Desired PROVE UrlOf[n] \in ToUpdate(first)
        <5>1. UrlOf[n] \in DOMAIN first
          BY <4>1, <4>3, Zenon DEF FirstListed
        <5>2. first[UrlOf[n]] \in Names /\ UrlOf[first[UrlOf[n]]] = UrlOf[n]
          BY <5>1, Zenon DEF FirstListed, Existing
        <5>3. first[UrlOf[n]] = hashURL[UrlOf[n]]
          BY <5>2 DEF Named
        <5>4. QED
          BY <5>1, <5>3, Zenon DEF ToUpdate
      <4>4. QED
        BY <4>2, <4>3, Zenon
    <3>4. Desired' = Desired
      BY <1>4, Zenon DEF PollApply, Desired
    <3>5. Pending("new")' \subseteq Pending("new") \cup ToDelete(first)
      BY <3>2, ZenonT(30) DEF Pending, DeleteItem
    <3>6. QED
      BY <3>3, <3>4, <3>5, Zenon DEF Undesired
  <2>3. QED
    BY <2>1, <2>2, Zenon
<1>5. ASSUME NEW g \in Gens, Creator(g) PROVE Undesired'
  BY <1>5, <1>same, Zenon DEF Creator, TickCreates, CreateBegins, CreateCall, CreateFails, CreateStatus
<1>6. ASSUME NEW g \in Gens, Deleter(g) PROVE Undesired'
  <2>1. UNCHANGED fetched
    BY <1>6, Zenon DEF Deleter, TickDeletes, DeleteBegins, DeleteCall, DeleteFails, DeleteUnset
  <2>2. CASE g = "new"
    BY <1>6, <2>1, <2>2, <1>0, DeleterPending, Zenon
  <2>3. CASE g # "new"
    <3>1. deletes'["new"] = deletes["new"]
      BY <1>6, <2>3, Zenon DEF Deleter, TickDeletes, DeleteBegins, DeleteCall, DeleteFails, DeleteUnset,
                        TypeOK, Gens
    <3>2. QED
      BY <2>1, <3>1, <1>0, Zenon DEF Pending, DeleteItem
  <2>4. QED
    BY <2>2, <2>3, Zenon
<1>7. ASSUME NEW u \in URLs, UpdateBinding(u) PROVE Undesired'
  BY <1>7, <1>same, Zenon DEF UpdateBinding
<1>8. CASE SeesCancel
  <2>1. UNCHANGED fetched /\ deletes'["new"] = deletes["new"]
    BY <1>8, Zenon DEF SeesCancel, TypeOK, Gens
  <2>2. QED
    BY <2>1, <1>0, Zenon DEF Pending, DeleteItem
<1>9. QED
  BY <1>1, <1>2, <1>3, <1>4, <1>5, <1>6, <1>7, <1>8, Zenon DEF Next, Poller

\* Whatever the timing of polls, lists and calls, filterBoundEndpointActions puts no
\* BoundEndpoint on the list of deletions whose URL the last fetch has, if all
\* are named after their URL.
THEOREM DeletesUndesired == Named => (Spec => []DeletesOnlyUndesired)
<1> SUFFICES ASSUME Named PROVE Spec => []DeletesOnlyUndesired
  OBVIOUS
<1>1. Init => TypeOK /\ Undesired
  <2>1. Init => Pending("new") = {}
    BY EndedFields, ZenonT(30) DEF Init, Pending, Gens
  <2>2. QED
    BY <2>1, InitTypeOK, Zenon DEF Undesired
<1>2. TypeOK /\ Undesired /\ [Next]_vars => TypeOK' /\ Undesired'
  BY NextTypeOK, NextUndesired, Zenon
<1>3. Undesired => DeletesOnlyUndesired
  BY Zenon DEF Undesired, DeletesOnlyUndesired, Pending
<1>4. QED
  BY <1>1, <1>2, <1>3, PTL DEF Spec

-----------------------------------------------------------------------------

\* A poller that has stopped has no goroutines but cancelled ones.
Quiet ==
    state = "stopped" => pc = "idle" /\ creates["new"] = Ended /\ deletes["new"] = Ended

LEMMA NextQuiet == ASSUME TypeOK, Quiet, [Next]_vars PROVE Quiet'
<1>same. ASSUME UNCHANGED <<state, pc, creates, deletes>> PROVE Quiet'
  BY <1>same, Zenon DEF Quiet
<1>1. CASE Environment \/ Stopped \/ UNCHANGED vars
  BY <1>1, <1>same, Zenon DEF Environment, ApiChanges, UserDeletes, Released, CacheCatchesUp, DrainBegins,
                       Stopped, vars, poll
<1>2. CASE Start \/ PollFetch \/ PollApply \/ Restart
  BY <1>2, Zenon DEF Quiet, Start, PollFetch, PollApply, Restart
<1>3. CASE StopForDrain
  BY <1>3 DEF Quiet, StopForDrain, Cancel, Gens
<1>4. ASSUME NEW g \in Gens, Creator(g) PROVE Quiet'
  <2>1. UNCHANGED <<state, pc, deletes>>
    BY <1>4, ZenonT(30) DEF Creator, TickCreates, CreateBegins, CreateCall, CreateFails, CreateStatus
  <2>2. creates[g] # Ended
    BY <1>4, EndedFields, ZenonT(30) DEF Creator, TickCreates, CreateBegins, CreateCall, CreateFails,
                             CreateStatus, Creating
  <2>3. g # "new" => creates'["new"] = creates["new"]
    BY <1>4, Zenon DEF Creator, TickCreates, CreateBegins, CreateCall, CreateFails, CreateStatus, TypeOK, Gens
  <2>4. QED
    BY <2>1, <2>2, <2>3, ZenonT(30) DEF Quiet
<1>5. ASSUME NEW g \in Gens, Deleter(g) PROVE Quiet'
  <2>1. UNCHANGED <<state, pc, creates>>
    BY <1>5, Zenon DEF Deleter, TickDeletes, DeleteBegins, DeleteCall, DeleteFails, DeleteUnset
  <2>2. deletes[g] # Ended
    BY <1>5, EndedFields, Zenon DEF Deleter, TickDeletes, DeleteBegins, DeleteCall, DeleteFails,
                             DeleteUnset, Deleting
  <2>3. g # "new" => deletes'["new"] = deletes["new"]
    BY <1>5, Zenon DEF Deleter, TickDeletes, DeleteBegins, DeleteCall, DeleteFails, DeleteUnset, TypeOK, Gens
  <2>4. QED
    BY <2>1, <2>2, <2>3, Zenon DEF Quiet
<1>6. ASSUME NEW u \in URLs, UpdateBinding(u) PROVE Quiet'
  BY <1>6, <1>same, Zenon DEF UpdateBinding
<1>7. CASE SeesCancel
  BY <1>7, Zenon DEF Quiet, SeesCancel, TypeOK, Gens
<1>8. QED
  BY <1>1, <1>2, <1>3, <1>4, <1>5, <1>6, <1>7, Zenon DEF Next, Poller

\* Once cancelIfDraining has stopped the loop, only a create call that was under way
\* makes another BoundEndpoint: the lists of the goroutines are never resumed.
THEOREM NothingCreatedAfterStop == Spec => NoCreateAfterStop
<1> DEFINE A == state = "stopped" =>
                  \A n \in Names : objs[n] = None /\ objs'[n] # None =>
                      creates["old"].call # None /\ creates'["new"] = Ended
<1>1. Init => TypeOK /\ Quiet
  BY InitTypeOK, Zenon DEF Init, Quiet
<1>2. TypeOK /\ Quiet /\ [Next]_vars => TypeOK' /\ Quiet'
  BY NextTypeOK, NextQuiet, Zenon
<1>3. ASSUME TypeOK, Quiet, [Next]_vars PROVE A
  <2> SUFFICES ASSUME state = "stopped", NEW n \in Names, objs[n] = None, objs'[n] # None
               PROVE  creates["old"].call # None /\ creates'["new"] = Ended
    OBVIOUS
  <2>0. creates["new"] = Ended /\ deletes["new"] = Ended /\ pc = "idle"
    BY <1>3 DEF Quiet
  <2>1. ASSUME NEW m \in Names, objs[m] # None, DeleteObject(m) PROVE FALSE
    <3>1. PICK o : objs' = [objs EXCEPT ![m] = o]
      BY <2>1, Zenon DEF DeleteObject
    <3>2. QED
      BY <1>3, <2>1, <3>1, Zenon DEF TypeOK
  <2>2. CASE Environment \/ Stopped \/ UNCHANGED vars
    <3>1. ASSUME NEW m \in Names, UserDeletes(m) PROVE FALSE
      BY <2>1, <3>1, Zenon DEF UserDeletes, Live
    <3>2. ASSUME NEW m \in Names, Released(m) PROVE FALSE
      BY <1>3, <3>2, Zenon DEF Released, TypeOK
    <3>3. QED
      BY <2>2, <3>1, <3>2, Zenon DEF Environment, ApiChanges, CacheCatchesUp, DrainBegins, Stopped, vars
  <2>3. CASE Poller
    BY <2>3, Zenon DEF Poller, Start, PollFetch, PollApply, StopForDrain, Restart
  <2>4. ASSUME NEW u \in URLs, UpdateBinding(u) PROVE FALSE
    <3>1. boundEndpointNeedsUpdate(u) /\ objs[hashURL[u]] # None
      BY <2>4, Zenon DEF UpdateBinding, boundEndpointNeedsUpdate
    <3>2. objs' = [objs EXCEPT ![hashURL[u]].ids = fetched[u]]
      BY <2>4, <3>1, Zenon DEF UpdateBinding
    <3>3. QED
      BY <1>3, <3>1, <3>2, Zenon DEF TypeOK
  <2>5. ASSUME NEW g \in Gens, Deleter(g) PROVE FALSE
    <3>1. DeleteCall(g) /\ objs[deletes[g].call.name] # None
      BY <2>5, Zenon DEF Deleter, TickDeletes, DeleteBegins, DeleteCall, DeleteFails, DeleteUnset
    <3>2. deletes[g].call.name \in Names
      BY <1>3, <3>1, Zenon DEF TypeOK, DeleteCall, Deleting, Goroutines, DeleteCalls
    <3>3. DeleteObject(deletes[g].call.name)
      BY <3>1, Zenon DEF DeleteCall
    <3>4. PICK m \in Names : m = deletes[g].call.name
      BY <3>2, Zenon
    <3>5. QED
      BY <2>1, <3>1, <3>3, <3>4, Zenon
  <2>6. CASE SeesCancel
    BY <2>6, Zenon DEF SeesCancel
  <2>7. ASSUME NEW g \in Gens, Creator(g)
        PROVE  creates["old"].call # None /\ creates'["new"] = Ended
    <3>1. creates[g] # Ended
      BY <2>7, EndedFields, Zenon DEF Creator, TickCreates, CreateBegins, CreateCall, CreateFails,
                               CreateStatus, Creating
    <3>2. g = "old"
      BY <2>0, <3>1, Zenon DEF Gens
    <3>3. creates'["new"] = Ended
      BY <1>3, <2>0, <2>7, <3>2, ZenonT(30) DEF Creator, TickCreates, CreateBegins, CreateCall, CreateFails,
                                    CreateStatus, TypeOK, Gens
    <3>4. Creating(g, "create") \/ Creating(g, "status")
      BY <2>7, Zenon DEF Creator, TickCreates, CreateBegins, CreateCall, CreateFails, CreateStatus
    <3>5. QED
      BY <3>2, <3>3, <3>4, Zenon DEF Creating
  <2>8. QED
    BY <1>3, <2>2, <2>3, <2>4, <2>5, <2>6, <2>7, Zenon DEF Next
<1>4. QED
  BY <1>1, <1>2, <1>3, PTL DEF Spec, NoCreateAfterStop

=============================================================================
