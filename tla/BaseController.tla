--------------------------- MODULE BaseController ---------------------------
(***************************************************************************)
(* The life of one custom resource that mirrors an object of the ngrok     *)
(* API: BaseController.Reconcile (internal/controller/base_controller.go)  *)
(* with the create, update and delete handlers of the CloudEndpoint,       *)
(* Domain and IPPolicy controllers.                                        *)
(*                                                                         *)
(* The controller reads the resource from an informer cache that lags the  *)
(* API server, keeps the remote object's ID nowhere but in Status.ID, and  *)
(* may stop between any two calls.  Conditions, events and messages are    *)
(* left out; Spec is a number that grows with every edit.                  *)
(***************************************************************************)
EXTENDS Naturals

CONSTANTS
    None,           \* no resource
    Kinds,          \* the controllers: "CloudEndpoint", "Domain", "IPPolicy"
    Reclaims,       \* delete removes the remote object (Domain: reclaimPolicy Delete)
    Faults,         \* the kinds of fault that may happen
    MaxFaults,      \* how many of them
    MaxEdits,       \* bound on edits of the spec
    MaxObjects,     \* bound on resources created under the name
    MaxIds          \* bound on remote objects

\* What may go wrong: a call fails and is retried, or is refused; its answer is lost;
\* the status is not written; the process stops; the remote object is removed by
\* others; a reconcile starts before the cache shows what the last one wrote.
FaultKinds == {"retried", "refused", "lost", "status", "crash", "gone", "stale"}

ASSUME BaseControllerAssumption ==
    /\ Kinds \subseteq {"CloudEndpoint", "Domain", "IPPolicy"}
    /\ Reclaims \in BOOLEAN
    /\ Faults \subseteq FaultKinds
    /\ MaxFaults \in Nat
    /\ MaxEdits \in Nat
    /\ MaxObjects \in Nat
    /\ MaxIds \in Nat

VARIABLES
    kind,     \* the controller whose resource this is
    api,      \* the resource in the API server
    cache,    \* the resource in the informer cache
    seen,     \* the cache holds the controller's last write
    queued,   \* the key is in the work queue
    draining, \* what IsDraining answers
    pc, obj,  \* the reconcile in progress and its copy of the resource
    remote,   \* the remote objects that exist
    rspec,    \* the spec each remote object has
    ids,      \* number of remote objects made so far
    edits, objects,
    faults    \* how many faults have happened, and of which kinds

\* Domain.create looks for a remote object of the name before it makes one.
AdoptsExisting == kind = "Domain"

\* CloudEndpoint.update makes a new object itself when the old one is lost; the
\* others return the error.
RecreatesInUpdate == kind = "CloudEndpoint"

user == <<edits, objects>>
ngrok == <<remote, rspec, ids>>
vars == <<kind, api, cache, seen, queued, draining, pc, obj, ngrok, user, faults>>

Ids == 1..MaxIds

\* id = 0 is the empty Status.ID.
Objects == [uid : 1..MaxObjects, spec : 0..MaxEdits, deleting : BOOLEAN,
            finalizer : BOOLEAN, id : 0..MaxIds]

ASSUME NoneAssumption == None \notin Objects

Steps == {"idle", "register", "create", "update", "record", "clear", "clearRetry",
          "delete", "unregister"}

TypeOK ==
    /\ kind \in Kinds
    /\ api \in Objects \cup {None}
    /\ cache \in Objects \cup {None}
    /\ seen \in BOOLEAN
    /\ queued \in BOOLEAN
    /\ draining \in BOOLEAN
    /\ pc \in Steps
    /\ obj \in Objects \cup {None}
    /\ pc # "idle" <=> obj # None
    /\ remote \subseteq 1..ids
    /\ rspec \in [Ids -> 0..MaxEdits]
    /\ ids \in 0..MaxIds
    /\ edits \in 0..MaxEdits
    /\ objects \in 0..MaxObjects
    /\ faults \in [n : 0..MaxFaults, kinds : SUBSET Faults]

Init ==
    /\ kind \in Kinds
    /\ api = None
    /\ cache = None
    /\ seen = TRUE
    /\ queued = FALSE
    /\ draining = FALSE
    /\ pc = "idle"
    /\ obj = None
    /\ remote = {}
    /\ rspec = [i \in Ids |-> 0]
    /\ ids = 0
    /\ edits = 0
    /\ objects = 0
    /\ faults = [n |-> 0, kinds |-> {}]

Fault(what) ==
    /\ what \in Faults
    /\ faults.n < MaxFaults
    /\ faults' = [n |-> faults.n + 1, kinds |-> faults.kinds \cup {what}]

(***************************************************************************)
(* The user, the API server's watch and the ngrok dashboard.               *)
(***************************************************************************)
UserCreates ==
    /\ api = None
    /\ objects < MaxObjects
    /\ objects' = objects + 1
    /\ api' = [uid |-> objects + 1, spec |-> edits, deleting |-> FALSE,
               finalizer |-> FALSE, id |-> 0]
    /\ UNCHANGED <<draining, cache, seen, queued, pc, obj, ngrok, edits, faults>>

UserEdits ==
    /\ api # None
    /\ ~api.deleting
    /\ edits < MaxEdits
    /\ edits' = edits + 1
    /\ api' = [api EXCEPT !.spec = edits + 1]
    /\ UNCHANGED <<draining, cache, seen, queued, pc, obj, ngrok, objects, faults>>

UserDeletes ==
    /\ api # None
    /\ ~api.deleting
    /\ api' = IF api.finalizer THEN [api EXCEPT !.deleting = TRUE] ELSE None
    /\ UNCHANGED <<draining, cache, seen, queued, pc, obj, ngrok, user, faults>>

\* GenerationChangedPredicate: an edit and a deletion are new generations, a
\* patch of the finalizers or a write of the status is not.
PassesPredicate(old, new) ==
    \/ old = None
    \/ new = None
    \/ old.uid # new.uid
    \/ old.spec # new.spec
    \/ old.deleting # new.deleting

CacheCatchesUp ==
    /\ cache # api
    /\ cache' = api
    /\ seen' = TRUE
    /\ queued' = (queued \/ PassesPredicate(cache, api))
    /\ UNCHANGED <<draining, api, pc, obj, ngrok, user, faults>>

\* The deletion of the KubernetesOperator makes IsDraining true for good.
SetDraining ==
    /\ ~draining
    /\ draining' = TRUE
    /\ UNCHANGED <<api, cache, seen, queued, pc, obj, ngrok, user, faults>>

\* Somebody removes the remote object outside the cluster.
RemoteGone ==
    /\ Fault("gone")
    /\ \E i \in remote : remote' = remote \ {i}
    /\ UNCHANGED <<draining, api, cache, seen, queued, pc, obj, rspec, ids, user>>

\* The api-manager stops; the next one lists every resource afresh.
Crash ==
    /\ Fault("crash")
    /\ pc' = "idle"
    /\ obj' = None
    /\ cache' = api
    /\ seen' = TRUE
    /\ queued' = (api # None)
    /\ UNCHANGED <<draining, api, ngrok, user>>

(***************************************************************************)
(* BaseController.Reconcile.                                               *)
(***************************************************************************)

\* Mutant of Branch: HasFinalizer is taken for the sign of a deletion.
BranchOnFinalizer(o) ==
    CASE ~o.finalizer -> "register"
      [] o.finalizer -> IF o.id = 0 THEN "create" ELSE "delete"

\* The branch Reconcile takes for a copy o of the resource.
Branch(o) ==
    CASE ~o.deleting /\ draining -> "idle"
      [] ~o.deleting /\ ~draining /\ ~o.finalizer -> "register"
      [] ~o.deleting /\ ~draining /\ o.finalizer -> IF o.id = 0 THEN "create" ELSE "update"
      [] o.deleting /\ o.finalizer -> IF o.id = 0 THEN "unregister" ELSE "delete"
      [] OTHER -> "idle"

Reconcile ==
    /\ queued
    /\ pc = "idle"
    /\ IF seen \/ cache = api THEN UNCHANGED faults ELSE Fault("stale")
    /\ queued' = FALSE
    /\ pc' = IF cache = None THEN "idle" ELSE Branch(cache)
    /\ obj' = IF pc' = "idle" THEN None ELSE cache
    /\ UNCHANGED <<draining, api, cache, seen, ngrok, user>>

\* Mutant of Return: the key never goes back to the work queue.
ReturnWithoutRetry(retry) ==
    /\ pc' = "idle"
    /\ obj' = None
    /\ UNCHANGED queued

\* Reconcile returns; retry is whether the key goes back to the work queue.
Return(retry) ==
    /\ pc' = "idle"
    /\ obj' = None
    /\ queued' = (queued \/ retry)

\* A return without error.  DomainReconciler.Reconcile then asks for another
\* call while the Domain it finds in the cache is not ready.
ReturnNil ==
    \E unready \in IF kind = "Domain" THEN BOOLEAN ELSE {FALSE} : Return(unready)

\* The finalizer is patched by name: the answer replaces the copy, so what
\* follows sees the resource as it is now.
RegisterFinalizer ==
    /\ pc = "register"
    /\ IF api = None
       THEN Return(TRUE) /\ UNCHANGED <<api, seen>>
       ELSE /\ api' = [api EXCEPT !.finalizer = TRUE]
            /\ obj' = api'
            /\ pc' = IF obj'.id = 0 THEN "create" ELSE "update"
            /\ seen' = (cache = api')
            /\ UNCHANGED queued
    /\ UNCHANGED <<draining, cache, ngrok, user, faults>>

\* A new remote object, with the spec of the copy.
MakeRemote ==
    /\ ids < MaxIds
    /\ ids' = ids + 1
    /\ remote' = remote \cup {ids + 1}
    /\ rspec' = [rspec EXCEPT ![ids + 1] = obj.spec]

\* The create handlers up to the write of the status.  An adopted object is
\* left as it is.
Create ==
    /\ pc = "create"
    /\ pc' = "record"
    /\ IF AdoptsExisting /\ remote # {}
       THEN /\ \E i \in remote : obj' = [obj EXCEPT !.id = i]
            /\ UNCHANGED ngrok
       ELSE /\ MakeRemote
            /\ obj' = [obj EXCEPT !.id = ids + 1]
    /\ UNCHANGED <<draining, api, cache, seen, queued, user, faults>>

\* The ngrok API makes the object, but its answer is lost.
CreateAnswerLost ==
    /\ pc = "create"
    /\ ~(AdoptsExisting /\ remote # {})
    /\ Fault("lost")
    /\ MakeRemote
    /\ Return(TRUE)
    /\ UNCHANGED <<draining, api, cache, seen, user>>

\* Mutant of Update: an object that differs is left as it is.
UpdateKeepsSpec ==
    /\ pc = "update"
    /\ IF obj.id \in remote
       THEN pc' = "record" /\ UNCHANGED obj
       ELSE /\ obj' = [obj EXCEPT !.id = 0]
            /\ pc' = IF RecreatesInUpdate THEN "clear" ELSE "clearRetry"
    /\ UNCHANGED <<draining, api, cache, seen, queued, ngrok, user, faults>>

\* Mutant of Update: every error of Get is taken for "not found".
UpdateForgets ==
    /\ pc = "update"
    /\ obj' = [obj EXCEPT !.id = 0]
    /\ pc' = IF RecreatesInUpdate THEN "clear" ELSE "clearRetry"
    /\ UNCHANGED <<draining, api, cache, seen, queued, ngrok, user, faults>>

\* The update handlers up to the write of the status: a lost object is
\* forgotten, one that differs is updated.
Update ==
    /\ pc = "update"
    /\ IF obj.id \in remote
       THEN /\ rspec' = [rspec EXCEPT ![obj.id] = obj.spec]
            /\ pc' = "record"
            /\ UNCHANGED obj
       ELSE /\ obj' = [obj EXCEPT !.id = 0]
            /\ pc' = IF RecreatesInUpdate THEN "clear" ELSE "clearRetry"
            /\ UNCHANGED rspec
    /\ UNCHANGED <<draining, api, cache, seen, queued, remote, ids, user, faults>>

\* The API server takes a status write for the object of the copy's UID; on a
\* conflict ReconcileStatus only renews the resource version.
Writable == api # None /\ api.uid = obj.uid

\* ReconcileStatus succeeds, and its handler goes on or returns.
ReconcileStatus ==
    /\ pc \in {"record", "clear", "clearRetry"}
    /\ Writable
    /\ api' = [api EXCEPT !.id = obj.id]
    /\ seen' = (cache = api')
    /\ IF pc = "clear"
       THEN pc' = "create" /\ obj' = api' /\ UNCHANGED queued
       ELSE IF pc = "clearRetry" THEN Return(TRUE) ELSE ReturnNil
    /\ UNCHANGED <<draining, cache, ngrok, user, faults>>

\* ReconcileStatus fails: StatusError puts the key back in the queue.
ReconcileStatusFails ==
    /\ pc \in {"record", "clear", "clearRetry"}
    /\ \/ ~Writable /\ UNCHANGED faults
       \/ Fault("status")
    /\ Return(TRUE)
    /\ UNCHANGED <<draining, api, cache, seen, ngrok, user>>

\* The delete handlers: an object that does not exist counts as deleted.
Delete ==
    /\ pc = "delete"
    /\ remote' = IF Reclaims THEN remote \ {obj.id} ELSE remote
    /\ pc' = "unregister"
    /\ UNCHANGED <<draining, api, cache, seen, queued, obj, rspec, ids, user, faults>>

\* The object is deleted, but the answer is lost.
DeleteAnswerLost ==
    /\ pc = "delete"
    /\ Reclaims
    /\ Fault("lost")
    /\ remote' = remote \ {obj.id}
    /\ Return(TRUE)
    /\ UNCHANGED <<draining, api, cache, seen, rspec, ids, user>>

\* A call of the ngrok API fails.  CtrlResultForErr retries server errors,
\* 429 and 404, and gives up on other client errors.
RemoteFails ==
    /\ pc \in {"create", "update"} \cup (IF Reclaims THEN {"delete"} ELSE {})
    /\ \/ Fault("retried") /\ Return(TRUE)
       \/ Fault("refused") /\ ReturnNil
    /\ UNCHANGED <<draining, api, cache, seen, ngrok, user>>

\* Mutant of RemoveFinalizer: the finalizer goes before the delete handler runs.
RemoveFinalizerFirst ==
    /\ pc \in {"delete", "unregister"}
    /\ api # None
    /\ api' = None
    /\ seen' = (cache = api')
    /\ IF pc = "delete" THEN UNCHANGED <<pc, obj, queued>> ELSE ReturnNil
    /\ UNCHANGED <<draining, cache, ngrok, user, faults>>

\* RemoveAndSyncFinalizer, by name; the last finalizer of a resource that is
\* being deleted releases it.
RemoveFinalizer ==
    /\ pc = "unregister"
    /\ IF api = None
       THEN Return(TRUE) /\ UNCHANGED <<api, seen>>
       ELSE /\ api' = IF api.deleting THEN None ELSE [api EXCEPT !.finalizer = FALSE]
            /\ seen' = (cache = api')
            /\ ReturnNil
    /\ UNCHANGED <<draining, cache, ngrok, user, faults>>

-----------------------------------------------------------------------------

Controller ==
    \/ Reconcile
    \/ RegisterFinalizer
    \/ Create
    \/ Update
    \/ ReconcileStatus
    \/ ReconcileStatusFails
    \/ Delete
    \/ RemoveFinalizer

Quiescent ==
    /\ pc = "idle"
    /\ ~queued
    /\ cache = api
    /\ UNCHANGED vars

Next ==
    /\ UNCHANGED kind
    /\ \/ UserCreates \/ UserEdits \/ UserDeletes
       \/ CacheCatchesUp
       \/ SetDraining
       \/ RemoteGone
       \/ Crash
       \/ Controller
       \/ CreateAnswerLost \/ DeleteAnswerLost \/ RemoteFails
       \/ Quiescent

Spec == Init /\ [][Next]_vars

\* The informer delivers what the API server holds, the worker takes the key,
\* and a reconcile that started comes to its end.
Fairness ==
    /\ WF_vars(CacheCatchesUp /\ UNCHANGED kind)
    /\ WF_vars(Controller /\ UNCHANGED kind)

FairSpec == Spec /\ Fairness

-----------------------------------------------------------------------------
(***************************************************************************)
(* Properties.                                                             *)
(***************************************************************************)

\* The remote object that the controller still knows of: by the resource's
\* Status.ID or by the copy whose status is about to be written.
Known ==
    (IF api = None THEN {} ELSE {api.id}) \cup (IF obj = None THEN {} ELSE {obj.id})

\* So far the controller has been told the outcome of each call, has not stopped
\* between two, and has seen what it wrote.
Informed == faults.kinds \subseteq {"retried", "refused", "gone"}

\* Every remote object is known to the controller, however edits, deletions,
\* recreations, refused calls and remote removals interleave: there is no moment
\* at which a call has made an object whose ID nothing holds.  Only an answer or a
\* status write that is lost, a stop in between or a stale read can lose an ID.
NoOrphan == Reclaims /\ Informed => remote \subseteq Known

\* The finalizer leaves a resource.
Released == api # None /\ api.finalizer /\ (api' = None \/ ~api'.finalizer)

\* The finalizer of a resource is removed only when the remote object made for
\* it is gone: "Delete handler runs (cleans up remote resources), then finalizer
\* is removed" (specs/controllers/common.md).
AlwaysCleaned == [][Reclaims /\ Released => remote' = {}]_vars

\* The same until the first fault that hides an outcome from the controller.
CleanedBeforeRelease == [][Reclaims /\ Informed /\ Released => remote' = {}]_vars

\* The controller never deletes the remote object that a live resource records,
\* not even for a stale copy of an earlier resource of that name.
NeverDeletesLive ==
    [][\A i \in remote \ remote' :
          pc = "delete" => api = None \/ api.deleting \/ api.id # i]_vars

\* A Domain has at most one remote object, in spite of crashes, lost answers, stale
\* reads and failed status writes: create finds what an earlier attempt has made.
AtMostOneRemote == kind = "Domain" => \A i, j \in remote : i = j

\* A Domain controller that has nothing left to do has recorded the one remote
\* object its resource has, although create may adopt an object of an earlier
\* attempt, of an earlier resource or of a reconcile whose status write the cache has
\* not shown yet.  What is adopted keeps the spec it was made with: that is not claimed.
RecordedAtRest ==
    /\ kind = "Domain"
    /\ pc = "idle"
    /\ ~queued
    /\ cache = api
    /\ api # None
    /\ ~draining
    /\ faults.kinds \cap {"refused", "gone"} = {}
    => ~api.deleting /\ remote = {api.id}

\* What the resource and the remote side look like when they agree.
InSync ==
    IF api = None
    THEN Reclaims => remote = {}
    ELSE ~api.deleting /\ remote = {api.id} /\ rspec[api.id] = api.spec

\* When the user and the faults come to rest, the remote object is the one the
\* resource records, with the resource's spec, or both are gone.  A drain leaves
\* what it finds, and so does a reconcile after a fault that is not retried.
Converges == <>[](InSync \/ draining \/ ~(faults.kinds \subseteq {"retried"}))

=============================================================================
