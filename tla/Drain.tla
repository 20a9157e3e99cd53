------------------------------- MODULE Drain -------------------------------
(***************************************************************************)
(* The drain: what happens when the KubernetesOperator resource of this    *)
(* installation is deleted (internal/drain, and the delete branch of the   *)
(* KubernetesOperator controller).                                         *)
(*                                                                         *)
(* The leading api-manager marks the KubernetesOperator as draining, waits *)
(* for the other controllers to notice, strips or deletes every resource   *)
(* that carries the finalizer, marks the drain as completed, removes the   *)
(* registration and releases the KubernetesOperator.  All the while the    *)
(* controllers of every process reconcile resources: each asks IsDraining  *)
(* first and adds the finalizer a moment later.                            *)
(***************************************************************************)
EXTENDS Naturals, Sequences, FiniteSets

CONSTANTS
    None,           \* no KubernetesOperator
    Procs,          \* processes: the leading api-manager, agents, forwarders
    Leader,         \* the process that drains
    Resources,      \* resources that may carry the finalizer
    UserResources,  \* those the drain only strips: Ingress, Service, Gateway, routes
    Foreign,        \* those another installation manages
    Home,           \* the processes that reconcile each resource
    Asks,           \* the resources whose controller asks IsDraining: neither Service nor BoundEndpoint
    Handlers,       \* DrainAll's handlers, in order: the resources each one lists
    Policy,         \* GetDrainPolicy: "Delete" or "Retain"
    Registered,     \* the KubernetesOperator has a Status.ID
    PauseCovers,    \* what the pause is long enough for: see Pause
    Restarts,       \* which process may restart in which state of the drain
    MaxRestarts,    \* bound on restarts
    MaxFailures,    \* bound on failed or timed-out calls of the drain
    MaxCreates      \* bound on resources created

Conds == {"none", "draining", "completed"}

ASSUME DrainAssumption ==
    /\ Leader \in Procs
    /\ UserResources \subseteq Resources
    /\ Foreign \subseteq Resources
    /\ Home \in [Resources -> SUBSET Procs]
    /\ \A r \in Foreign : Home[r] = {}
    /\ Asks \subseteq Resources
    /\ Handlers \in Seq(SUBSET Resources) \ {<<>>}
    /\ \A r \in Resources : \E i \in 1..Len(Handlers) : r \in Handlers[i]
    /\ Policy \in {"Delete", "Retain"}
    /\ Registered \in BOOLEAN
    /\ PauseCovers \subseteq {"reconciles", "notice"}
    /\ Restarts \subseteq Procs \X Conds
    /\ MaxRestarts \in Nat
    /\ MaxFailures \in Nat
    /\ MaxCreates \in Nat

\* The KubernetesOperator: its deletion timestamp, its Draining condition and
\* whether Status.ID is set.
Operators == [deleting : BOOLEAN, cond : Conds, id : BOOLEAN]

ASSUME NoneAssumption == None \notin Operators

VARIABLES
    ko,        \* the KubernetesOperator in the API server
    koCache,   \* the copy each process has in its cache
    flag,      \* StateChecker.draining of each process
    res,       \* "absent", "bare", "held" (has the finalizer) or "deleting" (held and deleted)
    remote,    \* the resources that have an object in the ngrok API
    registration, \* the ngrok API has the operator's registration
    asked,     \* reconciles that were told "not draining" and have not added the finalizer
    pc, obj,   \* the reconcile of the KubernetesOperator and its copy
    handler,   \* the handler DrainAll is at
    todo,      \* the resources it has listed and not dealt with
    waitsFor,  \* of those, the one waitForDeletion polls
    errors,    \* DrainResult.HasErrors
    restarts, failures, creates

drain == <<pc, obj, handler, todo, waitsFor, errors>>
bounds == <<restarts, failures, creates>>
vars == <<ko, koCache, flag, res, remote, registration, asked, drain, bounds>>

Managed == Resources \ Foreign
OperatorResources == Resources \ UserResources

\* util.HasFinalizer.
HasFinalizer(r) == res[r] \in {"held", "deleting"}

Phases == {"idle", "initiate", "handle", "pause", "list", "items", "wait", "report",
           "deregister", "forget", "release"}

TypeOK ==
    /\ ko \in Operators \cup {None}
    /\ koCache \in [Procs -> Operators \cup {None}]
    /\ flag \in [Procs -> BOOLEAN]
    /\ res \in [Resources -> {"absent", "bare", "held", "deleting"}]
    /\ remote \subseteq OperatorResources
    /\ registration \in BOOLEAN
    /\ asked \subseteq Procs \X Resources
    /\ pc \in Phases
    /\ obj \in Operators \cup {None}
    /\ pc # "idle" <=> obj # None
    /\ handler \in 1..(Len(Handlers) + 1)
    /\ pc \in {"list", "items", "wait"} => handler \in 1..Len(Handlers)
    /\ todo \subseteq Resources
    /\ waitsFor \subseteq todo
    /\ pc = "wait" <=> waitsFor # {}
    /\ errors \in BOOLEAN
    /\ restarts \in 0..MaxRestarts
    /\ failures \in 0..MaxFailures
    /\ creates \in 0..MaxCreates

\* An operator at work: some resources exist, and those that were reconciled
\* carry the finalizer and have their remote object.
Init ==
    /\ ko = [deleting |-> FALSE, cond |-> "none", id |-> Registered]
    /\ koCache = [p \in Procs |-> ko]
    /\ flag = [p \in Procs |-> FALSE]
    /\ res \in [Resources -> {"absent", "bare", "held"}]
    /\ \A r \in Foreign : res[r] = "held"
    /\ remote = {r \in OperatorResources : res[r] = "held"}
    /\ registration = Registered
    /\ asked = {}
    /\ pc = "idle"
    /\ obj = None
    /\ handler = 1
    /\ todo = {}
    /\ waitsFor = {}
    /\ errors = FALSE
    /\ restarts = 0
    /\ failures = 0
    /\ creates = 0

(***************************************************************************)
(* Users, caches and restarts.                                             *)
(***************************************************************************)
UserDeletesOperator ==
    /\ ko # None
    /\ ~ko.deleting
    /\ ko' = [ko EXCEPT !.deleting = TRUE]
    /\ UNCHANGED <<registration, koCache, flag, res, remote, asked, drain, bounds>>

\* A user, or the manager driver: a NgrokTrafficPolicy event leads to SyncEndpoints,
\* which asks no StateChecker and makes again the endpoints the drain has deleted.
UserCreates(r) ==
    /\ res[r] = "absent"
    /\ creates < MaxCreates
    /\ creates' = creates + 1
    /\ res' = [res EXCEPT ![r] = "bare"]
    /\ UNCHANGED <<registration, ko, koCache, flag, remote, asked, drain, restarts, failures>>

UserDeletes(r) ==
    /\ r \in Managed
    /\ res[r] \in {"bare", "held"}
    /\ res' = [res EXCEPT ![r] = IF @ = "held" THEN "deleting" ELSE "absent"]
    /\ UNCHANGED <<registration, ko, koCache, flag, remote, asked, drain, bounds>>

CacheCatchesUp(p) ==
    /\ koCache[p] # ko
    /\ koCache' = [koCache EXCEPT ![p] = ko]
    /\ UNCHANGED <<registration, ko, flag, res, remote, asked, drain, bounds>>

\* The reconcile returns an error and is retried, or the process stops.
GiveUp ==
    /\ pc' = "idle"
    /\ obj' = None
    /\ todo' = {}
    /\ waitsFor' = {}
    /\ UNCHANGED <<handler, errors>>

\* A process stops and another takes its place with a new StateChecker and a
\* cache that has just been filled.
Restart(p) ==
    /\ restarts < MaxRestarts
    /\ <<p, IF ko = None THEN "completed" ELSE ko.cond>> \in Restarts
    /\ restarts' = restarts + 1
    /\ flag' = [flag EXCEPT ![p] = FALSE]
    /\ koCache' = [koCache EXCEPT ![p] = ko]
    /\ asked' = {a \in asked : a[1] # p}
    /\ IF p = Leader THEN GiveUp ELSE UNCHANGED drain
    /\ UNCHANGED <<registration, ko, res, remote, failures, creates>>

(***************************************************************************)
(* The controllers of the other resources.                                 *)
(***************************************************************************)

\* What StateChecker.IsDraining answers in process p: a KubernetesOperator that
\* is not found is not draining.
IsDraining(p) == flag[p] \/ (koCache[p] # None /\ koCache[p].cond = "draining")

\* A reconcile asks while the condition is true: the answer is remembered.
Notice(p) ==
    /\ ~flag[p]
    /\ IsDraining(p)
    /\ flag' = [flag EXCEPT ![p] = TRUE]
    /\ UNCHANGED <<registration, ko, koCache, res, remote, asked, drain, bounds>>

\* Mutant of Upsert: the answer of IsDraining is not used.
UpsertUnasked(p, r) ==
    /\ p \in Home[r]
    /\ res[r] \in {"bare", "held"}
    /\ asked' = asked \cup {<<p, r>>}
    /\ UNCHANGED <<registration, ko, koCache, flag, res, remote, drain, bounds>>

\* A reconcile of a resource that is not deleted asks, if its controller has a
\* DrainState, and goes on.
Upsert(p, r) ==
    /\ p \in Home[r]
    /\ res[r] \in {"bare", "held"}
    /\ r \in Asks => ~IsDraining(p)
    /\ asked' = asked \cup {<<p, r>>}
    /\ UNCHANGED <<registration, ko, koCache, flag, res, remote, drain, bounds>>

\* It adds the finalizer and makes the remote object.  A resource that is gone
\* or being deleted refuses the finalizer.
RegisterFinalizer(p, r) ==
    /\ <<p, r>> \in asked
    /\ asked' = asked \ {<<p, r>>}
    /\ IF res[r] \in {"bare", "held"}
       THEN /\ res' = [res EXCEPT ![r] = "held"]
            /\ remote' = remote \cup ({r} \cap OperatorResources)
       ELSE UNCHANGED <<res, remote>>
    /\ UNCHANGED <<registration, ko, koCache, flag, drain, bounds>>

\* The delete branch, which a drain does not stop: the remote object goes, then
\* the finalizer and with it the resource.
Finalize(p, r) ==
    /\ p \in Home[r]
    /\ res[r] = "deleting"
    /\ res' = [res EXCEPT ![r] = "absent"]
    /\ remote' = remote \ {r}
    /\ UNCHANGED <<registration, ko, koCache, flag, asked, drain, bounds>>

(***************************************************************************)
(* The delete branch of the KubernetesOperator controller.                 *)
(***************************************************************************)

Fail ==
    /\ failures < MaxFailures
    /\ failures' = failures + 1
    /\ UNCHANGED <<restarts, creates>>

\* Mutant of Begin: a drain that has started counts as done.
BeginOnce ==
    /\ pc = "idle"
    /\ koCache[Leader] # None
    /\ koCache[Leader].deleting
    /\ obj' = koCache[Leader]
    /\ pc' = CASE ~obj'.id -> "release"
               [] obj'.id /\ obj'.cond = "none" -> "initiate"
               [] OTHER -> "deregister"
    /\ UNCHANGED <<registration, ko, koCache, flag, res, remote, asked, handler, todo, waitsFor, errors, bounds>>

\* BaseController.Reconcile calls delete only if Status.ID is set; delete goes
\* on where the condition says an earlier attempt has come to.
Begin ==
    /\ pc = "idle"
    /\ koCache[Leader] # None
    /\ koCache[Leader].deleting
    /\ obj' = koCache[Leader]
    /\ pc' = CASE ~obj'.id -> "release"
               [] obj'.id /\ obj'.cond = "none" -> "initiate"
               [] obj'.id /\ obj'.cond = "draining" -> "handle"
               [] obj'.id /\ obj'.cond = "completed" -> "deregister"
    /\ UNCHANGED <<registration, ko, koCache, flag, res, remote, asked, handler, todo, waitsFor, errors, bounds>>

\* A status write of the copy with changes new: a copy that is not the current
\* version is refused.
UpdateStatus(new, next) ==
    IF obj = ko
    THEN ko' = new /\ obj' = new /\ pc' = next /\ UNCHANGED <<handler, todo, waitsFor, errors>>
    ELSE GiveUp /\ UNCHANGED ko

Initiate ==
    /\ pc = "initiate"
    /\ UpdateStatus([obj EXCEPT !.cond = "draining"], "handle")
    /\ UNCHANGED <<registration, koCache, flag, res, remote, asked, bounds>>

\* HandleDrain up to the pause.
HandleDrain ==
    /\ pc = "handle"
    /\ flag' = [flag EXCEPT ![Leader] = TRUE]
    /\ pc' = "pause"
    /\ UNCHANGED <<registration, ko, koCache, res, remote, asked, obj, handler, todo, waitsFor, errors, bounds>>

\* Mutant of Pause: the errors of an earlier attempt are kept.
PauseKeepsErrors ==
    /\ pc = "pause"
    /\ "reconciles" \in PauseCovers => asked = {}
    /\ "notice" \in PauseCovers => \A p \in Procs : flag[p]
    /\ pc' = "list"
    /\ handler' = 1
    /\ todo' = {}
    /\ UNCHANGED <<registration, ko, koCache, flag, res, remote, asked, obj, waitsFor, errors, bounds>>

\* time.Sleep: long enough for the reconciles that were told otherwise to add
\* their finalizer and for the leader's cache to show it ("reconciles"), and for
\* every process to reconcile something and notice ("notice").
Pause ==
    /\ pc = "pause"
    /\ "reconciles" \in PauseCovers => asked = {}
    /\ "notice" \in PauseCovers => \A p \in Procs : flag[p]
    /\ pc' = "list"
    /\ handler' = 1
    /\ errors' = FALSE
    /\ todo' = {}
    /\ UNCHANGED <<registration, ko, koCache, flag, res, remote, asked, obj, waitsFor, bounds>>

\* drainList lists the resources of a handler and keeps those with the finalizer.
DrainList ==
    /\ pc = "list"
    /\ todo' = {r \in Handlers[handler] : HasFinalizer(r)}
    /\ pc' = "items"
    /\ UNCHANGED <<registration, ko, koCache, flag, res, remote, asked, obj, handler, waitsFor, errors, bounds>>

\* Mutant of DrainListFails: the error of a list is dropped.
DrainListIgnored ==
    /\ pc = "list"
    /\ Fail
    /\ todo' = {}
    /\ pc' = "items"
    /\ UNCHANGED <<registration, ko, koCache, flag, res, remote, asked, obj, handler, waitsFor, errors>>

DrainListFails ==
    /\ pc = "list"
    /\ Fail
    /\ errors' = TRUE
    /\ todo' = {}
    /\ pc' = "items"
    /\ UNCHANGED <<registration, ko, koCache, flag, res, remote, asked, obj, handler, waitsFor>>

\* What stripping the finalizer makes of a resource.
Stripped(r) ==
    CASE res[r] = "held" -> "bare"
      [] res[r] = "deleting" -> "absent"
      [] OTHER -> res[r]

StripOnly(r) == r \in UserResources \/ Policy = "Retain"

\* drainUserResource, and drainOperatorResource with policy Retain: the patch of
\* a resource that is gone fails.
Strip(r) ==
    /\ pc = "items"
    /\ r \in todo
    /\ StripOnly(r)
    /\ res' = [res EXCEPT ![r] = Stripped(r)]
    /\ errors' = (errors \/ res[r] = "absent")
    /\ todo' = todo \ {r}
    /\ UNCHANGED <<registration, ko, koCache, flag, remote, asked, pc, obj, handler, waitsFor, bounds>>

\* Mutant of DeleteResource: the finalizer is removed before the deletion.
DeleteResourceStripped(r) ==
    /\ pc = "items"
    /\ r \in todo
    /\ ~StripOnly(r)
    /\ res' = [res EXCEPT ![r] = "absent"]
    /\ todo' = todo \ {r}
    /\ UNCHANGED <<registration, ko, koCache, flag, remote, asked, pc, obj, handler, waitsFor, errors, bounds>>

\* drainOperatorResource with policy Delete: one that is gone already counts as
\* done, the others are deleted and waited for.
DeleteResource(r) ==
    /\ pc = "items"
    /\ r \in todo
    /\ ~StripOnly(r)
    /\ IF res[r] = "absent"
       THEN todo' = todo \ {r} /\ UNCHANGED <<pc, waitsFor, res>>
       ELSE /\ res' = [res EXCEPT ![r] = IF HasFinalizer(r) THEN "deleting" ELSE "absent"]
            /\ waitsFor' = {r}
            /\ pc' = "wait"
            /\ UNCHANGED todo
    /\ UNCHANGED <<registration, ko, koCache, flag, remote, asked, obj, handler, errors, bounds>>

\* A patch or a delete fails.
DrainOneFails(r) ==
    /\ pc = "items"
    /\ r \in todo
    /\ Fail
    /\ errors' = TRUE
    /\ todo' = todo \ {r}
    /\ UNCHANGED <<registration, ko, koCache, flag, res, remote, asked, pc, obj, handler, waitsFor>>

WaitEnds ==
    /\ pc' = "items"
    /\ todo' = todo \ waitsFor
    /\ waitsFor' = {}
    /\ UNCHANGED <<registration, ko, koCache, flag, res, remote, asked, obj, handler>>

\* waitForDeletion finds the resource gone.
WaitForDeletion ==
    /\ pc = "wait"
    /\ \A r \in waitsFor : res[r] = "absent"
    /\ WaitEnds
    /\ UNCHANGED <<errors, bounds>>

\* The 60 seconds pass first: certain when somebody made the resource again,
\* otherwise one of the bounded failures.
WaitTimesOut ==
    /\ pc = "wait"
    /\ IF \E r \in waitsFor : res[r] \in {"bare", "held"} THEN UNCHANGED bounds ELSE Fail
    /\ errors' = TRUE
    /\ WaitEnds

\* The list is done: the next handler, or DrainAll returns.
NextHandler ==
    /\ pc = "items"
    /\ todo = {}
    /\ handler' = handler + 1
    /\ pc' = IF handler < Len(Handlers) THEN "list" ELSE "report"
    /\ UNCHANGED <<registration, ko, koCache, flag, res, remote, asked, obj, todo, waitsFor, errors, bounds>>

\* With errors the drain is retried; without, it is recorded as completed.
Report ==
    /\ pc = "report"
    /\ IF errors
       THEN GiveUp /\ UNCHANGED ko
       ELSE UpdateStatus([obj EXCEPT !.cond = "completed"], "deregister")
    /\ UNCHANGED <<registration, koCache, flag, res, remote, asked, bounds>>

\* The registration is deleted in the ngrok API; "not found" counts as deleted.
Deregister ==
    /\ pc = "deregister"
    /\ registration' = FALSE
    /\ pc' = "forget"
    /\ UNCHANGED <<ko, koCache, flag, res, remote, asked, obj, handler, todo, waitsFor, errors, bounds>>

Forget ==
    /\ pc = "forget"
    /\ UpdateStatus([obj EXCEPT !.id = FALSE], "release")
    /\ UNCHANGED <<registration, koCache, flag, res, remote, asked, bounds>>

\* BaseController removes the finalizer: the KubernetesOperator is gone.
Release ==
    /\ pc = "release"
    /\ ko' = None
    /\ GiveUp
    /\ UNCHANGED <<registration, koCache, flag, res, remote, asked, bounds>>

\* A status write, or a call of the ngrok API, fails.
OperatorCallFails ==
    /\ pc \in {"initiate", "report", "deregister", "forget", "release"}
    /\ Fail
    /\ GiveUp
    /\ UNCHANGED <<registration, ko, koCache, flag, res, remote, asked>>

-----------------------------------------------------------------------------

Drainer ==
    \/ DrainList
    \/ \E r \in Resources : Strip(r) \/ DeleteResource(r)
    \/ WaitForDeletion
    \/ WaitTimesOut
    \/ NextHandler

DrainerFails == DrainListFails \/ \E r \in Resources : DrainOneFails(r)

Operator ==
    \/ Begin
    \/ Initiate
    \/ HandleDrain
    \/ Pause
    \/ Report
    \/ Deregister
    \/ Forget
    \/ Release

Controllers ==
    \E p \in Procs :
        \/ Notice(p)
        \/ \E r \in Resources : Upsert(p, r) \/ RegisterFinalizer(p, r) \/ Finalize(p, r)

Users ==
    \/ UserDeletesOperator
    \/ \E r \in Resources : UserCreates(r) \/ UserDeletes(r)

\* The KubernetesOperator is gone: nothing has to happen any more.
Done ==
    /\ ko = None
    /\ pc = "idle"
    /\ UNCHANGED vars

Next ==
    \/ Users
    \/ Controllers
    \/ Operator
    \/ Drainer
    \/ DrainerFails
    \/ OperatorCallFails
    \/ \E p \in Procs : CacheCatchesUp(p) \/ Restart(p)
    \/ Done

Spec == Init /\ [][Next]_vars

\* Informers deliver; every process keeps reconciling (so it asks IsDraining and
\* finishes what it began); the leader's worker goes on with the drain.
Fairness ==
    /\ \A p \in Procs :
          /\ WF_vars(CacheCatchesUp(p))
          /\ WF_vars(Notice(p))
          /\ \A r \in Resources : WF_vars(RegisterFinalizer(p, r)) /\ WF_vars(Finalize(p, r))
    /\ WF_vars(Operator \/ Drainer)

FairSpec == Spec /\ Fairness

-----------------------------------------------------------------------------
(***************************************************************************)
(* Properties.                                                             *)
(***************************************************************************)

\* The KubernetesOperator says, or said before it was released, that the drain
\* is over.
Drained == ko = None \/ ko.cond = "completed"

\* When the drain is over no managed resource carries the finalizer, then and
\* ever after, however reconciles, deletions, failed calls and retries
\* interleave with it: "Both policies remove finalizers from all managed
\* Kubernetes resources" (docs/uninstall.md).
FinalizersGone == Drained => \A r \in Managed : ~HasFinalizer(r)

\* With policy Delete nothing of the operator is left in the ngrok API when the
\* drain is over, although resources are deleted by other controllers in other
\* processes while the drain only waits.
RemotesDeleted == Policy = "Delete" /\ Drained => remote \cap Managed = {}

\* From the end of the pause on no resource gets the finalizer, so what the
\* drain has dealt with stays dealt with: "During drain, create/update
\* reconciles are skipped (no new finalizers are added)"
\* (specs/features/draining.md).
NoNewFinalizers ==
    [][Drained \/ pc \in {"list", "items", "wait", "report"}
          => \A r \in Managed : res'[r] = "held" => res[r] = "held"]_vars

\* The registration is removed after the drain and before the KubernetesOperator
\* is released, across crashes and conflicts: neither is an operator without
\* registration draining, nor a registration left when the resource is gone.
DeregisteredInOrder ==
    Registered =>
        /\ ~registration => Drained
        /\ ko = None => ~registration

\* The drain of one installation leaves the resources of another alone: "drain
\* only affects resources managed by that instance: Ingress: Filtered by
\* IngressClass" (docs/uninstall.md).
SparesForeign ==
    [][\A r \in Foreign : res[r] = "held" => res'[r] = "held"]_vars

\* A deletion of the KubernetesOperator comes to its end once calls stop failing,
\* although the drain waits for controllers that are told to skip reconciles.
DrainEnds == ko # None /\ ko.deleting ~> ko = None

=============================================================================
