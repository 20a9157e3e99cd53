---------------------------- MODULE SyncDebounce ----------------------------
(***************************************************************************)
(* The sync debouncer of the manager driver (pkg/managerdriver/driver.go)  *)
(* and the reconcilers that call it.                                       *)
(*                                                                         *)
(* Every reconciler that feeds the driver's store ends in a call of Sync   *)
(* (Ingress, Gateway, routes, Namespace, ReferenceGrant) or SyncEndpoints  *)
(* (NgrokTrafficPolicy).  One call at a time does the work; a call that    *)
(* arrives while another runs parks on a channel, and is either overtaken  *)
(* by a later call (it then returns nil) or released by syncDone (it then  *)
(* returns ErrSyncRequeue and its key is reconciled again).                *)
(*                                                                         *)
(* The store is abstracted to what the debouncer owes its callers: a key   *)
(* is in owedDomains (owedEndpoints) from the moment its reconciler calls  *)
(* syncStart until some sync that read the store after that moment has     *)
(* applied the domains (the endpoints).                                    *)
(***************************************************************************)
EXTENDS Naturals, FiniteSets

CONSTANTS
    Keys,          \* objects that are reconciled: the items of the work queues
    Full,          \* those whose reconciler calls Sync; the others call SyncEndpoints
    ControllerOf,  \* the controller of each key; a controller has one worker
    SkipKeys,      \* keys a user may edit so that Reconcile returns before the call
    NoCh,          \* a nil channel
    MaxEvents,     \* bound on watch events
    MaxFailures,   \* bound on syncs that return an error
    MaxRestarts    \* bound on restarts of the api-manager process

ASSUME SyncDebounceAssumption ==
    /\ Full \subseteq Keys
    /\ SkipKeys \subseteq Keys
    /\ NoCh \notin Keys
    /\ MaxEvents \in Nat
    /\ MaxFailures \in Nat
    /\ MaxRestarts \in Nat

VARIABLES
    syncRunning,    \* Driver.syncRunning
    syncFullCh,     \* Driver.syncFullCh: the key parked on it, or NoCh
    syncPartialCh,  \* Driver.syncPartialCh
    ch,             \* the channel each parked call waits on
    pc,             \* where the reconcile of each key is
    queue,          \* keys in the work queues, RequeueAfter timers included
    draining,       \* what drain.IsDraining answers in this process
    owedDomains, owedEndpoints,   \* calls whose store changes are not applied
    snapDomains, snapEndpoints,   \* of those, the ones the running sync has read
    events, failures, restarts    \* what the environment has used of its bounds

debounce == <<syncRunning, syncFullCh, syncPartialCh, ch>>
owed == <<owedDomains, owedEndpoints, snapDomains, snapEndpoints>>
env == <<events, failures, restarts>>
vars == <<debounce, pc, queue, draining, owed, env>>

Running == {"readDomains", "translate", "applyDomains", "applyEndpoints", "finish"}

TypeOK ==
    /\ syncRunning \in BOOLEAN
    /\ syncFullCh \in Full \cup {NoCh}
    /\ syncPartialCh \in (Keys \ Full) \cup {NoCh}
    /\ ch \in [Keys -> {"none", "open", "closed", "sent"}]
    /\ pc \in [Keys -> {"idle", "calling", "waiting"} \cup Running]
    /\ queue \subseteq Keys
    /\ draining \in BOOLEAN
    /\ owedDomains \subseteq Full
    /\ owedEndpoints \subseteq Keys
    /\ snapDomains \subseteq owedDomains
    /\ snapEndpoints \subseteq owedEndpoints
    /\ events \in 0..MaxEvents
    /\ failures \in 0..MaxFailures
    /\ restarts \in 0..MaxRestarts

\* At start-up every object is delivered by the informers' initial list.
Init ==
    /\ syncRunning = FALSE
    /\ syncFullCh = NoCh
    /\ syncPartialCh = NoCh
    /\ ch = [k \in Keys |-> "none"]
    /\ pc = [k \in Keys |-> "idle"]
    /\ queue = Keys
    /\ draining = FALSE
    /\ owedDomains = {}
    /\ owedEndpoints = {}
    /\ snapDomains = {}
    /\ snapEndpoints = {}
    /\ events = 0
    /\ failures = 0
    /\ restarts = 0

(***************************************************************************)
(* The environment: watch events, the start of a drain, a restart.         *)
(***************************************************************************)
WatchEvent(k) ==
    /\ events < MaxEvents
    /\ events' = events + 1
    /\ queue' = queue \cup {k}
    /\ UNCHANGED <<debounce, pc, draining, owed, failures, restarts>>

SetDraining ==
    /\ ~draining
    /\ draining' = TRUE
    /\ UNCHANGED <<debounce, pc, queue, owed, env>>

\* The process ends and a new one (or another replica) takes the lease: the
\* debouncer's memory is lost and the initial list queues every key again.
Restart ==
    /\ restarts < MaxRestarts
    /\ restarts' = restarts + 1
    /\ syncRunning' = FALSE
    /\ syncFullCh' = NoCh
    /\ syncPartialCh' = NoCh
    /\ ch' = [k \in Keys |-> "none"]
    /\ pc' = [k \in Keys |-> "idle"]
    /\ queue' = Keys
    /\ snapDomains' = {}
    /\ snapEndpoints' = {}
    /\ UNCHANGED <<draining, owedDomains, owedEndpoints, events, failures>>

(***************************************************************************)
(* The reconcilers up to the call.                                         *)
(***************************************************************************)

\* The controller's worker takes k from the queue.  A key that is being
\* reconciled, or whose controller is busy, stays in the queue.
Dequeued(k) ==
    /\ k \in queue
    /\ \A j \in Keys : ControllerOf[j] = ControllerOf[k] => pc[j] = "idle"
    /\ queue' = queue \ {k}

\* Reconcile reaches the call of Sync or SyncEndpoints.  Sync, and the
\* reconcilers that call it, have asked IsDraining before; SyncEndpoints and
\* the NgrokTrafficPolicy reconciler do not ask.
Reconcile(k) ==
    /\ Dequeued(k)
    /\ k \in Full => ~draining
    /\ pc' = [pc EXCEPT ![k] = "calling"]
    /\ UNCHANGED <<debounce, draining, owed, env>>

\* Reconcile returns nil before the call: the operator is draining, or the
\* object is one this reconciler no longer handles (an Ingress of another
\* class or with an invalid spec, a route without an ngrok parent, a deleted
\* or malformed traffic policy).
ReturnBeforeSync(k) ==
    /\ Dequeued(k)
    /\ (k \in Full /\ draining) \/ k \in SkipKeys
    /\ UNCHANGED <<debounce, pc, draining, owed, env>>

(***************************************************************************)
(* syncStart.                                                              *)
(***************************************************************************)

\* Mutant of Owe: a change counts as read when an earlier one of its key is.
OweOnce(k) ==
    /\ owedDomains' = IF k \in Full THEN owedDomains \cup {k} ELSE owedDomains
    /\ owedEndpoints' = owedEndpoints \cup {k}
    /\ UNCHANGED <<snapDomains, snapEndpoints>>

\* From now on the debouncer owes k a sync that reads the store afresh.
Owe(k) ==
    /\ owedDomains' = IF k \in Full THEN owedDomains \cup {k} ELSE owedDomains
    /\ owedEndpoints' = owedEndpoints \cup {k}
    /\ snapDomains' = snapDomains \ {k}
    /\ snapEndpoints' = snapEndpoints \ {k}

\* Mutant of Overtaken: a full call forgets the partial call it overtakes.
OvertakenFullOnly(k) ==
    (IF k \in Full THEN {syncFullCh} ELSE {syncPartialCh}) \ {NoCh}

\* The parked calls that a call of k overtakes.
Overtaken(k) ==
    ((IF k \in Full THEN {syncFullCh} ELSE {}) \cup {syncPartialCh}) \ {NoCh}

\* Mutant of SyncStartProceed: the test of syncRunning is forgotten.
SyncStartProceedUnguarded(k) ==
    /\ pc[k] = "calling"
    /\ syncRunning' = TRUE
    /\ pc' = [pc EXCEPT ![k] = IF k \in Full THEN "readDomains" ELSE "translate"]
    /\ Owe(k)
    /\ UNCHANGED <<syncFullCh, syncPartialCh, ch, queue, draining, env>>

\* Nothing runs: proceed.
SyncStartProceed(k) ==
    /\ pc[k] = "calling"
    /\ ~syncRunning
    /\ syncRunning' = TRUE
    /\ pc' = [pc EXCEPT ![k] = IF k \in Full THEN "readDomains" ELSE "translate"]
    /\ Owe(k)
    /\ UNCHANGED <<syncFullCh, syncPartialCh, ch, queue, draining, env>>

\* Mutant of SyncStartIgnored: a partial call is ignored while any sync runs.
SyncStartIgnoredEarly(k) ==
    /\ pc[k] = "calling"
    /\ syncRunning
    /\ k \notin Full
    /\ pc' = [pc EXCEPT ![k] = "idle"]
    /\ Owe(k)
    /\ UNCHANGED <<debounce, queue, draining, env>>

\* A full sync is already waiting: a partial call returns nil at once.
SyncStartIgnored(k) ==
    /\ pc[k] = "calling"
    /\ syncRunning
    /\ k \notin Full
    /\ syncFullCh # NoCh
    /\ pc' = [pc EXCEPT ![k] = "idle"]
    /\ Owe(k)
    /\ UNCHANGED <<debounce, queue, draining, env>>

\* Overtake whoever waits and take the waiting position.
SyncStartPark(k) ==
    /\ pc[k] = "calling"
    /\ syncRunning
    /\ k \in Full \/ syncFullCh = NoCh
    /\ syncFullCh' = IF k \in Full THEN k ELSE syncFullCh
    /\ syncPartialCh' = IF k \in Full THEN NoCh ELSE k
    /\ ch' = [j \in Keys |-> IF j = k THEN "open"
                             ELSE IF j \in Overtaken(k) THEN "closed" ELSE ch[j]]
    /\ pc' = [pc EXCEPT ![k] = "waiting"]
    /\ Owe(k)
    /\ UNCHANGED <<syncRunning, queue, draining, env>>

\* Mutant of WaitReturn: a value that is received is ignored, and the wait goes on.
WaitReturnSpins(k) ==
    /\ pc[k] = "waiting"
    /\ ch[k] \in {"closed", "sent"}
    /\ pc' = [pc EXCEPT ![k] = IF ch[k] = "closed" THEN "idle" ELSE "waiting"]
    /\ ch' = [ch EXCEPT ![k] = IF ch[k] = "closed" THEN "none" ELSE "sent"]
    /\ UNCHANGED <<syncRunning, syncFullCh, syncPartialCh, queue, draining, owed, env>>

\* The wait function returns: nil after a close, ErrSyncRequeue after a send,
\* which HandleSyncResult turns into a requeue.
WaitReturn(k) ==
    /\ pc[k] = "waiting"
    /\ ch[k] \in {"closed", "sent"}
    /\ queue' = IF ch[k] = "sent" THEN queue \cup {k} ELSE queue
    /\ pc' = [pc EXCEPT ![k] = "idle"]
    /\ ch' = [ch EXCEPT ![k] = "none"]
    /\ UNCHANGED <<syncRunning, syncFullCh, syncPartialCh, draining, owed, env>>

(***************************************************************************)
(* The body of Sync and SyncEndpoints.                                     *)
(***************************************************************************)

\* calculateDomainSet reads the store.
CalculateDomainSet(k) ==
    /\ pc[k] = "readDomains"
    /\ snapDomains' = owedDomains
    /\ pc' = [pc EXCEPT ![k] = "translate"]
    /\ UNCHANGED <<debounce, queue, draining, owedDomains, owedEndpoints, snapEndpoints, env>>

\* Translate reads the store; then the current endpoints are listed.
Translate(k) ==
    /\ pc[k] = "translate"
    /\ snapEndpoints' = owedEndpoints
    /\ pc' = [pc EXCEPT ![k] = IF k \in Full THEN "applyDomains" ELSE "applyEndpoints"]
    /\ UNCHANGED <<debounce, queue, draining, owedDomains, owedEndpoints, snapDomains, env>>

ApplyDomains(k) ==
    /\ pc[k] = "applyDomains"
    /\ owedDomains' = owedDomains \ snapDomains
    /\ snapDomains' = {}
    /\ pc' = [pc EXCEPT ![k] = "applyEndpoints"]
    /\ UNCHANGED <<debounce, queue, draining, owedEndpoints, snapEndpoints, env>>

\* applyAgentEndpoints and applyCloudEndpoints.
ApplyEndpoints(k) ==
    /\ pc[k] = "applyEndpoints"
    /\ owedEndpoints' = owedEndpoints \ snapEndpoints
    /\ snapEndpoints' = {}
    /\ pc' = [pc EXCEPT ![k] = "finish"]
    /\ UNCHANGED <<debounce, queue, draining, owedDomains, snapDomains, env>>

\* Every parked call is sent a value; the channels are closed and forgotten.
SyncDone ==
    /\ ch' = [j \in Keys |-> IF j \in {syncFullCh, syncPartialCh} THEN "sent" ELSE ch[j]]
    /\ syncFullCh' = NoCh
    /\ syncPartialCh' = NoCh
    /\ syncRunning' = FALSE

\* The statuses are written and the call returns nil.
SyncReturnNil(k) ==
    /\ pc[k] = "finish"
    /\ SyncDone
    /\ pc' = [pc EXCEPT ![k] = "idle"]
    /\ UNCHANGED <<queue, draining, owed, env>>

\* A list, an apply or (in Sync) the status update fails: the call returns the
\* error and the work queue retries the key.
SyncReturnError(k) ==
    /\ failures < MaxFailures
    /\ failures' = failures + 1
    /\ \/ pc[k] \in {"applyDomains", "applyEndpoints"}
       \/ pc[k] = "finish" /\ k \in Full
    /\ SyncDone
    /\ pc' = [pc EXCEPT ![k] = "idle"]
    /\ queue' = queue \cup {k}
    /\ snapDomains' = {}
    /\ snapEndpoints' = {}
    /\ UNCHANGED <<draining, owedDomains, owedEndpoints, events, restarts>>

-----------------------------------------------------------------------------

SyncStart(k) == SyncStartProceed(k) \/ SyncStartIgnored(k) \/ SyncStartPark(k)

SyncBody(k) ==
    \/ CalculateDomainSet(k)
    \/ Translate(k)
    \/ ApplyDomains(k)
    \/ ApplyEndpoints(k)
    \/ SyncReturnNil(k)

Worker(k) ==
    \/ Reconcile(k)
    \/ ReturnBeforeSync(k)
    \/ SyncStart(k)
    \/ WaitReturn(k)
    \/ SyncBody(k)

\* Nothing to do until the next watch event.  With this step a deadlock TLC
\* reports is one of the debouncer: a worker that waits and can never go on.
Quiescent ==
    /\ queue = {}
    /\ \A k \in Keys : pc[k] = "idle"
    /\ UNCHANGED vars

Next ==
    \/ \E k \in Keys : WatchEvent(k) \/ Worker(k) \/ SyncReturnError(k)
    \/ SetDraining
    \/ Restart
    \/ Quiescent

Spec == Init /\ [][Next]_vars

\* A goroutine that can take a step takes it, and a key whose controller is
\* free again and again is taken from the queue (client-go work queues are FIFO).
Fairness ==
    \A k \in Keys :
        /\ WF_vars(SyncStart(k) \/ WaitReturn(k) \/ SyncBody(k))
        /\ SF_vars(Reconcile(k) \/ ReturnBeforeSync(k))

FairSpec == Spec /\ Fairness

-----------------------------------------------------------------------------
(***************************************************************************)
(* Properties.                                                             *)
(***************************************************************************)

\* j will call syncStart (again): it is queued, about to call, or parked on a
\* channel that syncDone has sent, or will send, a value on.
WillSync(j) ==
    \/ j \in queue
    \/ pc[j] = "calling"
    \/ pc[j] = "waiting" /\ ch[j] \in {"open", "sent"}

EndpointsCovered(k) ==
    \E j \in Keys :
        \/ WillSync(j)
        \/ pc[j] \in {"readDomains", "translate"}
        \/ pc[j] \in {"applyDomains", "applyEndpoints"} /\ k \in snapEndpoints

DomainsCovered(k) ==
    \E j \in Full :
        \/ WillSync(j)
        \/ pc[j] = "readDomains"
        \/ pc[j] \in {"translate", "applyDomains"} /\ k \in snapDomains

\* At most one Sync or SyncEndpoints body runs at a time, and syncRunning says
\* exactly whether one does: however calls, errors and restarts interleave,
\* syncStart never admits a second sync and syncDone never leaves the flag set.
OneSyncAtATime ==
    /\ \A j, k \in Keys : pc[j] \in Running /\ pc[k] \in Running => j = k
    /\ syncRunning <=> \E k \in Keys : pc[k] \in Running

\* No parked call is stranded: a call that still waits for its channel is the
\* one in the driver's waiting position, behind a sync that is running and
\* whose syncDone will release it.  At most one call holds that position.
NoStrandedWaiter ==
    /\ syncFullCh = NoCh \/ syncPartialCh = NoCh
    /\ \A k \in Keys :
          pc[k] = "waiting" /\ ch[k] = "open" =>
              /\ k \in {syncFullCh, syncPartialCh}
              /\ syncRunning

\* Nothing a caller put in the store is forgotten: as long as a call's changes
\* are not applied, the running sync has read them or has yet to read the
\* store, or some key will call syncStart again; and a change that needs a
\* full sync is never left to callers of SyncEndpoints.  This is what allows
\* syncStart to answer the callers it overtakes with success.
NoLostSync ==
    ~draining =>
        /\ \A k \in owedEndpoints \ SkipKeys : EndpointsCovered(k)
        /\ \A k \in owedDomains \ SkipKeys : DomainsCovered(k)

\* Every call's changes are applied in the end, the overtaken and the ignored
\* calls' too, unless the operator drains.  And no reconcile worker is blocked for ever in
\* the debouncer: it holds its controller's only slot while it waits, so this is also
\* what keeps the controller alive.
EventuallySynced ==
    \A k \in Keys :
        /\ k \in owedEndpoints ~> k \notin owedEndpoints \/ draining
        /\ k \in owedDomains ~> k \notin owedDomains \/ draining
        /\ pc[k] = "waiting" ~> pc[k] = "idle"

(***************************************************************************)
(* The abstract specification.                                             *)
(***************************************************************************)
Promise == INSTANCE SyncPromise WITH
    busy <- {k \in Keys : pc[k] \in Running},
    owed <- [p \in {"domains", "endpoints"} |-> IF p = "domains" THEN owedDomains ELSE owedEndpoints],
    read <- [p \in {"domains", "endpoints"} |-> IF p = "domains" THEN snapDomains ELSE snapEndpoints]

\* The debouncer implements SyncPromise: whatever is parked, overtaken, ignored,
\* retried or lost in a restart, every step of syncStart, syncDone and the bodies of
\* Sync and SyncEndpoints is a step of a service that runs one sync at a time and
\* discharges a call only by a sync that read the store after it.
KeepsPromise == Promise!Spec

=============================================================================
