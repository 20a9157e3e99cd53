--------------------------- MODULE BindingsProofs ---------------------------
(***************************************************************************)
(* The types and the inductive invariant of Bindings, and the proof that   *)
(* every step keeps it, hence that no live BoundEndpoint is left without   *)
(* Services or listeners with nothing to come for it, for any number of    *)
(* BoundEndpoints, ports, replicas and disturbances.                       *)
(***************************************************************************)
EXTENDS Bindings, TLAPS


(***************************************************************************)
(* Type correctness.                                                       *)
(***************************************************************************)

LEMMA IdleFields ==
    /\ Idle.pc = "idle" /\ Idle.name = None /\ Idle.obj = None /\ Idle.failed = FALSE
    /\ Idle \notin Works
  BY Zenon DEF Idle, Works

LEMMA FinalizerType ==
    ASSUME NEW o \in BoundEndpoints, NEW f \in BOOLEAN
    PROVE  LET c == [o EXCEPT !.finalizer = f]
           IN  /\ c \in BoundEndpoints
               /\ c.uid = o.uid /\ c.port = o.port /\ c.gen = o.gen /\ c.deleting = o.deleting
               /\ c.finalizer = f
  BY Zenon DEF BoundEndpoints

LEMMA DeletingType ==
    ASSUME NEW o \in BoundEndpoints
    PROVE  LET c == [o EXCEPT !.deleting = TRUE]
           IN  /\ c \in BoundEndpoints
               /\ c.uid = o.uid /\ c.port = o.port /\ c.gen = o.gen /\ c.deleting
  BY Zenon DEF BoundEndpoints

LEMMA GenType ==
    ASSUME NEW o \in BoundEndpoints, NEW g \in Versions
    PROVE  LET c == [o EXCEPT !.gen = g]
           IN  /\ c \in BoundEndpoints
               /\ c.uid = o.uid /\ c.port = o.port /\ c.gen = g /\ c.deleting = o.deleting
  BY Zenon DEF BoundEndpoints

LEMMA ServiceType ==
    ASSUME NEW n \in Names, NEW o \in BoundEndpoints
    PROVE  ServiceFor(n, o) \in Services /\ ServiceFor(n, o).name = n
  BY Zenon DEF BoundEndpoints, Services, ServiceFor

\* A process at a step of a reconcile has a name and a copy of its object.
LEMMA WorkType ==
    ASSUME TypeOK, NEW p \in Procs, work[p].pc # "idle"
    PROVE  /\ work[p] \in Works
           /\ work[p].name \in Names
           /\ work[p].obj \in BoundEndpoints
           /\ work[p].failed \in BOOLEAN
<1>1. work[p] \in Works
  BY IdleFields, Zenon DEF TypeOK
<1>2. QED
  BY <1>1, Zenon DEF Works

LEMMA ReturnType ==
    ASSUME TypeOK, NEW p \in Procs, NEW err \in BOOLEAN, work[p].pc # "idle", Return(p, err)
    PROVE  /\ work' \in [Procs -> Works \cup {Idle}]
           /\ queue' \in [Procs -> SUBSET Names]
<1>1. work[p].name \in Names
  BY WorkType, Zenon
<1>2. QED
  BY <1>1, Zenon DEF TypeOK, Return

LEMMA GoOnType ==
    ASSUME TypeOK, NEW p \in Procs, NEW step \in Steps \ {"idle"}, NEW o \in BoundEndpoints,
           NEW f \in BOOLEAN, work[p].pc # "idle", GoOn(p, step, o, f)
    PROVE  work' \in [Procs -> Works \cup {Idle}]
<1>1. work[p].name \in Names
  BY WorkType, Zenon
<1>2. [pc |-> step, name |-> work[p].name, obj |-> o, failed |-> f] \in Works
  BY <1>1, Zenon DEF Works
<1>3. QED
  BY <1>2, Zenon DEF TypeOK, GoOn

LEMMA FaultType ==
    ASSUME TypeOK, NEW kind, Fault(kind)
    PROVE  faults' \in 0..MaxFaults /\ want \in 0..faults' /\ want + 1 \in 0..faults'
  BY BindingsAssumption DEF TypeOK, Fault

LEMMA InitTypeOK == Init => TypeOK
<1> SUFFICES ASSUME Init
             PROVE  TypeOK
  OBVIOUS
<1>1. /\ be \in [Names -> BoundEndpoints \cup {None}]
      /\ cache \in [Procs -> [Names -> BoundEndpoints \cup {None}]]
      /\ queue \in [Procs -> SUBSET Names]
      /\ work \in [Procs -> Works \cup {Idle}]
  BY Zenon DEF Init
<1>2. /\ target \in [Targets -> Services \cup {None}]
      /\ upstream \in [Names -> Services \cup {None}]
      /\ listeners \in [Replicas -> [Ports -> Listeners \cup {None}]]
      /\ namespace \in BOOLEAN
      /\ \A t \in Targets : target[t] = None
      /\ draining \in BOOLEAN
      /\ clash \subseteq Ports
  BY Zenon DEF Init
<1>3. want \in 0..faults /\ objects \in 0..MaxObjects /\ faults \in 0..MaxFaults
  BY BindingsAssumption DEF Init
<1>4. QED
  BY <1>1, <1>2, <1>3, Zenon DEF TypeOK

LEMMA PollerType ==
    ASSUME TypeOK, Poller
    PROVE  TypeOK'
<1> USE DEF services, outside
<1>1. ASSUME NEW n \in Names, createBinding(n)
      PROVE  TypeOK'
  <2>1. PICK p \in Ports :
           /\ be' = [be EXCEPT ![n] = [uid |-> objects + 1, port |-> p, gen |-> want,
                                       deleting |-> FALSE, finalizer |-> FALSE]]
           /\ clash' = clash \cup {q \in {p} : \E m \in Names : be[m] # None /\ be[m].port = q}
    BY <1>1, Zenon DEF createBinding
  <2>2. objects' \in 0..MaxObjects /\ objects + 1 \in Uids
    BY <1>1, BindingsAssumption DEF TypeOK, createBinding, Uids
  <2>3. want \in Versions
    BY BindingsAssumption DEF TypeOK, Versions
  <2>4. [uid |-> objects + 1, port |-> p, gen |-> want, deleting |-> FALSE,
         finalizer |-> FALSE] \in BoundEndpoints
    BY <2>2, <2>3, Zenon DEF BoundEndpoints
  <2>5. be' \in [Names -> BoundEndpoints \cup {None}] /\ clash' \subseteq Ports
    BY <2>1, <2>4, Zenon DEF TypeOK
  <2>6. want \in 0..faults /\ faults \in 0..MaxFaults
    BY Zenon DEF TypeOK
  <2>7. /\ UNCHANGED <<cache, queue, work, target, upstream, namespace, listeners>>
        /\ UNCHANGED <<draining, want, faults>>
    BY <1>1, Zenon DEF createBinding
  <2>8. QED
    BY <2>2, <2>5, <2>6, <2>7, Zenon DEF TypeOK
<1>2. ASSUME NEW n \in Names, updateBinding(n)
      PROVE  TypeOK'
  <2>1. want \in Versions
    BY BindingsAssumption DEF TypeOK, Versions
  <2>2. be[n] \in BoundEndpoints
    BY <1>2, Zenon DEF TypeOK, updateBinding
  <2>3. be' \in [Names -> BoundEndpoints \cup {None}]
    BY <1>2, <2>1, <2>2, GenType, Zenon DEF TypeOK, updateBinding
  <2>4. QED
    BY <1>2, <2>3, Zenon DEF TypeOK, updateBinding
<1>3. ASSUME NEW n \in Names, deleteBinding(n)
      PROVE  TypeOK'
  <2>1. be[n] \in BoundEndpoints
    BY <1>3, Zenon DEF TypeOK, deleteBinding, Live
  <2>2. be' \in [Names -> BoundEndpoints \cup {None}]
    BY <1>3, <2>1, DeletingType, Zenon DEF TypeOK, deleteBinding
  <2>3. QED
    BY <1>3, <2>2, Zenon DEF TypeOK, deleteBinding
<1>4. CASE EndpointsChange
  <2>1. faults' \in 0..MaxFaults /\ want' \in 0..faults'
    BY <1>4, FaultType, Zenon DEF EndpointsChange
  <2>2. QED
    BY <1>4, <2>1, Zenon DEF TypeOK, EndpointsChange
<1>5. QED
  BY <1>1, <1>2, <1>3, <1>4, Zenon DEF Poller

LEMMA UsersType ==
    ASSUME TypeOK, Users
    PROVE  TypeOK'
<1> USE DEF services, outside
<1>1. ASSUME NEW n \in Names, UserDeletesService(n)
      PROVE  TypeOK'
  <2>1. faults' \in 0..MaxFaults /\ want \in 0..faults'
    BY <1>1, FaultType, Zenon DEF UserDeletesService
  <2>2. queue' \in [Procs -> SUBSET Names]
    <3>1. \A S : Owners(S) \subseteq Names
      BY Zenon DEF Owners
    <3>2. PICK S : queue' = [queue EXCEPT ![Manager] = @ \cup Owners(S)]
      BY <1>1, Zenon DEF UserDeletesService
    <3>3. QED
      BY <3>1, <3>2, Zenon DEF TypeOK
  <2>3. TargetOf[n] \in Targets
    BY Zenon DEF Targets
  <2>4. /\ target' \in [Targets -> Services \cup {None}]
        /\ upstream' \in [Names -> Services \cup {None}]
        /\ \A t \in Targets : target[t] = None => target'[t] = None
    BY <1>1, <2>3, Zenon DEF TypeOK, UserDeletesService
  <2>5. QED
    BY <1>1, <2>1, <2>2, <2>4, Zenon DEF TypeOK, UserDeletesService
<1>2. CASE UserDeletesNamespace
  <2>1. faults' \in 0..MaxFaults /\ want \in 0..faults'
    BY <1>2, FaultType, Zenon DEF UserDeletesNamespace
  <2>2. queue' \in [Procs -> SUBSET Names]
    BY <1>2, Zenon DEF TypeOK, UserDeletesNamespace, Owners
  <2>3. QED
    BY <1>2, <2>1, <2>2, Zenon DEF TypeOK, UserDeletesNamespace
<1>3. CASE UserCreatesNamespace
  <2>1. queue' \in [Procs -> SUBSET Names]
    BY <1>3, Zenon DEF TypeOK, UserCreatesNamespace
  <2>2. QED
    BY <1>3, <2>1, Zenon DEF TypeOK, UserCreatesNamespace
<1>4. QED
  BY <1>1, <1>2, <1>3, Zenon DEF Users

LEMMA SystemType ==
    ASSUME TypeOK,
           \/ SetDraining
           \/ \E n \in Names : Refresh(n)
           \/ \E p \in Procs : \/ CacheCatchesUp(p)
                               \/ Crash(p)
                               \/ \E n \in Names : Reconcile(p, n)
    PROVE  TypeOK'
<1> USE DEF services, outside
<1>1. CASE SetDraining
  <2>1. faults' \in 0..MaxFaults /\ want \in 0..faults'
    BY <1>1, FaultType, Zenon DEF SetDraining
  <2>2. QED
    BY <1>1, <2>1, Zenon DEF TypeOK, SetDraining
<1>2. ASSUME NEW n \in Names, Refresh(n)
      PROVE  TypeOK'
  <2>1. faults' \in 0..MaxFaults /\ want \in 0..faults'
    BY <1>2, FaultType, Zenon DEF Refresh
  <2>2. queue' \in [Procs -> SUBSET Names]
    BY <1>2, Zenon DEF TypeOK, Refresh
  <2>3. QED
    BY <1>2, <2>1, <2>2, Zenon DEF TypeOK, Refresh
<1>3. ASSUME NEW p \in Procs, CacheCatchesUp(p)
      PROVE  TypeOK'
  <2>1. /\ queue' \in [Procs -> SUBSET Names]
        /\ cache' \in [Procs -> [Names -> BoundEndpoints \cup {None}]]
    BY <1>3, Zenon DEF TypeOK, CacheCatchesUp
  <2>2. QED
    BY <1>3, <2>1, Zenon DEF TypeOK, CacheCatchesUp
<1>4. ASSUME NEW p \in Procs, Crash(p)
      PROVE  TypeOK'
  <2>1. faults' \in 0..MaxFaults /\ want \in 0..faults'
    BY <1>4, FaultType, Zenon DEF Crash
  <2>2. /\ queue' \in [Procs -> SUBSET Names]
        /\ cache' \in [Procs -> [Names -> BoundEndpoints \cup {None}]]
        /\ work' \in [Procs -> Works \cup {Idle}]
    BY <1>4, Zenon DEF TypeOK, Crash
  <2>3. listeners' \in [Replicas -> [Ports -> Listeners \cup {None}]]
    BY <1>4, Zenon DEF TypeOK, Crash
  <2>4. QED
    BY <1>4, <2>1, <2>2, <2>3, Zenon DEF TypeOK, Crash
<1>5. ASSUME NEW p \in Procs, NEW n \in Names, Reconcile(p, n)
      PROVE  TypeOK'
  <2> DEFINE next == Branch(p, cache[p][n])
             w == [pc |-> next, name |-> n, obj |-> cache[p][n], failed |-> FALSE]
  <2>1. next # "idle" => cache[p][n] \in BoundEndpoints /\ next \in Steps
    BY Zenon DEF TypeOK, Branch, UpsertStep, DeleteStep, Steps
  <2>2. next # "idle" => w \in Works
    BY <2>1, Zenon DEF Works
  <2>3. work' = [work EXCEPT ![p] = IF next = "idle" THEN Idle ELSE w]
    BY <1>5, Zenon DEF Reconcile
  <2> HIDE DEF next, w
  <2>4. work' \in [Procs -> Works \cup {Idle}]
    BY <2>2, <2>3, Zenon DEF TypeOK
  <2>5. queue' \in [Procs -> SUBSET Names]
    BY <1>5, Zenon DEF TypeOK, Reconcile
  <2>6. QED
    BY <1>5, <2>4, <2>5, Zenon DEF TypeOK, Reconcile
<1>6. QED
  BY <1>1, <1>2, <1>3, <1>4, <1>5, Zenon

LEMMA StepType ==
    ASSUME TypeOK, NEW p \in Procs, Step(p)
    PROVE  TypeOK'
<1> USE DEF services, outside
<1>1. CASE RegisterFinalizer(p)
  <2> DEFINE n == work[p].name
  <2>1. work[p].pc = "register" /\ n \in Names
    BY <1>1, WorkType, Zenon DEF RegisterFinalizer
  <2>2. CASE be[n] = None
    <3>1. Return(p, TRUE) /\ be' = be
      BY <1>1, <2>2, Zenon DEF RegisterFinalizer
    <3>2. QED
      BY <1>1, <2>1, <3>1, ReturnType, Zenon DEF TypeOK, RegisterFinalizer
  <2>3. CASE be[n] # None
    <3>1. be[n] \in BoundEndpoints
      BY <2>1, <2>3, Zenon DEF TypeOK
    <3>2. be' = [be EXCEPT ![n] = [be[n] EXCEPT !.finalizer = TRUE]] /\ queue' = queue
      BY <1>1, <2>3, Zenon DEF RegisterFinalizer
    <3>3. be' \in [Names -> BoundEndpoints \cup {None}] /\ be'[n] \in BoundEndpoints
      BY <2>1, <3>1, <3>2, FinalizerType, Zenon DEF TypeOK
    <3>4. GoOn(p, UpsertStep(p), be'[n], FALSE) /\ UpsertStep(p) \in Steps \ {"idle"}
      BY <1>1, <2>3, Zenon DEF RegisterFinalizer, UpsertStep, Steps
    <3>5. work' \in [Procs -> Works \cup {Idle}]
      BY <2>1, <3>3, <3>4, GoOnType, Zenon
    <3>6. QED
      BY <1>1, <3>2, <3>3, <3>5, Zenon DEF TypeOK, RegisterFinalizer
  <2>4. QED
    BY <2>2, <2>3, Zenon
<1>2. CASE RemoveFinalizer(p)
  <2> DEFINE n == work[p].name
  <2>1. work[p].pc = "unregister" /\ n \in Names
    BY <1>2, WorkType, Zenon DEF RemoveFinalizer
  <2>2. PICK err \in BOOLEAN : Return(p, err)
    BY <1>2, Zenon DEF RemoveFinalizer
  <2>3. be' \in [Names -> BoundEndpoints \cup {None}]
    <3>1. CASE be[n] = None
      BY <1>2, <3>1, Zenon DEF TypeOK, RemoveFinalizer
    <3>2. CASE be[n] # None
      <4>1. be[n] \in BoundEndpoints
        BY <2>1, <3>2, Zenon DEF TypeOK
      <4>2. [be[n] EXCEPT !.finalizer = FALSE] \in BoundEndpoints
        BY <4>1, FinalizerType, Zenon
      <4>3. QED
        BY <1>2, <3>2, <4>2, Zenon DEF TypeOK, RemoveFinalizer
    <3>3. QED
      BY <3>1, <3>2, Zenon
  <2>4. work' \in [Procs -> Works \cup {Idle}] /\ queue' \in [Procs -> SUBSET Names]
    BY <2>1, <2>2, ReturnType, Zenon
  <2>5. QED
    BY <1>2, <2>3, <2>4, Zenon DEF TypeOK, RemoveFinalizer
<1>3. CASE p = Manager /\ BoundEndpointSteps
  <2>1. mgr.pc # "idle"
    BY <1>3, Zenon DEF BoundEndpointSteps, UpdateUpstream, UpdateTarget, UpdateServiceFails,
                UpdateStatus, UpdateStatusFails, DeleteTarget, DeleteUpstream, DeleteServiceFails
  <2>2. /\ mgr.name \in Names
        /\ mgr.obj \in BoundEndpoints
        /\ mgr.failed \in BOOLEAN
        /\ ServiceFor(mgr.name, mgr.obj) \in Services
        /\ TargetOf[mgr.name] \in Targets
    BY <1>3, <2>1, WorkType, ServiceType, Zenon DEF mgr, Targets
  <2>3. ASSUME NEW step \in {"target", "status", "unregister", "deleteUpstream"},
               NEW f \in BOOLEAN, GoOn(Manager, step, mgr.obj, f)
        PROVE  work' \in [Procs -> Works \cup {Idle}]
    BY <1>3, <2>1, <2>2, <2>3, GoOnType, Zenon DEF mgr, Steps
  <2>4. ASSUME NEW err \in BOOLEAN, Return(Manager, err)
        PROVE  work' \in [Procs -> Works \cup {Idle}] /\ queue' \in [Procs -> SUBSET Names]
    BY <1>3, <2>1, <2>4, ReturnType, Zenon DEF mgr
  <2>5. ASSUME Fault("service")
        PROVE  faults' \in 0..MaxFaults /\ want \in 0..faults'
    BY <2>5, FaultType, Zenon
  <2>6. CASE UpdateUpstream
    <3>1. work' \in [Procs -> Works \cup {Idle}]
      BY <2>3, <2>6, Zenon DEF UpdateUpstream
    <3>2. upstream' \in [Names -> Services \cup {None}]
      BY <2>2, <2>6, Zenon DEF TypeOK, UpdateUpstream
    <3>3. QED
      BY <2>6, <3>1, <3>2, Zenon DEF TypeOK, UpdateUpstream
  <2>7. CASE UpdateTarget
    <3>1. work' \in [Procs -> Works \cup {Idle}]
      BY <2>3, <2>7, Zenon DEF UpdateTarget
    <3>2. target' \in [Targets -> Services \cup {None}]
      BY <2>2, <2>7, Zenon DEF TypeOK, UpdateTarget
    <3>3. QED
      BY <2>7, <3>1, <3>2, Zenon DEF TypeOK, UpdateTarget
  <2>8. CASE UpdateServiceFails
    <3>1. work' \in [Procs -> Works \cup {Idle}]
      BY <2>3, <2>8, Zenon DEF UpdateServiceFails
    <3>2. faults' \in 0..MaxFaults /\ want \in 0..faults'
      BY <2>5, <2>8, Zenon DEF TypeOK, UpdateServiceFails
    <3>3. QED
      BY <2>8, <3>1, <3>2, Zenon DEF TypeOK, UpdateServiceFails
  <2>9. CASE UpdateStatus
    <3>1. work' \in [Procs -> Works \cup {Idle}] /\ queue' \in [Procs -> SUBSET Names]
      BY <2>2, <2>4, <2>9, Zenon DEF UpdateStatus
    <3>2. QED
      BY <2>9, <3>1, Zenon DEF TypeOK, UpdateStatus
  <2>10. CASE UpdateStatusFails
    <3>1. work' \in [Procs -> Works \cup {Idle}] /\ queue' \in [Procs -> SUBSET Names]
      BY <2>4, <2>10, Zenon DEF UpdateStatusFails
    <3>2. faults' \in 0..MaxFaults /\ want \in 0..faults'
      BY <2>5, <2>10, Zenon DEF TypeOK, UpdateStatusFails
    <3>3. QED
      BY <2>10, <3>1, <3>2, Zenon DEF TypeOK, UpdateStatusFails
  <2>11. CASE DeleteTarget
    <3>1. PICK step \in {"unregister", "deleteUpstream"} : GoOn(Manager, step, mgr.obj, FALSE)
      BY <2>11, Zenon DEF DeleteTarget
    <3>2. work' \in [Procs -> Works \cup {Idle}]
      BY <2>3, <3>1, Zenon
    <3>3. /\ target' \in [Targets -> Services \cup {None}]
          /\ \A t \in Targets : target[t] = None => target'[t] = None
      BY <2>2, <2>11, Zenon DEF TypeOK, DeleteTarget
    <3>4. QED
      BY <2>11, <3>2, <3>3, Zenon DEF TypeOK, DeleteTarget
  <2>12. CASE DeleteUpstream
    <3>1. work' \in [Procs -> Works \cup {Idle}]
      BY <2>3, <2>12, Zenon DEF DeleteUpstream
    <3>2. upstream' \in [Names -> Services \cup {None}]
      BY <2>2, <2>12, Zenon DEF TypeOK, DeleteUpstream
    <3>3. QED
      BY <2>12, <3>1, <3>2, Zenon DEF TypeOK, DeleteUpstream
  <2>13. CASE DeleteServiceFails
    <3>1. work' \in [Procs -> Works \cup {Idle}] /\ queue' \in [Procs -> SUBSET Names]
      BY <2>4, <2>13, Zenon DEF DeleteServiceFails
    <3>2. faults' \in 0..MaxFaults /\ want \in 0..faults'
      BY <2>5, <2>13, Zenon DEF DeleteServiceFails
    <3>3. QED
      BY <2>13, <3>1, <3>2, Zenon DEF TypeOK, DeleteServiceFails
  <2>14. QED
    BY <1>3, <2>6, <2>7, <2>8, <2>9, <2>10, <2>11, <2>12, <2>13, Zenon DEF BoundEndpointSteps
<1>4. CASE p \in Replicas /\ ForwarderSteps(p)
  <2>1. work[p].pc # "idle"
    BY <1>4, Zenon DEF ForwarderSteps, Listen, ListenFails, Close
  <2>2. work[p].name \in Names /\ work[p].obj \in BoundEndpoints /\ work[p].obj.port \in Ports
    BY <2>1, WorkType, Zenon DEF BoundEndpoints
  <2>3. CASE Listen(p)
    <3>1. work' \in [Procs -> Works \cup {Idle}] /\ queue' \in [Procs -> SUBSET Names]
      BY <2>1, <2>3, ReturnType, Zenon DEF Listen
    <3>2. [name |-> work[p].name, uid |-> work[p].obj.uid] \in Listeners
      BY <2>2, Zenon DEF Listeners, BoundEndpoints
    <3>3. listeners' \in [Replicas -> [Ports -> Listeners \cup {None}]]
      BY <1>4, <2>2, <2>3, <3>2 DEF TypeOK, Listen
    <3>4. QED
      BY <2>3, <3>1, <3>3, Zenon DEF TypeOK, Listen
  <2>4. CASE ListenFails(p)
    <3>1. work' \in [Procs -> Works \cup {Idle}] /\ queue' \in [Procs -> SUBSET Names]
      BY <2>1, <2>4, ReturnType, Zenon DEF ListenFails
    <3>2. faults' \in 0..MaxFaults /\ want \in 0..faults'
      BY <2>4, FaultType, Zenon DEF ListenFails
    <3>3. QED
      BY <2>4, <3>1, <3>2, Zenon DEF TypeOK, ListenFails
  <2>5. CASE Close(p)
    <3>1. work' \in [Procs -> Works \cup {Idle}]
      BY <2>1, <2>2, <2>5, GoOnType, Zenon DEF Close, Steps
    <3>2. listeners' \in [Replicas -> [Ports -> Listeners \cup {None}]]
      BY <1>4, <2>2, <2>5, Zenon DEF TypeOK, Close
    <3>3. QED
      BY <2>5, <3>1, <3>2, Zenon DEF TypeOK, Close
  <2>6. QED
    BY <1>4, <2>3, <2>4, <2>5, Zenon DEF ForwarderSteps
<1>5. QED
  BY <1>1, <1>2, <1>3, <1>4, Zenon DEF Step

LEMMA NextTypeOK == TypeOK /\ [Next]_vars => TypeOK'
<1> SUFFICES ASSUME TypeOK, [Next]_vars
             PROVE  TypeOK'
  OBVIOUS
<1>1. CASE Poller
  BY <1>1, PollerType, Zenon
<1>2. CASE Users
  BY <1>2, UsersType
<1>3. ASSUME NEW p \in Procs, Step(p)
      PROVE  TypeOK'
  BY <1>3, StepType, Zenon
<1>4. CASE UNCHANGED vars
  BY <1>4, Zenon DEF TypeOK, vars, services, outside
<1>5. QED
  BY <1>1, <1>2, <1>3, <1>4, SystemType, Zenon DEF Next, Quiescent

\* Every reconcile has a name and a copy while it is under way and nothing of
\* them afterwards, and a missing namespace holds no Service.
THEOREM TypeCorrect == Spec => []TypeOK
<1>1. QED
  BY InitTypeOK, NextTypeOK, PTL DEF Spec

(***************************************************************************)
(* The inductive invariant.                                                *)
(***************************************************************************)

\* n waits in the work queue of p, or the cache of p has an event for it.
Known(p, n) == n \in queue[p] \/ PassesPredicate(cache[p][n], be[n])

\* Caches are behind the API server, never ahead; an UID is never used again and
\* keeps its port.
Ages ==
    \A n \in Names :
       /\ be[n] # None => be[n].uid <= objects /\ be[n].gen <= want
       /\ \A p \in Procs : cache[p][n] # None =>
             /\ cache[p][n].uid <= objects
             /\ be[n] # None /\ be[n].uid = cache[p][n].uid =>
                   cache[p][n].port = be[n].port /\ cache[p][n].gen <= be[n].gen

Copies ==
    \A p \in Procs : work[p] # Idle =>
       /\ work[p].obj.uid <= objects
       /\ be[work[p].name] # None /\ be[work[p].name].uid = work[p].obj.uid =>
             work[p].obj.port = be[work[p].name].port
       /\ work[p].failed => work[p].pc = "status"
       /\ work[p].pc \in {"deleteTarget", "deleteUpstream", "close", "unregister"} =>
             work[p].obj.deleting

ServiceNames ==
    \A n \in Names :
       /\ upstream[n] # None => upstream[n].name = n
       /\ target[TargetOf[n]] # None => target[TargetOf[n]].name = n

\* A reconcile that works on an old copy of a live BoundEndpoint is followed by
\* another.
CopyKnown ==
    \A p \in Procs, n \in Names :
       Live(n) /\ work[p].name = n =>
          Known(p, n) \/ ~PassesPredicate(work[p].obj, be[n])

\* BoundEndpoints that exist together have different ports, save for clashes; so
\* have those that a cache holds together.
Clashes ==
    \A m, n \in Names : m # n =>
       /\ be[m] # None /\ be[n] # None /\ be[m].port = be[n].port => be[n].port \in clash
       /\ \A p \in Procs :
             cache[p][m] # None /\ cache[p][n] # None /\ cache[p][m].port = cache[p][n].port
                => cache[p][n].port \in clash

\* The live BoundEndpoint that has got the port a replica is about to close is
\* one the replica is still to learn of.
CloseKnown ==
    \A r \in Replicas, n \in Names :
       /\ work[r].pc = "close"
       /\ work[r].name # n
       /\ Live(n)
       /\ be[n].port = work[r].obj.port
       /\ be[n].port \notin clash
       => Known(r, n)

Bookkeeping == Ages /\ Copies /\ ServiceNames /\ CopyKnown /\ Clashes /\ CloseKnown

IInv == TypeOK /\ Bookkeeping /\ NoMissedServices /\ NoMissedListener

\* How a step may change a BoundEndpoint: not at all, release it, edit it, mark
\* it for deletion, or make it.
Later(n) ==
    \/ be'[n] = be[n]
    \/ be'[n] = None
    \/ /\ be[n] # None /\ be'[n] # None
       /\ be'[n].uid = be[n].uid /\ be'[n].port = be[n].port
       /\ be'[n].gen = be[n].gen \/ (be[n].gen # want /\ be'[n].gen = want)
       /\ be[n].deleting => be'[n].deleting
    \/ be'[n] # None /\ be'[n].uid = objects + 1

LEMMA KnownStays ==
    ASSUME NEW p \in Procs, NEW n \in Names, Known(p, n),
           be'[n] = be[n], cache'[p] = cache[p], queue[p] \subseteq queue'[p]
    PROVE  Known(p, n)'
  BY Zenon DEF Known, PassesPredicate

\* What a process is to learn of a live BoundEndpoint stays to be learnt.
LEMMA KnownLater ==
    ASSUME TypeOK, TypeOK', Ages, NEW p \in Procs, NEW n \in Names, Known(p, n),
           Later(n), Live(n)', cache'[p] = cache[p], queue[p] \subseteq queue'[p]
    PROVE  Known(p, n)'
<1>1. CASE n \in queue[p]
  BY <1>1, Zenon DEF Known
<1>2. CASE cache[p][n] = None
  BY <1>2, Zenon DEF Known, PassesPredicate
<1>3. CASE n \notin queue[p] /\ cache[p][n] # None
  <2> DEFINE c == cache[p][n]
  <2>1. c \in BoundEndpoints /\ be'[n] \in BoundEndpoints /\ c.uid <= objects
    BY <1>3 DEF TypeOK, Live, Ages
  <2>2. /\ c.uid \in Nat /\ c.gen \in Nat /\ objects \in Nat /\ want \in Nat
        /\ c.deleting \in BOOLEAN /\ be'[n].deleting \in BOOLEAN
    BY <2>1, BindingsAssumption DEF TypeOK, BoundEndpoints, Uids, Versions
  <2>3. PassesPredicate(c, be[n])
    BY <1>3, Zenon DEF Known
  <2>4. CASE be'[n].uid = objects + 1
    BY <2>1, <2>2, <2>4 DEF Known, PassesPredicate
  <2>5. CASE be'[n] = be[n]
    BY <2>3, <2>5, Zenon DEF Known, PassesPredicate
  <2>6. CASE /\ be[n] # None /\ be'[n] # None
             /\ be'[n].uid = be[n].uid /\ be'[n].port = be[n].port
             /\ be'[n].gen = be[n].gen \/ (be[n].gen # want /\ be'[n].gen = want)
             /\ be[n].deleting => be'[n].deleting
    <3>1. be[n] \in BoundEndpoints /\ be[n].gen \in Nat /\ be[n].deleting \in BOOLEAN
      BY <2>6, BindingsAssumption DEF TypeOK, BoundEndpoints, Versions
    <3>2. c.uid = be[n].uid => c.gen <= be[n].gen /\ be[n].gen <= want
      BY <1>3, <2>6, Zenon DEF Ages
    <3>3. c.uid # be'[n].uid \/ c.gen # be'[n].gen \/ c.deleting # be'[n].deleting
      BY <1>3, <2>2, <2>3, <2>6, <3>1, <3>2 DEF PassesPredicate, Live
    <3>4. QED
      BY <3>3, Zenon DEF Known, PassesPredicate
  <2>7. QED
    BY <2>4, <2>5, <2>6, Zenon DEF Later, Live
<1>4. QED
  BY <1>1, <1>2, <1>3, Zenon

\* A copy of the present object stays one, or the process is to learn of a new
\* one.
LEMMA CopyLater ==
    ASSUME TypeOK, TypeOK', Ages, NEW p \in Procs, NEW n \in Names,
           NEW o \in BoundEndpoints, ~PassesPredicate(o, be[n]),
           Later(n), Live(n)', cache'[p] = cache[p], queue[p] \subseteq queue'[p]
    PROVE  Known(p, n)' \/ ~PassesPredicate(o, be'[n])
<1> DEFINE c == cache[p][n]
<1>1. CASE c = None
  BY <1>1, Zenon DEF Known, PassesPredicate
<1>2. CASE c # None
  <2>1. c \in BoundEndpoints /\ be'[n] \in BoundEndpoints /\ c.uid <= objects
    BY <1>2 DEF TypeOK, Live, Ages
  <2>2. /\ c.uid \in Nat /\ c.gen \in Nat /\ objects \in Nat /\ want \in Nat
        /\ o.deleting \in BOOLEAN /\ be'[n].deleting \in BOOLEAN
    BY <2>1, BindingsAssumption DEF TypeOK, BoundEndpoints, Uids, Versions
  <2>3. be[n] # None /\ o.uid = be[n].uid /\ o.gen = be[n].gen /\ o.deleting = be[n].deleting
    BY Zenon DEF PassesPredicate
  <2>4. CASE be'[n].uid = objects + 1
    BY <2>1, <2>2, <2>4 DEF Known, PassesPredicate
  <2>5. CASE be'[n] = be[n]
    BY <2>5, Zenon DEF PassesPredicate
  <2>6. CASE /\ be[n] # None /\ be'[n] # None
             /\ be'[n].uid = be[n].uid /\ be'[n].port = be[n].port
             /\ be'[n].gen = be[n].gen \/ (be[n].gen # want /\ be'[n].gen = want)
             /\ be[n].deleting => be'[n].deleting
    <3>1. be[n] \in BoundEndpoints /\ be[n].gen \in Nat /\ be[n].deleting \in BOOLEAN
      BY <2>6, BindingsAssumption DEF TypeOK, BoundEndpoints, Versions
    <3>2. CASE be'[n].gen = be[n].gen
      BY <2>2, <2>3, <2>6, <3>1, <3>2, NoneAssumption, Zenon DEF PassesPredicate, Live
    <3>3. CASE be[n].gen # want /\ be'[n].gen = want
      <4>1. c.uid = be[n].uid => c.gen <= be[n].gen /\ be[n].gen <= want
        BY <1>2, <2>6, Zenon DEF Ages
      <4>2. c.uid # be'[n].uid \/ c.gen # be'[n].gen
        BY <2>2, <2>6, <3>1, <3>3, <4>1
      <4>3. QED
        BY <4>2, Zenon DEF Known, PassesPredicate
    <3>4. QED
      BY <2>6, <3>2, <3>3, Zenon
  <2>7. QED
    BY <2>4, <2>5, <2>6, Zenon DEF Later, Live
<1>3. QED
  BY <1>1, <1>2, Zenon

LEMMA ComingKnown ==
    ASSUME NEW p \in Procs, NEW n \in Names, NEW S, Known(p, n)
    PROVE  Coming(p, n, S)
  BY Zenon DEF Known, Coming

LEMMA NamedWork ==
    ASSUME TypeOK, NEW p \in Procs, NEW n \in Names, work[p].name = n
    PROVE  work[p] # Idle /\ work[p] \in Works /\ work[p].obj \in BoundEndpoints
<1>1. work[p] # Idle
  BY IdleFields, NoneAssumption, Zenon
<1>2. QED
  BY <1>1, Zenon DEF TypeOK, Works

\* What is to come for a live BoundEndpoint still is after a change of the
\* objects.
LEMMA ComingLater ==
    ASSUME TypeOK, TypeOK', Ages, NEW p \in Procs, NEW n \in Names, NEW S, Coming(p, n, S),
           Later(n), Live(n)', cache'[p] = cache[p], queue[p] \subseteq queue'[p],
           work'[p] = work[p]
    PROVE  Coming(p, n, S)'
<1>1. CASE Known(p, n)
  BY <1>1, KnownLater, Zenon DEF Known, Coming
<1>2. CASE work[p].name = n /\ work[p].failed
  BY <1>2, Zenon DEF Coming
<1>3. CASE work[p].name = n /\ work[p].pc \in S /\ ~PassesPredicate(work[p].obj, be[n])
  <2>1. Known(p, n)' \/ ~PassesPredicate(work[p].obj, be'[n])
    BY <1>3, NamedWork, CopyLater, Zenon
  <2>2. QED
    BY <1>3, <2>1, Zenon DEF Known, Coming
<1>4. QED
  BY <1>1, <1>2, <1>3, Zenon DEF Known, Coming

\* An edit or a new object is an event for every process.
LEMMA NewKnown ==
    ASSUME TypeOK, TypeOK', Ages, NEW p \in Procs, NEW n \in Names, cache'[p] = cache[p],
           be'[n] # None,
           \/ be'[n].uid = objects + 1
           \/ /\ be[n] # None
              /\ be'[n].uid = be[n].uid
              /\ be[n].gen # want /\ be'[n].gen = want
    PROVE  Known(p, n)'
<1> DEFINE c == cache[p][n]
<1>1. CASE c = None
  BY <1>1, Zenon DEF Known, PassesPredicate
<1>2. CASE c # None
  <2>1. /\ c \in BoundEndpoints /\ c.uid <= objects
        /\ be[n] # None /\ be[n].uid = c.uid => c.gen <= be[n].gen /\ be[n].gen <= want
    BY <1>2 DEF TypeOK, Ages
  <2>2. c.uid \in Nat /\ c.gen \in Nat /\ objects \in Nat /\ want \in Nat
    BY <2>1, BindingsAssumption DEF TypeOK, BoundEndpoints, Uids, Versions
  <2>3. be[n] # None => be[n].gen \in Nat
    BY DEF TypeOK, BoundEndpoints, Versions
  <2>4. c.uid # be'[n].uid \/ c.gen # be'[n].gen
    BY <2>1, <2>2, <2>3
  <2>5. QED
    BY <2>4, Zenon DEF Known, PassesPredicate
<1>3. QED
  BY <1>1, <1>2, Zenon

\* A step of the poller, as far as its kind does not matter.
LEMMA PollerCommon ==
    ASSUME IInv, TypeOK', \A n \in Names : Later(n),
           UNCHANGED <<cache, queue, work, services, listeners, draining>>,
           clash \subseteq clash', objects <= objects', objects' \in Nat
    PROVE  /\ Copies' /\ ServiceNames' /\ CopyKnown' /\ CloseKnown'
           /\ NoMissedServices' /\ NoMissedListener'
<1> USE DEF services
<1>0. TypeOK /\ Ages /\ objects \in Nat
  BY DEF IInv, Bookkeeping, TypeOK
<1>1. Copies'
  <2> SUFFICES ASSUME NEW p \in Procs, work[p] # Idle
               PROVE  /\ work[p].obj.uid <= objects'
                      /\ be'[work[p].name] # None /\ be'[work[p].name].uid = work[p].obj.uid =>
                            work[p].obj.port = be'[work[p].name].port
    BY Zenon DEF IInv, Bookkeeping, Copies
  <2>1. /\ work[p].obj.uid <= objects
        /\ be[work[p].name] # None /\ be[work[p].name].uid = work[p].obj.uid =>
              work[p].obj.port = be[work[p].name].port
    BY Zenon DEF IInv, Bookkeeping, Copies
  <2>2. work[p].name \in Names /\ work[p].obj.uid \in Nat
    BY <1>0 DEF TypeOK, Works, BoundEndpoints, Uids
  <2>3. QED
    BY <1>0, <2>1, <2>2 DEF Later
<1>2. ServiceNames'
  BY Zenon DEF IInv, Bookkeeping, ServiceNames
<1>3. ASSUME NEW n \in Names, Live(n)'
      PROVE  be'[n].uid = objects + 1 \/ Live(n)
  BY <1>3, Zenon DEF Later, Live
<1>4. ASSUME NEW p \in Procs, NEW n \in Names, Live(n)', be'[n].uid = objects + 1
      PROVE  Known(p, n)'
  BY <1>0, <1>4, NewKnown, Zenon DEF Live
<1>5. CopyKnown'
  <2> SUFFICES ASSUME NEW p \in Procs, NEW n \in Names, Live(n)', work[p].name = n
               PROVE  Known(p, n)' \/ ~PassesPredicate(work[p].obj, be'[n])
    BY Zenon DEF CopyKnown
  <2>1. CASE be'[n].uid = objects + 1
    BY <1>4, <2>1, Zenon
  <2>2. CASE Live(n)
    <3>1. CASE Known(p, n)
      BY <1>0, <3>1, KnownLater, Zenon
    <3>2. CASE ~PassesPredicate(work[p].obj, be[n])
      BY <1>0, <3>2, NamedWork, CopyLater, Zenon
    <3>3. QED
      BY <2>2, <3>1, <3>2, Zenon DEF IInv, Bookkeeping, CopyKnown
  <2>3. QED
    BY <1>3, <2>1, <2>2, Zenon
<1>6. CloseKnown'
  <2> SUFFICES ASSUME NEW r \in Replicas, NEW n \in Names, work[r].pc = "close",
                      work[r].name # n, Live(n)', be'[n].port = work[r].obj.port,
                      be'[n].port \notin clash'
               PROVE  Known(r, n)'
    BY Zenon DEF CloseKnown
  <2>0. r \in Procs
    BY Zenon DEF Procs
  <2>1. CASE be'[n].uid = objects + 1
    BY <1>4, <2>0, <2>1, Zenon
  <2>2. CASE Live(n) /\ be'[n].uid # objects + 1
    <3>1. be'[n].port = be[n].port
      BY <2>2, Zenon DEF Later, Live
    <3>2. Known(r, n)
      BY <2>2, <3>1, Zenon DEF IInv, Bookkeeping, CloseKnown
    <3>3. QED
      BY <1>0, <2>0, <3>2, KnownLater, Zenon
  <2>3. QED
    BY <1>3, <2>1, <2>2, Zenon
<1>7. ASSUME NEW n \in Names, Live(n)', ~Known(Manager, n)'
      PROVE  Live(n) /\ ServiceFor(n, be'[n]) = ServiceFor(n, be[n])
  <2>1. Manager \in Procs
    BY Zenon DEF Procs
  <2>2. be'[n].uid # objects + 1 /\ Live(n)
    BY <1>3, <1>4, <1>7, <2>1, Zenon
  <2>3. be'[n].uid = be[n].uid /\ be'[n].port = be[n].port
    BY <1>7, <2>2, Zenon DEF Later, Live
  <2>4. be'[n].gen = be[n].gen
    BY <1>0, <1>7, <2>1, <2>2, NewKnown, Zenon DEF Later, Live
  <2>5. QED
    BY <2>2, <2>3, <2>4, Zenon DEF ServiceFor
<1>8. NoMissedServices'
  <2> SUFFICES ASSUME NEW n \in Names, Live(n)', ~Known(Manager, n)'
               PROVE  /\ \/ upstream[n] = ServiceFor(n, be'[n])
                         \/ Coming(Manager, n, {"register", "upstream"})'
                      /\ \/ ~namespace
                         \/ target[TargetOf[n]] = ServiceFor(n, be'[n])
                         \/ Coming(Manager, n, {"register", "upstream", "target"})'
    BY Zenon DEF NoMissedServices, Known, Coming, ServiceFor
  <2>1. Manager \in Procs
    BY Zenon DEF Procs
  <2>2. Live(n) /\ ServiceFor(n, be'[n]) = ServiceFor(n, be[n])
    BY <1>7, Zenon
  <2>3. ASSUME NEW S, Coming(Manager, n, S)
        PROVE  Coming(Manager, n, S)'
    BY <1>0, <2>1, <2>3, ComingLater, Zenon
  <2>4. QED
    BY <2>2, <2>3, Zenon DEF IInv, NoMissedServices
<1>9. NoMissedListener'
  <2> SUFFICES ASSUME NEW r \in Replicas, NEW n \in Names, Live(n)', ~draining,
                      be'[n].port \notin clash'
               PROVE  \/ listeners[r][be'[n].port] # None
                      \/ Coming(r, n, {"register", "listen"})'
    BY Zenon DEF NoMissedListener
  <2>0. r \in Procs
    BY Zenon DEF Procs
  <2>1. CASE be'[n].uid = objects + 1
    BY <1>4, <2>0, <2>1, Zenon DEF Known, Coming
  <2>2. CASE Live(n) /\ be'[n].uid # objects + 1
    <3>1. be'[n].port = be[n].port
      BY <2>2, Zenon DEF Later, Live
    <3>2. listeners[r][be[n].port] # None \/ Coming(r, n, {"register", "listen"})
      BY <2>2, <3>1, Zenon DEF IInv, NoMissedListener
    <3>3. QED
      BY <1>0, <2>0, <3>1, <3>2, ComingLater, Zenon
  <2>3. QED
    BY <1>3, <2>1, <2>2, Zenon
<1>10. QED
  BY <1>1, <1>2, <1>5, <1>6, <1>8, <1>9, Zenon

LEMMA InitIInv == Init => IInv
<1> SUFFICES ASSUME Init PROVE IInv
  OBVIOUS
<1>1. TypeOK
  BY InitTypeOK, Zenon
<1>2. /\ \A n \in Names : be[n] = None /\ upstream[n] = None /\ target[TargetOf[n]] = None
      /\ \A p \in Procs : work[p] = Idle /\ \A n \in Names : cache[p][n] = None
  BY Zenon DEF Init, Targets
<1>3. \A p \in Procs : work[p].name = None /\ work[p].pc = "idle"
  BY <1>2, IdleFields, Zenon
<1>4. Ages /\ Copies /\ ServiceNames /\ Clashes
  BY <1>2, Zenon DEF Ages, Copies, ServiceNames, Clashes
<1>5. CopyKnown /\ CloseKnown /\ NoMissedServices /\ NoMissedListener
  BY <1>2, Zenon DEF CopyKnown, CloseKnown, NoMissedServices, NoMissedListener, Live
<1>6. QED
  BY <1>1, <1>4, <1>5, Zenon DEF IInv, Bookkeeping

LEMMA AgesLater ==
    ASSUME TypeOK, TypeOK', Ages, \A n \in Names : Later(n), UNCHANGED cache,
           objects <= objects', want <= want',
           \A n \in Names : be'[n] # None /\ be'[n] # be[n] =>
              be'[n].uid <= objects' /\ be'[n].gen <= want'
    PROVE  Ages'
<1> SUFFICES ASSUME NEW n \in Names
             PROVE  /\ be'[n] # None => be'[n].uid <= objects' /\ be'[n].gen <= want'
                    /\ \A p \in Procs : cache[p][n] # None =>
                          /\ cache[p][n].uid <= objects'
                          /\ be'[n] # None /\ be'[n].uid = cache[p][n].uid =>
                                /\ cache[p][n].port = be'[n].port
                                /\ cache[p][n].gen <= be'[n].gen
  BY Zenon DEF Ages
<1>0. objects \in Nat /\ objects' \in Nat /\ want \in Nat /\ want' \in Nat
  BY BindingsAssumption DEF TypeOK
<1>1. be'[n] # None => be'[n].uid <= objects' /\ be'[n].gen <= want'
  <2>1. CASE be'[n] = be[n]
    <3>1. be[n] # None => /\ be[n].uid \in Nat /\ be[n].gen \in Nat
                          /\ be[n].uid <= objects /\ be[n].gen <= want
      BY DEF TypeOK, BoundEndpoints, Uids, Versions, Ages
    <3>2. QED
      BY <1>0, <2>1, <3>1
  <2>2. QED
    BY <2>1, Zenon
<1>2. ASSUME NEW p \in Procs, cache[p][n] # None
      PROVE  /\ cache[p][n].uid <= objects'
             /\ be'[n] # None /\ be'[n].uid = cache[p][n].uid =>
                   cache[p][n].port = be'[n].port /\ cache[p][n].gen <= be'[n].gen
  <2> DEFINE c == cache[p][n]
  <2>1. /\ c \in BoundEndpoints /\ c.uid <= objects
        /\ be[n] # None /\ be[n].uid = c.uid =>
              c.port = be[n].port /\ c.gen <= be[n].gen /\ be[n].gen <= want
    BY <1>2 DEF TypeOK, Ages
  <2>2. c.uid \in Nat /\ c.gen \in Nat
    BY <2>1 DEF BoundEndpoints, Uids, Versions
  <2>3. be[n] # None => be[n].gen \in Nat
    BY DEF TypeOK, BoundEndpoints, Versions
  <2>4. c.uid <= objects'
    BY <1>0, <2>1, <2>2
  <2>5. ASSUME be'[n] # None, be'[n].uid = c.uid
        PROVE  c.port = be'[n].port /\ c.gen <= be'[n].gen
    <3>1. be'[n].uid # objects + 1
      BY <1>0, <2>1, <2>2, <2>5
    <3>2. CASE be'[n] = be[n]
      BY <2>1, <2>5, <3>2, Zenon
    <3>3. CASE /\ be[n] # None /\ be'[n].uid = be[n].uid /\ be'[n].port = be[n].port
               /\ be'[n].gen = be[n].gen \/ be'[n].gen = want
      BY <1>0, <2>1, <2>2, <2>3, <2>5, <3>3
    <3>4. QED
      BY <2>5, <3>1, <3>2, <3>3, Zenon DEF Later
  <2>6. QED
    BY <2>4, <2>5, Zenon
<1>3. QED
  BY <1>1, <1>2, Zenon

\* No port changes hands.
LEMMA ClashesKept ==
    ASSUME Clashes, UNCHANGED cache, clash \subseteq clash',
           \A n \in Names : be'[n] = None \/ (be[n] # None /\ be'[n].port = be[n].port)
    PROVE  Clashes'
  BY DEF Clashes

LEMMA ClashesCreate ==
    ASSUME TypeOK, Clashes, NEW n \in Names, createBinding(n)
    PROVE  Clashes'
<1>1. PICK p \in Ports :
         /\ be' = [be EXCEPT ![n] = [uid |-> objects + 1, port |-> p, gen |-> want,
                                     deleting |-> FALSE, finalizer |-> FALSE]]
         /\ clash' = clash \cup {q \in {p} : \E m \in Names : be[m] # None /\ be[m].port = q}
  BY Zenon DEF createBinding
<1>2. be'[n].port = p /\ \A m \in Names \ {n} : be'[m] = be[m]
  BY <1>1, Zenon DEF TypeOK
<1>3. cache' = cache /\ clash \subseteq clash'
  BY <1>1, Zenon DEF createBinding
<1>4. ASSUME NEW m \in Names \ {n}, be[m] # None, be[m].port = p
      PROVE  p \in clash'
  BY <1>1, <1>4, Zenon
<1>5. QED
  BY <1>2, <1>3, <1>4 DEF Clashes

LEMMA PollerKeeps ==
    ASSUME IInv, TypeOK', Poller
    PROVE  IInv'
<1> USE DEF services, outside
<1>0. TypeOK /\ Ages /\ Clashes /\ objects \in Nat /\ want \in Nat /\ faults \in Nat
  BY BindingsAssumption DEF IInv, Bookkeeping, TypeOK
<1>1. CASE EndpointsChange
  <2>1. UNCHANGED <<be, cache, queue, work, services, listeners, draining, clash, objects>>
        /\ want' = want + 1
    BY <1>1, Zenon DEF EndpointsChange
  <2>2. \A n \in Names : Later(n)
    BY <2>1, Zenon DEF Later
  <2>3. Ages'
    BY <1>0, <2>1, <2>2, AgesLater
  <2>4. Clashes'
    BY <1>0, <2>1, Zenon DEF Clashes
  <2>5. QED
    BY <1>0, <2>1, <2>2, <2>3, <2>4, PollerCommon DEF IInv, Bookkeeping
<1>2. ASSUME NEW n \in Names, createBinding(n)
      PROVE  IInv'
  <2>1. /\ UNCHANGED <<cache, queue, work, services, listeners, draining, want>>
        /\ objects' = objects + 1 /\ clash \subseteq clash'
    BY <1>2, Zenon DEF createBinding
  <2>2. PICK p \in Ports :
           be' = [be EXCEPT ![n] = [uid |-> objects + 1, port |-> p, gen |-> want,
                                    deleting |-> FALSE, finalizer |-> FALSE]]
    BY <1>2, Zenon DEF createBinding
  <2>3. /\ be'[n].uid = objects + 1 /\ be'[n].gen = want
        /\ \A m \in Names \ {n} : be'[m] = be[m]
    BY <1>0, <2>2, Zenon DEF TypeOK
  <2>4. be'[n] # None
    <3>1. objects + 1 \in Uids /\ want \in Versions
      BY <1>0, <1>2, BindingsAssumption DEF createBinding, Uids, Versions, TypeOK
    <3>2. be'[n] \in BoundEndpoints
      BY <1>0, <2>2, <3>1, Zenon DEF TypeOK, BoundEndpoints
    <3>3. QED
      BY <3>2, NoneAssumption, Zenon
  <2>5. \A m \in Names : Later(m)
    BY <2>3, <2>4, Zenon DEF Later
  <2>6. Ages'
    BY <1>0, <2>1, <2>3, <2>5, AgesLater
  <2>7. Clashes'
    BY <1>0, <1>2, ClashesCreate, Zenon
  <2>8. QED
    BY <1>0, <2>1, <2>5, <2>6, <2>7, PollerCommon DEF IInv, Bookkeeping
<1>3. ASSUME NEW n \in Names, updateBinding(n)
      PROVE  IInv'
  <2>1. UNCHANGED <<cache, queue, work, services, listeners, draining, want, objects, clash>>
    BY <1>3, Zenon DEF updateBinding
  <2>2. be[n] \in BoundEndpoints /\ be[n] # None /\ be[n].gen # want
        /\ be' = [be EXCEPT ![n].gen = want]
    BY <1>0, <1>3, Zenon DEF updateBinding, TypeOK
  <2>3. /\ be'[n].uid = be[n].uid /\ be'[n].port = be[n].port /\ be'[n].gen = want
        /\ be'[n].deleting = be[n].deleting
        /\ \A m \in Names \ {n} : be'[m] = be[m]
    BY <1>0, <2>2, Zenon DEF TypeOK, BoundEndpoints
  <2>5. \A m \in Names : Later(m)
    BY <2>2, <2>3, Zenon DEF Later
  <2>6. Ages'
    BY <1>0, <2>1, <2>2, <2>3, <2>5, AgesLater DEF Ages
  <2>7. Clashes'
    BY <1>0, <2>1, <2>2, <2>3, ClashesKept, Zenon
  <2>8. QED
    BY <1>0, <2>1, <2>5, <2>6, <2>7, PollerCommon DEF IInv, Bookkeeping
<1>4. ASSUME NEW n \in Names, deleteBinding(n)
      PROVE  IInv'
  <2>1. UNCHANGED <<cache, queue, work, services, listeners, draining, want, objects, clash>>
    BY <1>4, Zenon DEF deleteBinding
  <2>2. be[n] \in BoundEndpoints /\ be[n] # None
    BY <1>0, <1>4, Zenon DEF deleteBinding, Live, TypeOK
  <2>3. /\ \/ be'[n] = None
           \/ /\ be'[n].uid = be[n].uid /\ be'[n].port = be[n].port
              /\ be'[n].gen = be[n].gen /\ be'[n].deleting = TRUE
        /\ \A m \in Names \ {n} : be'[m] = be[m]
    BY <1>0, <1>4, <2>2, Zenon DEF deleteBinding, TypeOK, BoundEndpoints
  <2>4. Later(n)
    BY <2>2, <2>3, Zenon DEF Later
  <2>5. \A m \in Names : Later(m)
    BY <2>3, <2>4, Zenon DEF Later
  <2>6. Ages'
    <3>1. be[n].uid <= objects /\ be[n].gen <= want
      BY <1>0, <2>2, Zenon DEF Ages
    <3>2. \A m \in Names : be'[m] # None /\ be'[m] # be[m] =>
             be'[m].uid <= objects' /\ be'[m].gen <= want'
      BY <2>1, <2>3, <3>1, Zenon
    <3>3. QED
      BY <1>0, <2>1, <2>5, <3>2, AgesLater
  <2>7. Clashes'
    BY <1>0, <2>1, <2>2, <2>3, ClashesKept, Zenon
  <2>8. QED
    BY <1>0, <2>1, <2>5, <2>6, <2>7, PollerCommon DEF IInv, Bookkeeping
<1>5. QED
  BY <1>1, <1>2, <1>3, <1>4, Zenon DEF Poller

LEMMA ComingStays ==
    ASSUME NEW p \in Procs, NEW n \in Names, NEW S, Coming(p, n, S), be' = be, cache' = cache,
           work'[p] = work[p], queue[p] \subseteq queue'[p]
    PROVE  Coming(p, n, S)'
  BY Zenon DEF Coming, PassesPredicate

\* A step that leaves the objects, the caches and the reconciles alone.
LEMMA CalmKeeps ==
    ASSUME Bookkeeping, UNCHANGED <<be, cache, work, want, objects, clash>>,
           \A p \in Procs : queue[p] \subseteq queue'[p]
    PROVE  Ages' /\ Copies' /\ CopyKnown' /\ Clashes' /\ CloseKnown'
<1>1. Ages' /\ Copies' /\ Clashes'
  BY Zenon DEF Bookkeeping, Ages, Copies, Clashes
<1>2. ASSUME NEW p \in Procs, NEW n \in Names, Known(p, n)
      PROVE  Known(p, n)'
  BY <1>2, KnownStays, Zenon
<1>3. CopyKnown'
  BY <1>2, Zenon DEF Bookkeeping, CopyKnown, Live, PassesPredicate
<1>4. Replicas \subseteq Procs
  BY Zenon DEF Procs
<1>5. CloseKnown'
  BY <1>2, <1>4, Zenon DEF Bookkeeping, CloseKnown, Live
<1>6. QED
  BY <1>1, <1>3, <1>5, Zenon

LEMMA CalmListener ==
    ASSUME NoMissedListener, UNCHANGED <<be, cache, work, clash, listeners>>,
           draining => draining', \A p \in Procs : queue[p] \subseteq queue'[p]
    PROVE  NoMissedListener'
<1> SUFFICES ASSUME NEW r \in Replicas, NEW n \in Names, Live(n), ~draining',
                    be[n].port \notin clash
             PROVE  \/ listeners[r][be[n].port] # None
                    \/ Coming(r, n, {"register", "listen"})'
  BY Zenon DEF NoMissedListener, Live
<1>1. r \in Procs
  BY Zenon DEF Procs
<1>2. listeners[r][be[n].port] # None \/ Coming(r, n, {"register", "listen"})
  BY Zenon DEF NoMissedListener
<1>3. QED
  BY <1>1, <1>2, ComingStays, Zenon

\* What is to be shown of a live BoundEndpoint's Services when nothing but the
\* Services and the queues has changed.
LEMMA CalmServices ==
    ASSUME NoMissedServices, UNCHANGED <<be, cache, work>>, queue[Manager] \subseteq queue'[Manager],
           \A n \in Names : Live(n) =>
              /\ upstream'[n] = upstream[n] \/ Known(Manager, n)'
              /\ \/ ~namespace'
                 \/ namespace /\ target'[TargetOf[n]] = target[TargetOf[n]]
                 \/ Known(Manager, n)'
    PROVE  NoMissedServices'
<1> SUFFICES ASSUME NEW n \in Names, Live(n)
             PROVE  /\ \/ upstream'[n] = ServiceFor(n, be[n])
                       \/ Coming(Manager, n, {"register", "upstream"})'
                    /\ \/ ~namespace'
                       \/ target'[TargetOf[n]] = ServiceFor(n, be[n])
                       \/ Coming(Manager, n, {"register", "upstream", "target"})'
  BY Zenon DEF NoMissedServices, Live, ServiceFor
<1>1. Manager \in Procs
  BY Zenon DEF Procs
<1>2. ASSUME NEW S, Coming(Manager, n, S) PROVE Coming(Manager, n, S)'
  BY <1>1, <1>2, ComingStays, Zenon
<1>3. ASSUME NEW S, Known(Manager, n)' PROVE Coming(Manager, n, S)'
  BY <1>3, Zenon DEF Known, Coming
<1>4. upstream'[n] = ServiceFor(n, be[n]) \/ Coming(Manager, n, {"register", "upstream"})'
  BY <1>2, <1>3, Zenon DEF NoMissedServices
<1>5. \/ ~namespace'
      \/ target'[TargetOf[n]] = ServiceFor(n, be[n])
      \/ Coming(Manager, n, {"register", "upstream", "target"})'
  BY <1>2, <1>3, Zenon DEF NoMissedServices
<1>6. QED
  BY <1>4, <1>5, Zenon

\* The watches on Services and namespaces miss no BoundEndpoint.
LEMMA UsersKeep ==
    ASSUME IInv, TypeOK', Users
    PROVE  IInv'
<1> USE DEF outside
<1>0. TypeOK /\ Bookkeeping /\ ServiceNames /\ Manager \in Procs
  BY Zenon DEF IInv, Bookkeeping, Procs
<1>1. UNCHANGED <<be, cache, work, listeners, draining, want, objects, clash>>
  BY Zenon DEF Users, UserDeletesNamespace, UserCreatesNamespace, UserDeletesService
<1>2. ASSUME NEW S, queue' = [queue EXCEPT ![Manager] = @ \cup S]
      PROVE  (\A p \in Procs : queue[p] \subseteq queue'[p]) /\ S \subseteq queue'[Manager]
  BY <1>0, <1>2, Zenon DEF TypeOK
<1>3. ASSUME NEW n \in Names, cache[Manager][n] = None \/ n \in queue'[Manager]
      PROVE  Known(Manager, n)'
  BY <1>1, <1>3, Zenon DEF Known, PassesPredicate
<1>4. ASSUME ServiceNames', NoMissedServices', \A p \in Procs : queue[p] \subseteq queue'[p]
      PROVE  IInv'
  <2>1. NoMissedListener'
    BY <1>1, <1>4, CalmListener, Zenon DEF IInv
  <2>2. Ages' /\ Copies' /\ CopyKnown' /\ Clashes' /\ CloseKnown'
    BY <1>0, <1>1, <1>4, CalmKeeps, Zenon
  <2>3. QED
    BY <1>4, <2>1, <2>2, Zenon DEF IInv, Bookkeeping
<1>5. CASE UserDeletesNamespace
  <2>1. /\ queue' = [queue EXCEPT ![Manager] = @ \cup Owners({target[t] : t \in Targets})]
        /\ ~namespace' /\ upstream' = upstream /\ target' = [t \in Targets |-> None]
    BY <1>5, Zenon DEF UserDeletesNamespace
  <2>2. \A p \in Procs : queue[p] \subseteq queue'[p]
    BY <1>2, <2>1, Zenon
  <2>3. ServiceNames'
    BY <1>0, <2>1, Zenon DEF ServiceNames, Targets
  <2>4. NoMissedServices'
    BY <1>0, <1>1, <2>1, <2>2, CalmServices, Zenon DEF IInv
  <2>5. QED
    BY <1>4, <2>2, <2>3, <2>4, Zenon
<1>6. CASE UserCreatesNamespace
  <2>1. /\ queue' = [queue EXCEPT ![Manager] =
              @ \cup {n \in Names : cache[Manager][n] # None}]
        /\ upstream' = upstream /\ target' = target
    BY <1>6, Zenon DEF UserCreatesNamespace
  <2>2. \A p \in Procs : queue[p] \subseteq queue'[p]
    BY <1>2, <2>1, Zenon
  <2>3. ServiceNames'
    BY <1>0, <2>1, Zenon DEF ServiceNames
  <2>4. \A n \in Names : Known(Manager, n)'
    BY <1>2, <1>3, <2>1, Zenon
  <2>5. NoMissedServices'
    BY <1>0, <1>1, <2>1, <2>2, <2>4, CalmServices, Zenon DEF IInv
  <2>6. QED
    BY <1>4, <2>2, <2>3, <2>5
<1>7. ASSUME NEW n \in Names, UserDeletesService(n)
      PROVE  IInv'
  <2>0. UNCHANGED namespace
    BY <1>7, Zenon DEF UserDeletesService
  <2>1. CASE /\ upstream[n] # None
             /\ upstream' = [upstream EXCEPT ![n] = None]
             /\ queue' = [queue EXCEPT ![Manager] = @ \cup Owners({upstream[n]})]
             /\ UNCHANGED target
    <3>1. \A p \in Procs : queue[p] \subseteq queue'[p]
      BY <1>2, <2>1, Zenon
    <3>2. \A m \in Names : upstream'[m] = IF m = n THEN None ELSE upstream[m]
      BY <1>0, <2>1, Zenon DEF TypeOK
    <3>3. ServiceNames'
      BY <1>0, <2>1, <3>2, Zenon DEF ServiceNames
    <3>4. cache[Manager][n] # None => n \in Owners({upstream[n]})
      BY <1>0, <2>1, Zenon DEF Owners, ServiceNames
    <3>5. Known(Manager, n)'
      BY <1>2, <1>3, <2>1, <3>4, Zenon
    <3>6. NoMissedServices'
      BY <1>0, <1>1, <2>0, <2>1, <3>1, <3>2, <3>5, CalmServices, Zenon DEF IInv
    <3>7. QED
      BY <1>4, <3>1, <3>3, <3>6, Zenon
  <2>2. CASE /\ target[TargetOf[n]] # None
             /\ target' = [target EXCEPT ![TargetOf[n]] = None]
             /\ queue' = [queue EXCEPT ![Manager] = @ \cup Owners({target[TargetOf[n]]})]
             /\ UNCHANGED upstream
    <3>1. \A p \in Procs : queue[p] \subseteq queue'[p]
      BY <1>2, <2>2, Zenon
    <3>2. \A m \in Names : target'[TargetOf[m]] = IF m = n THEN None ELSE target[TargetOf[m]]
      BY <1>0, <2>2, BindingsAssumption DEF TypeOK, Targets
    <3>3. ServiceNames'
      BY <1>0, <2>2, <3>2, Zenon DEF ServiceNames
    <3>4. cache[Manager][n] # None => n \in Owners({target[TargetOf[n]]})
      BY <1>0, <2>2, Zenon DEF Owners, ServiceNames
    <3>5. Known(Manager, n)'
      BY <1>2, <1>3, <2>2, <3>4, Zenon
    <3>6. NoMissedServices'
      BY <1>0, <1>1, <2>0, <2>2, <3>1, <3>2, <3>5, CalmServices, Zenon DEF IInv
    <3>7. QED
      BY <1>4, <3>1, <3>3, <3>6
  <2>3. QED
    BY <1>7, <2>1, <2>2, Zenon DEF UserDeletesService
<1>8. QED
  BY <1>5, <1>6, <1>7, Zenon DEF Users

LEMMA QuietKeeps ==
    ASSUME IInv, TypeOK', SetDraining \/ \E n \in Names : Refresh(n)
    PROVE  IInv'
<1> USE DEF services, outside
<1>0. TypeOK /\ Bookkeeping /\ Manager \in Procs
  BY Zenon DEF IInv, Procs
<1>1. /\ UNCHANGED <<be, cache, work, target, upstream, namespace, listeners>>
      /\ UNCHANGED <<want, objects, clash>>
      /\ draining => draining'
      /\ queue' = queue \/ \E n \in Names : queue' = [queue EXCEPT ![Manager] = @ \cup {n}]
  BY DEF SetDraining, Refresh
<1>2. \A p \in Procs : queue[p] \subseteq queue'[p]
  BY <1>0, <1>1, Zenon DEF TypeOK
<1>3. Ages' /\ Copies' /\ CopyKnown' /\ Clashes' /\ CloseKnown'
  BY <1>0, <1>1, <1>2, CalmKeeps, Zenon
<1>4. ServiceNames'
  BY <1>0, <1>1, Zenon DEF Bookkeeping, ServiceNames
<1>5. NoMissedListener'
  BY <1>1, <1>2, CalmListener, Zenon DEF IInv
<1>6. NoMissedServices'
  BY <1>0, <1>1, <1>2, CalmServices, Zenon DEF IInv, TypeOK
<1>7. QED
  BY <1>3, <1>4, <1>5, <1>6, Zenon DEF IInv, Bookkeeping

LEMMA CacheAges ==
    ASSUME TypeOK, Ages, Clashes, NEW p \in Procs, cache' = [cache EXCEPT ![p] = be],
           UNCHANGED <<be, want, objects, clash>>
    PROVE  Ages' /\ Clashes'
<1>1. \A q \in Procs : cache'[q] = IF q = p THEN be ELSE cache[q]
  BY Zenon DEF TypeOK
<1>2. \A n \in Names : be[n] # None => be[n].gen \in Nat
  BY DEF TypeOK, BoundEndpoints, Versions
<1>3. Ages'
  BY <1>1, <1>2 DEF Ages
<1>4. Clashes'
  BY <1>1 DEF Clashes
<1>5. QED
  BY <1>3, <1>4, Zenon

LEMMA CatchUpKeeps ==
    ASSUME IInv, TypeOK', NEW p \in Procs, CacheCatchesUp(p)
    PROVE  IInv'
<1> USE DEF services, outside
<1>0. TypeOK /\ Bookkeeping
  BY Zenon DEF IInv
<1>1. /\ UNCHANGED <<be, work, target, upstream, namespace, listeners>>
      /\ UNCHANGED <<draining, want, objects, clash>>
      /\ cache' = [cache EXCEPT ![p] = be]
      /\ queue' = [queue EXCEPT ![p] =
            @ \cup {n \in Names : cache[p][n] # be[n] /\ PassesPredicate(cache[p][n], be[n])}]
  BY Zenon DEF CacheCatchesUp
<1>2. Ages' /\ Clashes'
  BY <1>0, <1>1, CacheAges, Zenon DEF Bookkeeping
<1>3. Copies' /\ ServiceNames'
  BY <1>0, <1>1, Zenon DEF Bookkeeping, Copies, ServiceNames
<1>4. /\ \A q \in Procs : queue[q] \subseteq queue'[q]
      /\ \A n \in Names : cache[p][n] # be[n] /\ PassesPredicate(cache[p][n], be[n]) =>
            n \in queue'[p]
      /\ \A q \in Procs \ {p} : cache'[q] = cache[q]
  BY <1>0, <1>1, Zenon DEF TypeOK
<1>5. ASSUME NEW q \in Procs, NEW n \in Names, be[n] # None, Known(q, n)
      PROVE  Known(q, n)'
  <2>1. CASE q = p
    <3>1. cache[p][n] = be[n] => ~PassesPredicate(cache[p][n], be[n])
      BY <1>5, Zenon DEF PassesPredicate
    <3>2. n \in queue'[p]
      BY <1>4, <1>5, <2>1, <3>1, Zenon DEF Known
    <3>3. QED
      BY <2>1, <3>2, Zenon DEF Known
  <2>2. CASE q # p
    BY <1>1, <1>4, <1>5, <2>2, KnownStays, Zenon
  <2>3. QED
    BY <2>1, <2>2, Zenon
<1>6. ASSUME NEW q \in Procs, NEW n \in Names, NEW S, be[n] # None, Coming(q, n, S)
      PROVE  Coming(q, n, S)'
  <2>1. Known(q, n) => Known(q, n)'
    BY <1>5, <1>6, Zenon
  <2>2. QED
    BY <1>1, <1>6, <2>1, Zenon DEF Coming, Known, PassesPredicate
<1>7. Replicas \subseteq Procs /\ Manager \in Procs
  BY Zenon DEF Procs
<1>8. CopyKnown'
  BY <1>0, <1>1, <1>5, Zenon DEF Bookkeeping, CopyKnown, Live, PassesPredicate
<1>9. CloseKnown'
  BY <1>0, <1>1, <1>5, <1>7, Zenon DEF Bookkeeping, CloseKnown, Live
<1>10. NoMissedServices'
  BY <1>1, <1>6, <1>7, Zenon DEF IInv, NoMissedServices, Live, ServiceFor
<1>11. NoMissedListener'
  BY <1>1, <1>6, <1>7, Zenon DEF IInv, NoMissedListener, Live
<1>12. QED
  BY <1>2, <1>3, <1>8, <1>9, <1>10, <1>11, Zenon DEF IInv, Bookkeeping

\* A process that starts again finds every BoundEndpoint in its queue.
LEMMA CrashKeeps ==
    ASSUME IInv, TypeOK', NEW p \in Procs, Crash(p)
    PROVE  IInv'
<1> USE DEF services, outside
<1>0. TypeOK /\ Bookkeeping
  BY DEF IInv
<1>1. /\ UNCHANGED <<be, target, upstream, namespace>>
      /\ UNCHANGED <<draining, want, objects, clash>>
      /\ cache' = [cache EXCEPT ![p] = be]
  BY Zenon DEF Crash
<1>2. Ages' /\ Clashes' /\ ServiceNames'
  BY <1>0, <1>1, CacheAges, Zenon DEF Bookkeeping, ServiceNames
<1>3. /\ queue'[p] = {n \in Names : be[n] # None}
      /\ work'[p] = Idle
      /\ \A q \in Procs \ {p} :
            queue'[q] = queue[q] /\ work'[q] = work[q] /\ cache'[q] = cache[q]
      /\ \A r \in Replicas \ {p} : listeners'[r] = listeners[r]
  BY <1>0, <1>1, Zenon DEF Crash, TypeOK
<1>4. \A n \in Names : Live(n) => Known(p, n)'
  BY <1>3, Zenon DEF Known, Live
<1>5. work'[p].name = None /\ work'[p].pc = "idle"
  BY <1>3, IdleFields, Zenon
<1>6. Copies'
  BY <1>0, <1>1, <1>3 DEF Bookkeeping, Copies
<1>7. ASSUME NEW q \in Procs \ {p}, NEW n \in Names, Known(q, n)
      PROVE  Known(q, n)'
  BY <1>1, <1>3, <1>7, KnownStays, Zenon
<1>8. CopyKnown'
  <2> SUFFICES ASSUME NEW q \in Procs, NEW n \in Names, Live(n), work'[q].name = n
               PROVE  Known(q, n)' \/ ~PassesPredicate(work'[q].obj, be[n])
    BY <1>1, Zenon DEF CopyKnown, Live, PassesPredicate
  <2>1. CASE q = p
    BY <1>4, <2>1, Zenon
  <2>2. CASE q # p
    <3>1. work'[q] = work[q]
      BY <1>3, <2>2, Zenon
    <3>2. Known(q, n) \/ ~PassesPredicate(work[q].obj, be[n])
      BY <1>0, <3>1, Zenon DEF Bookkeeping, CopyKnown
    <3>3. QED
      BY <1>7, <2>2, <3>1, <3>2, Zenon
  <2>3. QED
    BY <2>1, <2>2, Zenon
<1>9. Replicas \subseteq Procs /\ Manager \in Procs
  BY DEF Procs
<1>10. CloseKnown'
  <2> SUFFICES ASSUME NEW r \in Replicas, NEW n \in Names, Live(n),
                      work'[r].pc = "close", work'[r].name # n,
                      be[n].port = work'[r].obj.port, be[n].port \notin clash
               PROVE  Known(r, n)'
    BY <1>1, Zenon DEF CloseKnown, Live
  <2>1. r # p /\ r \in Procs
    BY <1>5, <1>9, Zenon
  <2>2. work'[r] = work[r]
    BY <1>3, <2>1, Zenon
  <2>3. Known(r, n)
    BY <1>0, <2>2, Zenon DEF Bookkeeping, CloseKnown
  <2>4. QED
    BY <1>7, <2>1, <2>3, Zenon
<1>11. ASSUME NEW q \in Procs, NEW n \in Names, NEW S, Live(n), q = p \/ Coming(q, n, S)
       PROVE  Coming(q, n, S)'
  <2>1. CASE q = p
    BY <1>4, <1>11, <2>1, Zenon DEF Known, Coming
  <2>2. CASE q # p /\ Coming(q, n, S)
    BY <1>1, <1>3, <2>2, Zenon DEF Coming, PassesPredicate
  <2>3. QED
    BY <1>11, <2>1, <2>2, Zenon
<1>12. NoMissedServices'
  BY <1>1, <1>9, <1>11, Zenon DEF IInv, NoMissedServices, Live, ServiceFor
<1>13. NoMissedListener'
  <2> SUFFICES ASSUME NEW r \in Replicas, NEW n \in Names, Live(n), ~draining,
                      be[n].port \notin clash
               PROVE  \/ listeners'[r][be[n].port] # None
                      \/ Coming(r, n, {"register", "listen"})'
    BY <1>1, Zenon DEF NoMissedListener, Live
  <2>1. listeners[r][be[n].port] # None \/ Coming(r, n, {"register", "listen"})
    BY Zenon DEF IInv, NoMissedListener
  <2>2. r = p \/ listeners'[r] = listeners[r]
    BY <1>3, Zenon
  <2>3. QED
    BY <1>9, <1>11, <2>1, <2>2, Zenon
<1>14. QED
  BY <1>2, <1>6, <1>8, <1>10, <1>12, <1>13, Zenon DEF IInv, Bookkeeping

LEMMA BranchFacts ==
    ASSUME draining \in BOOLEAN, NEW p \in Procs, NEW o \in BoundEndpoints \cup {None}
    PROVE  /\ o = None => Branch(p, o) = "idle"
           /\ o # None /\ ~o.deleting /\ (p = Manager \/ ~draining) =>
                 Branch(p, o) \in {"register", UpsertStep(p)}
           /\ Branch(p, o) \in {"deleteTarget", "deleteUpstream", "close", "unregister"} =>
                 o # None /\ o.deleting
           /\ UpsertStep(Manager) = "upstream"
           /\ p \in Replicas => UpsertStep(p) = "listen" /\ p # Manager
<1>1. UpsertStep(Manager) = "upstream" /\ (p \in Replicas => UpsertStep(p) = "listen" /\ p # Manager)
  BY BindingsAssumption, Zenon DEF UpsertStep
<1>2. UpsertStep(p) \in {"upstream", "listen"} /\ DeleteStep(p) \in {"deleteTarget", "close"}
  BY Zenon DEF UpsertStep, DeleteStep
<1>3. CASE o = None
  BY <1>1, <1>3, Zenon DEF Branch
<1>4. CASE o # None
  <2>0. o.deleting \in BOOLEAN /\ o.finalizer \in BOOLEAN
    BY <1>4, FinalizerType, DeletingType, Zenon DEF BoundEndpoints
  <2>1. CASE ~o.deleting /\ p # Manager /\ draining
    <3>1. Branch(p, o) = "idle"
      BY <1>4, <2>0, <2>1, Zenon DEF Branch
    <3>2. QED
      BY <1>1, <1>4, <2>1, <3>1, Zenon
  <2>2. CASE ~o.deleting /\ (p = Manager \/ ~draining)
    <3>1. Branch(p, o) = IF o.finalizer THEN UpsertStep(p) ELSE "register"
      BY <1>4, <2>0, <2>2, Zenon DEF Branch
    <3>2. QED
      BY <1>1, <1>2, <1>4, <2>2, <3>1, Zenon
  <2>3. CASE o.deleting
    BY <1>1, <1>4, <2>3, Zenon
  <2>4. QED
    BY <2>0, <2>1, <2>2, <2>3, Zenon
<1>5. QED
  BY <1>3, <1>4, Zenon

\* A reconcile takes its name off the queue and works on the cached object; if
\* the cache is behind, another one is to come.
LEMMA ReconcileKeeps ==
    ASSUME IInv, TypeOK', NEW p \in Procs, NEW n \in Names, Reconcile(p, n)
    PROVE  IInv'
<1> USE DEF services, outside
<1> DEFINE c == cache[p][n]
           w == work'[p]
<1>0. TypeOK /\ Bookkeeping /\ Replicas \subseteq Procs /\ Manager \in Procs
  BY Zenon DEF IInv, Procs
<1>1. /\ UNCHANGED <<be, cache, target, upstream, namespace, listeners>>
      /\ UNCHANGED <<draining, want, objects, clash>>
  BY Zenon DEF Reconcile
<1>2. /\ work[p] = Idle
      /\ queue'[p] = queue[p] \ {n}
      /\ \A q \in Procs \ {p} : queue'[q] = queue[q] /\ work'[q] = work[q]
  BY <1>0, Zenon DEF Reconcile, TypeOK
<1>3. \/ Branch(p, c) = "idle" /\ w = Idle
      \/ /\ Branch(p, c) # "idle"
         /\ w.pc = Branch(p, c) /\ w.name = n /\ w.obj = c /\ w.failed = FALSE
  BY <1>0, Zenon DEF Reconcile, TypeOK
<1>4. c \in BoundEndpoints \cup {None} /\ draining \in BOOLEAN
  BY <1>0, Zenon DEF TypeOK
<1>5. work[p].name = None /\ Idle.name = None /\ Idle.pc = "idle"
  BY <1>2, IdleFields, Zenon
<1>6. Ages' /\ Clashes' /\ ServiceNames'
  BY <1>0, <1>1, Zenon DEF Bookkeeping, Ages, Clashes, ServiceNames
<1>7. Copies'
  <2>1. ASSUME w # Idle
        PROVE  /\ w.obj.uid <= objects
               /\ be[w.name] # None /\ be[w.name].uid = w.obj.uid =>
                     w.obj.port = be[w.name].port
               /\ w.failed => w.pc = "status"
               /\ w.pc \in {"deleteTarget", "deleteUpstream", "close", "unregister"} =>
                     w.obj.deleting
    <3>1. w.pc = Branch(p, c) /\ w.name = n /\ w.obj = c /\ w.failed = FALSE /\ c # None
      BY <1>3, <1>4, <2>1, BranchFacts, Zenon
    <3>2. w.pc \in {"deleteTarget", "deleteUpstream", "close", "unregister"} => c.deleting
      BY <1>4, <3>1, BranchFacts, Zenon
    <3>3. QED
      BY <1>0, <3>1, <3>2 DEF Bookkeeping, Ages
  <2>2. QED
    BY <1>0, <1>1, <1>2, <2>1 DEF Bookkeeping, Copies
<1>8. ASSUME NEW q \in Procs, NEW m \in Names, q # p \/ m # n, Known(q, m)
      PROVE  Known(q, m)'
  BY <1>1, <1>2, <1>8, Zenon DEF Known, PassesPredicate
<1>9. ASSUME Live(n), ~Known(p, n)'
      PROVE  /\ ~PassesPredicate(c, be[n]) /\ c # None
             /\ p = Manager \/ ~draining =>
                   /\ w.pc \in {"register", UpsertStep(p)}
                   /\ w.name = n /\ w.obj = c
  <2>1. ~PassesPredicate(c, be[n])
    BY <1>1, <1>9, Zenon DEF Known, PassesPredicate
  <2>2. c # None /\ c.deleting = be[n].deleting
    BY <2>1, Zenon DEF PassesPredicate
  <2>3. p = Manager \/ ~draining => Branch(p, c) \in {"register", UpsertStep(p)}
    BY <1>4, <1>9, <2>2, BranchFacts, Zenon DEF Live
  <2>4. UpsertStep(p) # "idle"
    BY Zenon DEF UpsertStep
  <2>5. QED
    BY <1>3, <2>1, <2>2, <2>3, <2>4, Zenon
<1>10. CopyKnown'
  <2> SUFFICES ASSUME NEW q \in Procs, NEW m \in Names, Live(m), work'[q].name = m, ~Known(q, m)'
               PROVE  ~PassesPredicate(work'[q].obj, be[m])
    BY <1>1, Zenon DEF CopyKnown, Live, PassesPredicate
  <2>1. CASE q # p
    BY <1>0, <1>2, <1>8, <2>1, Zenon DEF Bookkeeping, CopyKnown
  <2>2. CASE q = p
    <3>1. m = n /\ w.obj = c
      BY <1>3, <1>5, <2>2, NoneAssumption, Zenon
    <3>2. QED
      BY <1>9, <2>2, <3>1, Zenon
  <2>3. QED
    BY <2>1, <2>2, Zenon
<1>11. CloseKnown'
  <2> SUFFICES ASSUME NEW r \in Replicas, NEW m \in Names, work'[r].pc = "close",
                      work'[r].name # m, Live(m), be[m].port = work'[r].obj.port,
                      be[m].port \notin clash, ~Known(r, m)'
               PROVE  FALSE
    BY <1>1, Zenon DEF CloseKnown, Live
  <2>1. CASE r # p
    BY <1>0, <1>2, <1>8, <2>1, Zenon DEF Bookkeeping, CloseKnown
  <2>2. CASE r = p
    <3>1. w.name = n /\ w.obj = c /\ Branch(p, c) = "close" /\ m # n
      BY <1>3, <1>5, <2>2, Zenon
    <3>2. c # None
      BY <1>4, <3>1, BranchFacts, Zenon
    <3>3. ~PassesPredicate(cache[p][m], be[m])
      BY <1>1, <2>2, Zenon DEF Known, PassesPredicate
    <3>4. cache[p][m] # None /\ be[m] # None /\ cache[p][m].uid = be[m].uid
      BY <3>3, Zenon DEF PassesPredicate
    <3>5. cache[p][m].port = be[m].port
      BY <1>0, <3>4, Zenon DEF Bookkeeping, Ages
    <3>6. QED
      BY <1>0, <2>2, <3>1, <3>2, <3>4, <3>5, Zenon DEF Bookkeeping, Clashes
  <2>3. QED
    BY <2>1, <2>2, Zenon
<1>12. ASSUME NEW q \in Procs, NEW m \in Names, NEW S, Coming(q, m, S), Live(m),
              q = Manager \/ ~draining, {"register", UpsertStep(q)} \subseteq S
       PROVE  Coming(q, m, S)'
  <2>1. CASE q # p
    BY <1>1, <1>2, <1>12, <2>1, Zenon DEF Coming, PassesPredicate
  <2>2. CASE q = p /\ m # n
    <3>1. Known(p, m)
      BY <1>5, <1>12, <2>2, NoneAssumption, Zenon DEF Coming, Known
    <3>2. QED
      BY <1>8, <2>2, <3>1, Zenon DEF Known, Coming
  <2>3. CASE q = p /\ m = n /\ Known(p, n)'
    BY <2>3, Zenon DEF Known, Coming
  <2>4. CASE q = p /\ m = n /\ ~Known(p, n)'
    <3>1. w.pc \in S /\ w.name = n /\ ~PassesPredicate(w.obj, be[n])
      BY <1>9, <1>12, <2>4, Zenon
    <3>2. QED
      BY <1>1, <2>4, <3>1, Zenon DEF Coming, PassesPredicate
  <2>5. QED
    BY <2>1, <2>2, <2>3, <2>4, Zenon
<1>13. NoMissedServices'
  BY <1>0, <1>1, <1>12, BranchFacts, Zenon DEF IInv, NoMissedServices, Live, ServiceFor, UpsertStep
<1>14. NoMissedListener'
  <2>1. ASSUME NEW r \in Replicas PROVE UpsertStep(r) = "listen"
    BY <2>1, BindingsAssumption, Zenon DEF UpsertStep
  <2>2. QED
    BY <1>0, <1>1, <1>12, <2>1, Zenon DEF IInv, NoMissedListener, Live
<1>15. QED
  BY <1>6, <1>7, <1>10, <1>11, <1>13, <1>14, Zenon DEF IInv, Bookkeeping

(***************************************************************************)
(* The steps of a reconcile.                                               *)
(***************************************************************************)
Same(n) ==
    \/ be'[n] = be[n]
    \/ be'[n] = None
    \/ /\ be[n] # None /\ be'[n] # None
       /\ be'[n].uid = be[n].uid /\ be'[n].port = be[n].port
       /\ be'[n].gen = be[n].gen /\ be'[n].deleting = be[n].deleting

\* What every step of a reconcile by p has in common: it changes nothing of a
\* BoundEndpoint but the finalizer, and goes on with the same copy or the
\* present one.
Frame(p) ==
    /\ UNCHANGED <<cache, outside>>
    /\ \A n \in Names : Same(n)
    /\ \A q \in Procs : queue[q] \subseteq queue'[q]
    /\ \A q \in Procs \ {p} : work'[q] = work[q]
    /\ work[p] # Idle
    /\ \/ work'[p] = Idle
       \/ /\ work'[p] # Idle
          /\ work'[p].name = work[p].name
          /\ work'[p].pc # "close"
          /\ work'[p].obj = work[p].obj \/ work'[p].obj = be'[work[p].name]
          /\ work'[p].failed => work'[p].pc = "status"
          /\ work'[p].pc \in {"deleteTarget", "deleteUpstream", "unregister"} =>
                work[p].obj.deleting /\ work'[p].obj = work[p].obj

LEMMA SameLater ==
    ASSUME NEW n \in Names, Same(n)
    PROVE  Later(n) /\ (Live(n)' => Live(n) /\ ServiceFor(n, be'[n]) = ServiceFor(n, be[n])
                                            /\ be'[n].port = be[n].port)
<1>1. CASE be'[n] = be[n]
  BY <1>1, Zenon DEF Later, Live, ServiceFor
<1>2. CASE be'[n] = None
  BY <1>2, Zenon DEF Later, Live
<1>3. CASE /\ be[n] # None /\ be'[n] # None
           /\ be'[n].uid = be[n].uid /\ be'[n].port = be[n].port
           /\ be'[n].gen = be[n].gen /\ be'[n].deleting = be[n].deleting
  <2>1. Later(n)
    BY <1>3, Zenon DEF Later
  <2>2. ServiceFor(n, be'[n]) = ServiceFor(n, be[n])
    BY <1>3, Zenon DEF ServiceFor
  <2>3. QED
    BY <1>3, <2>1, <2>2, Zenon DEF Live
<1>4. QED
  BY <1>1, <1>2, <1>3, Zenon DEF Same

LEMMA FrameKnown ==
    ASSUME IInv, TypeOK', NEW p \in Procs, Frame(p), NEW q \in Procs, NEW n \in Names,
           Known(q, n), Live(n)'
    PROVE  Known(q, n)'
<1>1. TypeOK /\ Ages /\ Later(n) /\ cache' = cache /\ queue[q] \subseteq queue'[q]
  BY SameLater, Zenon DEF IInv, Bookkeeping, Frame
<1>2. QED
  BY <1>1, KnownLater, Zenon

\* A reconcile at a step of a deletion has a copy that is being deleted.
LEMMA DeletingKnown ==
    ASSUME IInv, NEW p \in Procs, NEW n \in Names, Live(n), work[p].name = n,
           work[p].pc \in {"deleteTarget", "deleteUpstream", "close", "unregister"}
    PROVE  Known(p, n)
<1>1. TypeOK /\ Copies /\ CopyKnown
  BY Zenon DEF IInv, Bookkeeping
<1>2. work[p] # Idle
  BY <1>1, NamedWork, Zenon
<1>3. work[p].obj.deleting
  BY <1>1, <1>2, Zenon DEF Copies
<1>4. PassesPredicate(work[p].obj, be[n])
  BY <1>3, Zenon DEF Live, PassesPredicate
<1>5. QED
  BY <1>1, <1>4, Zenon DEF CopyKnown

LEMMA FrameKeeps ==
    ASSUME IInv, TypeOK', NEW p \in Procs, Frame(p)
    PROVE  Ages' /\ Copies' /\ CopyKnown' /\ Clashes' /\ CloseKnown'
<1> USE DEF outside
<1>0. /\ TypeOK /\ Ages /\ Copies /\ CopyKnown /\ Clashes /\ CloseKnown
      /\ objects \in Nat /\ want \in Nat /\ Replicas \subseteq Procs
  BY BindingsAssumption DEF IInv, Bookkeeping, TypeOK, Procs
<1>1. /\ UNCHANGED <<cache, draining, want, objects, clash>>
      /\ \A n \in Names : Same(n) /\ Later(n)
      /\ \A q \in Procs \ {p} : work'[q] = work[q]
  BY SameLater, Zenon DEF Frame
<1>2. Ages'
  <2>1. \A n \in Names : be'[n] # None /\ be'[n] # be[n] =>
           be'[n].uid <= objects' /\ be'[n].gen <= want'
    BY <1>0, <1>1, Zenon DEF Same, Ages
  <2>2. QED
    BY <1>0, <1>1, <2>1, AgesLater
<1>3. Clashes'
  <2>1. \A n \in Names : be'[n] = None \/ (be[n] # None /\ be'[n].port = be[n].port)
    BY <1>1, Zenon DEF Same
  <2>2. QED
    BY <1>0, <1>1, <2>1, ClashesKept, Zenon
<1>4. ASSUME work'[p] # Idle
      PROVE  /\ work'[p] \in Works /\ work'[p].name = work[p].name /\ work[p].name \in Names
             /\ work'[p].obj \in BoundEndpoints /\ work'[p].obj # None
             /\ work'[p].pc # "close"
             /\ work'[p].obj = work[p].obj \/ work'[p].obj = be'[work[p].name]
             /\ work'[p].failed => work'[p].pc = "status"
             /\ work'[p].pc \in {"deleteTarget", "deleteUpstream", "close", "unregister"} =>
                   work'[p].obj.deleting
  <2>1. work'[p] \in Works
    BY <1>4, Zenon DEF TypeOK
  <2>2. work'[p].obj \in BoundEndpoints /\ work'[p].obj # None /\ work'[p].name \in Names
    BY <2>1, NoneAssumption, Zenon DEF Works
  <2>3. QED
    BY <1>4, <2>1, <2>2, Zenon DEF Frame
<1>5. Copies'
  <2> SUFFICES ASSUME NEW q \in Procs, work'[q] # Idle
               PROVE  /\ work'[q].obj.uid <= objects
                      /\ be'[work'[q].name] # None /\ be'[work'[q].name].uid = work'[q].obj.uid =>
                            work'[q].obj.port = be'[work'[q].name].port
                      /\ work'[q].failed => work'[q].pc = "status"
                      /\ work'[q].pc \in {"deleteTarget", "deleteUpstream", "close", "unregister"} =>
                            work'[q].obj.deleting
    BY <1>1, Zenon DEF Copies
  <2> DEFINE n == work'[q].name
  <2>0. n \in Names
    BY Zenon DEF TypeOK, Works
  <2>1. CASE /\ work[q] # Idle /\ n = work[q].name /\ work'[q].obj = work[q].obj
    <3>1. /\ work'[q].obj.uid <= objects
          /\ be[n] # None /\ be[n].uid = work'[q].obj.uid => work'[q].obj.port = be[n].port
      BY <1>0, <2>1, Zenon DEF Copies
    <3>2. be'[n] # None => be[n] # None /\ be'[n].uid = be[n].uid /\ be'[n].port = be[n].port
      BY <1>1, <2>0, Zenon DEF Same
    <3>3. /\ work'[q].failed => work'[q].pc = "status"
          /\ work'[q].pc \in {"deleteTarget", "deleteUpstream", "close", "unregister"} =>
                work'[q].obj.deleting
      BY <1>0, <1>1, <1>4, <2>1, Zenon DEF Copies
    <3>4. QED
      BY <3>1, <3>2, <3>3, Zenon
  <2>2. CASE q = p /\ work'[p].obj = be'[n]
    BY <1>1, <1>2, <1>4, <2>0, <2>2, Zenon DEF Ages
  <2>3. QED
    BY <1>1, <1>4, <2>1, <2>2, Zenon DEF Frame
<1>6. CopyKnown'
  <2> SUFFICES ASSUME NEW q \in Procs, NEW n \in Names, Live(n)', work'[q].name = n
               PROVE  Known(q, n)' \/ ~PassesPredicate(work'[q].obj, be'[n])
    BY Zenon DEF CopyKnown
  <2>1. work'[q] # Idle
    BY IdleFields, NoneAssumption, Zenon
  <2>2. CASE work'[q].name = work[q].name /\ work'[q].obj = work[q].obj
    <3>1. Live(n) /\ work[q].obj \in BoundEndpoints
      BY <1>0, <1>1, <2>2, NamedWork, SameLater, Zenon
    <3>2. CASE Known(q, n)
      BY <3>2, FrameKnown, Zenon
    <3>3. CASE ~PassesPredicate(work[q].obj, be[n])
      BY <1>0, <1>1, <2>2, <3>1, <3>3, CopyLater, Zenon DEF Frame
    <3>4. QED
      BY <1>0, <2>2, <3>1, <3>2, <3>3, Zenon DEF CopyKnown
  <2>3. CASE q = p /\ work'[p].obj = be'[n]
    BY <2>3, Zenon DEF Live, PassesPredicate
  <2>4. QED
    BY <1>1, <1>4, <2>1, <2>2, <2>3, Zenon
<1>7. CloseKnown'
  <2> SUFFICES ASSUME NEW r \in Replicas, NEW n \in Names, work'[r].pc = "close",
                      work'[r].name # n, Live(n)', be'[n].port = work'[r].obj.port,
                      be'[n].port \notin clash
               PROVE  Known(r, n)'
    BY <1>1, Zenon DEF CloseKnown
  <2>1. r # p /\ work'[r] = work[r]
    BY <1>0, <1>1, <1>4, IdleFields, Zenon
  <2>2. Live(n) /\ be'[n].port = be[n].port
    BY <1>1, SameLater, Zenon
  <2>3. Known(r, n)
    BY <1>0, <2>1, <2>2, Zenon DEF CloseKnown
  <2>4. QED
    BY <1>0, <2>3, FrameKnown, Zenon
<1>8. QED
  BY <1>2, <1>3, <1>5, <1>6, <1>7, Zenon

LEMMA BusyWork ==
    ASSUME TypeOK, NEW p \in Procs, work[p].pc # "idle"
    PROVE  /\ work[p] # Idle /\ work[p] \in Works
           /\ work[p].name \in Names /\ work[p].obj \in BoundEndpoints
<1>1. work[p] # Idle
  BY IdleFields, Zenon
<1>2. QED
  BY <1>1, Zenon DEF TypeOK, Works

LEMMA ReturnFrame ==
    ASSUME TypeOK, NEW p \in Procs, NEW err \in BOOLEAN, work[p].pc # "idle", Return(p, err),
           UNCHANGED <<cache, outside>>, \A n \in Names : Same(n)
    PROVE  Frame(p) /\ work'[p] = Idle /\ (err => work[p].name \in queue'[p])
<1>1. work'[p] = Idle /\ \A q \in Procs \ {p} : work'[q] = work[q]
  BY Zenon DEF Return, TypeOK
<1>2. (\A q \in Procs : queue[q] \subseteq queue'[q]) /\ (err => work[p].name \in queue'[p])
  BY Zenon DEF Return, TypeOK
<1>3. work[p] # Idle
  BY BusyWork, Zenon
<1>4. QED
  BY <1>1, <1>2, <1>3, Zenon DEF Frame

LEMMA GoOnFrame ==
    ASSUME TypeOK, NEW p \in Procs, NEW step, NEW o, NEW failed, work[p].pc # "idle",
           GoOn(p, step, o, failed), UNCHANGED <<queue, cache, outside>>,
           \A n \in Names : Same(n),
           step \notin {"idle", "close"},
           o = work[p].obj \/ o = be'[work[p].name],
           failed => step = "status",
           step \in {"deleteTarget", "deleteUpstream", "unregister"} =>
              work[p].obj.deleting /\ o = work[p].obj
    PROVE  /\ Frame(p)
           /\ work'[p].pc = step /\ work'[p].name = work[p].name
           /\ work'[p].obj = o /\ work'[p].failed = failed
<1>1. /\ work'[p] = [pc |-> step, name |-> work[p].name, obj |-> o, failed |-> failed]
      /\ \A q \in Procs \ {p} : work'[q] = work[q]
  BY Zenon DEF GoOn, TypeOK
<1>2. /\ work'[p].pc = step /\ work'[p].name = work[p].name
      /\ work'[p].obj = o /\ work'[p].failed = failed
  BY <1>1
<1>3. work'[p] # Idle
  BY <1>2, IdleFields, Zenon
<1>4. work[p] # Idle
  BY BusyWork, Zenon
<1>5. QED
  BY <1>1, <1>2, <1>3, <1>4, Zenon DEF Frame

Served(n) ==
    Live(n) =>
       /\ \/ upstream[n] = ServiceFor(n, be[n])
          \/ Coming(Manager, n, {"register", "upstream"})
       /\ \/ ~namespace
          \/ target[TargetOf[n]] = ServiceFor(n, be[n])
          \/ Coming(Manager, n, {"register", "upstream", "target"})

Heard(r, n) ==
    Live(n) /\ ~draining /\ be[n].port \notin clash =>
       listeners[r][be[n].port] # None \/ Coming(r, n, {"register", "listen"})

LEMMA ServedHeard ==
    /\ NoMissedServices <=> \A n \in Names : Served(n)
    /\ NoMissedListener <=> \A r \in Replicas, n \in Names : Heard(r, n)
  BY Zenon DEF NoMissedServices, NoMissedListener, Served, Heard

\* A BoundEndpoint another process, or a reconcile of another name, works on.
LEMMA FrameComing ==
    ASSUME IInv, TypeOK', NEW p \in Procs, Frame(p), NEW q \in Procs, NEW n \in Names, NEW S,
           Coming(q, n, S), Live(n)', q # p \/ work[p].name # n
    PROVE  Coming(q, n, S)'
<1>1. TypeOK /\ Ages /\ cache' = cache /\ queue[q] \subseteq queue'[q] /\ Later(n)
  BY SameLater, Zenon DEF IInv, Bookkeeping, Frame
<1>2. CASE q # p
  <2>1. work'[q] = work[q]
    BY <1>2, Zenon DEF Frame
  <2>2. QED
    BY <1>1, <2>1, ComingLater, Zenon
<1>3. CASE q = p /\ work[p].name # n
  <2>1. Known(q, n)
    BY <1>3, Zenon DEF Coming, Known
  <2>2. Known(q, n)'
    BY <2>1, FrameKnown, Zenon
  <2>3. QED
    BY <2>2, Zenon DEF Known, Coming
<1>4. QED
  BY <1>2, <1>3, Zenon

LEMMA FrameServed ==
    ASSUME IInv, TypeOK', NEW p \in Procs, Frame(p), NEW n \in Names,
           p # Manager \/ work[p].name # n,
           upstream'[n] = upstream[n], target'[TargetOf[n]] = target[TargetOf[n]],
           namespace' = namespace
    PROVE  Served(n)'
<1> SUFFICES ASSUME Live(n)'
             PROVE  /\ \/ upstream[n] = ServiceFor(n, be'[n])
                       \/ Coming(Manager, n, {"register", "upstream"})'
                    /\ \/ ~namespace
                       \/ target[TargetOf[n]] = ServiceFor(n, be'[n])
                       \/ Coming(Manager, n, {"register", "upstream", "target"})'
  BY Zenon DEF Served, ServiceFor
<1>1. Live(n) /\ ServiceFor(n, be'[n]) = ServiceFor(n, be[n]) /\ Manager \in Procs
  BY SameLater, Zenon DEF Frame, Procs
<1>2. Served(n)
  BY ServedHeard, Zenon DEF IInv
<1>3. ASSUME NEW S, Coming(Manager, n, S) PROVE Coming(Manager, n, S)'
  BY <1>1, <1>3, FrameComing, Zenon
<1>4. QED
  BY <1>1, <1>2, <1>3, Zenon DEF Served

LEMMA FrameHeard ==
    ASSUME IInv, TypeOK', NEW p \in Procs, Frame(p), NEW r \in Replicas, NEW n \in Names,
           r # p \/ work[p].name # n,
           \A port \in Ports : listeners[r][port] # None => listeners'[r][port] # None
    PROVE  Heard(r, n)'
<1> SUFFICES ASSUME Live(n)', ~draining', be'[n].port \notin clash'
             PROVE  listeners'[r][be'[n].port] # None \/ Coming(r, n, {"register", "listen"})'
  BY Zenon DEF Heard
<1>1. Live(n) /\ be'[n].port = be[n].port /\ r \in Procs
  BY SameLater, Zenon DEF Frame, Procs
<1>2. Heard(r, n) /\ draining' = draining /\ clash' = clash
  BY ServedHeard, Zenon DEF IInv, Frame, outside
<1>3. be[n].port \in Ports
  BY <1>1, Zenon DEF IInv, TypeOK, Live, BoundEndpoints
<1>4. ASSUME NEW S, Coming(r, n, S) PROVE Coming(r, n, S)'
  BY <1>1, <1>4, FrameComing, Zenon
<1>5. QED
  BY <1>1, <1>2, <1>3, <1>4, Zenon DEF Heard

\* What is enough for the name a reconcile works on.
LEMMA KnownServed ==
    ASSUME NEW n \in Names, Live(n)' => Known(Manager, n)'
    PROVE  Served(n)'
  BY Zenon DEF Served, Known, Coming

LEMMA KnownHeard ==
    ASSUME NEW r \in Replicas, NEW n \in Names, Live(n)' => Known(r, n)'
    PROVE  Heard(r, n)'
  BY Zenon DEF Heard, Known, Coming

LEMMA FrameFinish ==
    ASSUME IInv, TypeOK', NEW p \in Procs, Frame(p), NEW own \in Names, own = work[p].name,
           ServiceNames', namespace' = namespace,
           \A n \in Names : p # Manager \/ work[p].name # n =>
              upstream'[n] = upstream[n] /\ target'[TargetOf[n]] = target[TargetOf[n]],
           \A r \in Replicas \ {p} : listeners'[r] = listeners[r],
           p = Manager => Served(own)',
           p \in Replicas => \A n \in Names : Heard(p, n)'
    PROVE  IInv'
<1>1. \A n \in Names : Served(n)'
  <2> SUFFICES ASSUME NEW n \in Names PROVE Served(n)'
    OBVIOUS
  <2>1. CASE p # Manager \/ work[p].name # n
    BY <2>1, FrameServed, Zenon
  <2>2. CASE p = Manager /\ work[p].name = n
    BY <2>2, Zenon
  <2>3. QED
    BY <2>1, <2>2, Zenon
<1>2. \A r \in Replicas, n \in Names : Heard(r, n)'
  <2> SUFFICES ASSUME NEW r \in Replicas, NEW n \in Names PROVE Heard(r, n)'
    OBVIOUS
  <2>1. CASE r # p
    BY <2>1, FrameHeard
  <2>2. CASE r = p
    BY <2>2, Zenon
  <2>3. QED
    BY <2>1, <2>2, Zenon
<1>3. NoMissedServices' /\ NoMissedListener'
  BY <1>1, <1>2, Zenon DEF NoMissedServices, NoMissedListener, Served, Heard
<1>4. Ages' /\ Copies' /\ CopyKnown' /\ Clashes' /\ CloseKnown'
  BY FrameKeeps, Zenon
<1>5. QED
  BY <1>3, <1>4, Zenon DEF IInv, Bookkeeping

\* The steps that touch neither Services nor listeners.
LEMMA FrameQuiet ==
    ASSUME IInv, TypeOK', NEW p \in Procs, Frame(p), NEW own \in Names, own = work[p].name,
           UNCHANGED <<services, listeners>>,
           p = Manager => Served(own)',
           p \in Replicas => Heard(p, own)'
    PROVE  IInv'
<1> USE DEF services
<1>1. ServiceNames'
  BY Zenon DEF IInv, Bookkeeping, ServiceNames
<1>2. p \in Replicas => \A n \in Names : Heard(p, n)'
  <2> SUFFICES ASSUME p \in Replicas, NEW n \in Names PROVE Heard(p, n)'
    OBVIOUS
  <2>1. CASE work[p].name = n
    BY <2>1, Zenon
  <2>2. CASE work[p].name # n
    BY <2>2, FrameHeard, Zenon
  <2>3. QED
    BY <2>1, <2>2, Zenon
<1>3. QED
  BY <1>1, <1>2, FrameFinish, Zenon

LEMMA RegisterKeeps ==
    ASSUME IInv, TypeOK', NEW p \in Procs, RegisterFinalizer(p)
    PROVE  IInv'
<1>0. /\ TypeOK /\ work[p].pc = "register"
      /\ UNCHANGED <<cache, services, listeners, outside>>
  BY Zenon DEF IInv, RegisterFinalizer
<1>1. PICK n \in Names : n = work[p].name
  BY <1>0, BusyWork, Zenon
<1>2. CASE be[n] = None
  <2>1. Return(p, TRUE) /\ be' = be
    BY <1>1, <1>2, Zenon DEF RegisterFinalizer
  <2>2. Frame(p)
    BY <1>0, <2>1, ReturnFrame, Zenon DEF Same
  <2>3. Served(n)' /\ (p \in Replicas => Heard(p, n)')
    BY <1>2, <2>1, Zenon DEF Served, Heard, Live
  <2>4. QED
    BY <1>0, <2>2, <2>3, <1>1, FrameQuiet, Zenon
<1>3. CASE be[n] # None
  <2>1. /\ be' = [be EXCEPT ![n].finalizer = TRUE]
        /\ GoOn(p, UpsertStep(p), be'[n], FALSE)
        /\ queue' = queue
    BY <1>1, <1>3, Zenon DEF RegisterFinalizer
  <2>2. be[n] \in BoundEndpoints
    BY <1>0, <1>1, <1>3, Zenon DEF TypeOK
  <2>3. /\ be'[n].uid = be[n].uid /\ be'[n].port = be[n].port
        /\ be'[n].gen = be[n].gen /\ be'[n].deleting = be[n].deleting
        /\ be'[n].finalizer = TRUE
        /\ \A m \in Names \ {n} : be'[m] = be[m]
    BY <1>0, <1>1, <2>1, <2>2, Zenon DEF TypeOK, BoundEndpoints
  <2>4. \A m \in Names : Same(m)
    BY <1>3, <2>3, Zenon DEF Same
  <2>5. UpsertStep(p) \in {"upstream", "listen"}
    BY Zenon DEF UpsertStep
  <2>6. /\ Frame(p)
        /\ work'[p].pc = UpsertStep(p) /\ work'[p].name = n /\ work'[p].obj = be'[n]
    BY <1>0, <1>1, <2>1, <2>4, <2>5, GoOnFrame, Zenon
  <2>7. ASSUME NEW S, UpsertStep(p) \in S, Live(n)'
        PROVE  Coming(p, n, S)'
    BY <2>6, <2>7, Zenon DEF Coming, Live, PassesPredicate
  <2>8. p = Manager => Served(n)'
    BY <2>7, Zenon DEF Served, UpsertStep
  <2>9. p \in Replicas => Heard(p, n)'
    BY <2>7, BindingsAssumption, Zenon DEF Heard, UpsertStep
  <2>10. QED
    BY <1>0, <2>6, <2>8, <2>9, <1>1, FrameQuiet, Zenon
<1>4. QED
  BY <1>2, <1>3, Zenon

LEMMA RemoveKeeps ==
    ASSUME IInv, TypeOK', NEW p \in Procs, RemoveFinalizer(p)
    PROVE  IInv'
<1>0. /\ TypeOK /\ work[p].pc = "unregister"
      /\ UNCHANGED <<cache, services, listeners, outside>>
      /\ \E err \in BOOLEAN : Return(p, err)
  BY Zenon DEF IInv, RemoveFinalizer
<1>1. PICK n \in Names : n = work[p].name
  BY <1>0, BusyWork, Zenon
<1>2. \A m \in Names : Same(m)
  <2>1. CASE be[n] = None
    BY <1>1, <2>1, Zenon DEF RemoveFinalizer, Same
  <2>2. CASE be[n] # None
    <3>1. be[n] \in BoundEndpoints
      BY <1>0, <1>1, <2>2, Zenon DEF TypeOK
    <3>2. be' = [be EXCEPT ![n] = IF @.deleting THEN None ELSE [@ EXCEPT !.finalizer = FALSE]]
      BY <1>1, <2>2, Zenon DEF RemoveFinalizer
    <3>3. \A m \in Names \ {n} : be'[m] = be[m]
      BY <1>0, <1>1, <3>2, Zenon DEF TypeOK
    <3>4. \/ be'[n] = None
          \/ /\ be'[n].uid = be[n].uid /\ be'[n].port = be[n].port
             /\ be'[n].gen = be[n].gen /\ be'[n].deleting = be[n].deleting
      BY <1>0, <1>1, <3>1, <3>2, Zenon DEF TypeOK, BoundEndpoints
    <3>5. Same(n)
      BY <2>2, <3>4, Zenon DEF Same
    <3>6. QED
      BY <3>3, <3>5, Zenon DEF Same
  <2>3. QED
    BY <2>1, <2>2, Zenon
<1>3. Frame(p)
  BY <1>0, <1>2, ReturnFrame, Zenon
<1>4. Live(n)' => Known(p, n)'
  <2> SUFFICES ASSUME Live(n)' PROVE Known(p, n)'
    OBVIOUS
  <2>1. Live(n)
    BY <1>1, <1>2, SameLater, Zenon
  <2>2. Known(p, n)
    BY <1>0, <1>1, <2>1, DeletingKnown, Zenon
  <2>3. QED
    BY <1>1, <1>3, <2>2, FrameKnown, Zenon
<1>5. p = Manager => Served(n)'
  BY <1>1, <1>4, KnownServed, Zenon
<1>6. p \in Replicas => Heard(p, n)'
  BY <1>1, <1>4, KnownHeard, Zenon
<1>7. QED
  BY <1>0, <1>3, <1>5, <1>6, <1>1, FrameQuiet, Zenon

LEMMA CurrentCopy ==
    ASSUME IInv, NEW p \in Procs, NEW n \in Names, work[p].name = n, Live(n), ~Known(p, n)
    PROVE  /\ ~PassesPredicate(work[p].obj, be[n])
           /\ ServiceFor(n, work[p].obj) = ServiceFor(n, be[n])
           /\ work[p].obj.port = be[n].port
<1>1. TypeOK /\ Copies /\ CopyKnown
  BY Zenon DEF IInv, Bookkeeping
<1>2. ~PassesPredicate(work[p].obj, be[n]) /\ work[p] # Idle
  BY <1>1, NamedWork, Zenon DEF CopyKnown
<1>3. work[p].obj.uid = be[n].uid /\ work[p].obj.gen = be[n].gen
  BY <1>2, Zenon DEF PassesPredicate
<1>4. work[p].obj.port = be[n].port
  BY <1>1, <1>2, <1>3, Zenon DEF Copies, Live
<1>5. QED
  BY <1>2, <1>3, <1>4, Zenon DEF ServiceFor

\* Before the Target Service is made the Upstream Service has been; before the
\* status is written both have been, unless the update has failed.
LEMMA ServedSoFar ==
    ASSUME IInv, NEW n \in Names, mgr.name = n, Live(n), ~Known(Manager, n), ~mgr.failed
    PROVE  /\ mgr.pc \in {"target", "status"} => upstream[n] = ServiceFor(n, be[n])
           /\ mgr.pc = "status" => ~namespace \/ target[TargetOf[n]] = ServiceFor(n, be[n])
<1>1. Served(n)
  BY ServedHeard, Zenon DEF IInv
<1>2. QED
  BY <1>1, Zenon DEF Served, Coming, Known, mgr

\* The updates of the BoundEndpoint controller.
LEMMA UpdatesKeep ==
    ASSUME IInv, TypeOK', UpdateUpstream \/ UpdateTarget \/ UpdateServiceFails
    PROVE  IInv'
<1> USE DEF services, mgr
<1>0. /\ TypeOK /\ ServiceNames /\ Copies /\ Manager \in Procs
      /\ mgr.pc \in {"upstream", "target"}
      /\ UNCHANGED <<be, cache, queue, namespace, listeners, outside>>
      /\ \A m \in Names : Same(m)
  BY Zenon DEF IInv, Bookkeeping, Procs, UpdateUpstream, UpdateTarget, UpdateServiceFails, Same
<1>1. PICK n \in Names : n = mgr.name
  BY <1>0, BusyWork, Zenon
<1>2. mgr \in Works /\ mgr # Idle /\ ~mgr.failed
  BY <1>0, BusyWork, Zenon DEF Copies
<1>3. \A m \in Names : TargetOf[m] \in Targets
  BY Zenon DEF Targets
<1>4. ServiceFor(n, mgr.obj) # None /\ ServiceFor(n, mgr.obj).name = n
  <2>1. ServiceFor(n, mgr.obj) \in Services
    BY <1>2, Zenon DEF Works, BoundEndpoints, Services, ServiceFor
  <2>2. QED
    BY <2>1, NoneAssumption, Zenon DEF ServiceFor
<1>5. CASE UpdateUpstream
  <2>1. /\ GoOn(Manager, "target", mgr.obj, FALSE) /\ mgr.pc = "upstream"
        /\ upstream' = [upstream EXCEPT ![n] = ServiceFor(n, mgr.obj)]
        /\ target' = target
    BY <1>1, <1>5, Zenon DEF UpdateUpstream
  <2>2. /\ Frame(Manager) /\ work'[Manager].pc = "target"
        /\ work'[Manager].name = n /\ work'[Manager].obj = mgr.obj
    <3>1. Frame(Manager)
      BY <1>0, <1>1, <2>1, GoOnFrame, Zenon
    <3>2. work'[Manager] = [pc |-> "target", name |-> n, obj |-> mgr.obj, failed |-> FALSE]
      BY <1>0, <1>1, <2>1, Zenon DEF GoOn, TypeOK
    <3>3. QED
      BY <3>1, <3>2
  <2>3. \A m \in Names : upstream'[m] = IF m = n THEN ServiceFor(n, mgr.obj) ELSE upstream[m]
    BY <1>0, <2>1, Zenon DEF TypeOK
  <2>4. ServiceNames'
    BY <1>0, <1>4, <2>1, <2>3, Zenon DEF ServiceNames
  <2>5. Served(n)'
    <3>1. CASE Live(n) /\ ~Known(Manager, n)
      <4>1. /\ ~PassesPredicate(mgr.obj, be[n])
            /\ ServiceFor(n, mgr.obj) = ServiceFor(n, be[n])
        BY <1>0, <1>1, <3>1, CurrentCopy, Zenon
      <4>2. Coming(Manager, n, {"register", "upstream", "target"})'
        BY <1>0, <2>2, <4>1, Zenon DEF Coming, PassesPredicate
      <4>3. QED
        BY <1>0, <2>3, <4>1, <4>2, Zenon DEF Served, ServiceFor
    <3>2. CASE ~Live(n) \/ Known(Manager, n)
      BY <1>0, <3>2, KnownServed, KnownStays, Zenon DEF Live
    <3>3. QED
      BY <3>1, <3>2, Zenon
  <2>6. QED
    BY <1>0, <1>1, <2>1, <2>2, <2>3, <2>4, <2>5, FrameFinish, BindingsAssumption
<1>6. CASE UpdateTarget
  <2>1. /\ GoOn(Manager, "status", mgr.obj, FALSE) /\ mgr.pc = "target"
        /\ target' = [target EXCEPT ![TargetOf[n]] = ServiceFor(n, mgr.obj)]
        /\ upstream' = upstream
    BY <1>1, <1>6, Zenon DEF UpdateTarget
  <2>2. Frame(Manager)
    BY <1>0, <1>1, <2>1, GoOnFrame, Zenon
  <2>3. \A m \in Names : target'[TargetOf[m]] =
           IF m = n THEN ServiceFor(n, mgr.obj) ELSE target[TargetOf[m]]
    BY <1>0, <1>3, <2>1, BindingsAssumption, Zenon DEF TypeOK
  <2>4. ServiceNames'
    BY <1>0, <1>4, <2>1, <2>3 DEF ServiceNames
  <2>5. Served(n)'
    <3>1. CASE Live(n) /\ ~Known(Manager, n)
      <4>1. /\ ServiceFor(n, mgr.obj) = ServiceFor(n, be[n])
            /\ upstream[n] = ServiceFor(n, be[n])
        BY <1>0, <1>1, <1>2, <2>1, <3>1, CurrentCopy, ServedSoFar, Zenon
      <4>2. QED
        BY <1>0, <2>1, <2>3, <4>1, Zenon DEF Served, ServiceFor
    <3>2. CASE ~Live(n) \/ Known(Manager, n)
      BY <1>0, <3>2, KnownServed, KnownStays DEF Live
    <3>3. QED
      BY <3>1, <3>2
  <2>6. QED
    BY <1>0, <1>1, <2>1, <2>2, <2>3, <2>4, <2>5, FrameFinish, BindingsAssumption
<1>7. CASE UpdateServiceFails
  <2>1. GoOn(Manager, "status", mgr.obj, TRUE) /\ UNCHANGED services
    BY <1>7, Zenon DEF UpdateServiceFails
  <2>2. Frame(Manager) /\ work'[Manager].name = n /\ work'[Manager].failed
    <3>1. Frame(Manager)
      BY <1>0, <1>1, <2>1, GoOnFrame, Zenon
    <3>2. work'[Manager] = [pc |-> "status", name |-> n, obj |-> mgr.obj, failed |-> TRUE]
      BY <1>0, <1>1, <2>1, Zenon DEF GoOn, TypeOK
    <3>3. work'[Manager].name = n /\ work'[Manager].failed
      BY ONLY <3>2
    <3>4. QED
      BY ONLY <3>1, <3>3
  <2>3. Served(n)'
    BY <2>2, Zenon DEF Served, Coming
  <2>4. QED
    BY <1>0, <1>1, <2>1, <2>2, <2>3, FrameQuiet, BindingsAssumption
<1>8. QED
  BY <1>5, <1>6, <1>7, Zenon

LEMMA StatusKeeps ==
    ASSUME IInv, TypeOK', UpdateStatus \/ UpdateStatusFails \/ DeleteServiceFails
    PROVE  IInv'
<1> USE DEF mgr
<1>0. /\ TypeOK /\ Copies /\ Manager \in Procs
      /\ mgr.pc \in {"status", "deleteTarget", "deleteUpstream"}
      /\ UNCHANGED <<be, cache, services, listeners, outside>>
      /\ \A m \in Names : Same(m)
  BY Zenon DEF IInv, Bookkeeping, Procs, UpdateStatus, UpdateStatusFails, DeleteServiceFails, Same
<1>1. PICK n \in Names : n = mgr.name
  BY <1>0, BusyWork, Zenon
<1>2. mgr.failed \in BOOLEAN
  BY <1>0, BusyWork, Zenon DEF Works
<1>3. ASSUME NEW err \in BOOLEAN, Return(Manager, err), err \/ (~mgr.failed /\ mgr.pc = "status")
      PROVE  IInv'
  <2>1. Frame(Manager) /\ (err => n \in queue'[Manager])
    BY <1>0, <1>1, <1>3, ReturnFrame, Zenon
  <2>2. CASE err
    BY <1>0, <1>1, <2>1, <2>2, KnownServed, FrameQuiet, BindingsAssumption, Zenon DEF Known
  <2>3. CASE ~mgr.failed /\ mgr.pc = "status"
    <3>1. Served(n)'
      <4>1. CASE Live(n) /\ ~Known(Manager, n)
        <5>1. /\ upstream[n] = ServiceFor(n, be[n])
              /\ ~namespace \/ target[TargetOf[n]] = ServiceFor(n, be[n])
          BY <1>1, <2>3, <4>1, ServedSoFar, Zenon
        <5>2. QED
          BY <1>0, <5>1, Zenon DEF Served, ServiceFor, services
      <4>2. CASE ~Live(n) \/ Known(Manager, n)
        BY <1>0, <2>1, <4>2, KnownServed, KnownStays, Zenon DEF Live, Frame
      <4>3. QED
        BY <4>1, <4>2, Zenon
    <3>2. QED
      BY <1>0, <1>1, <2>1, <3>1, FrameQuiet, BindingsAssumption, Zenon
  <2>4. QED
    BY <1>3, <2>2, <2>3, Zenon
<1>4. QED
  BY <1>2, <1>3, Zenon DEF UpdateStatus, UpdateStatusFails, DeleteServiceFails

\* A deletion takes Services away from a live BoundEndpoint only if the
\* api-manager is to learn of that one.
LEMMA DeletesKeep ==
    ASSUME IInv, TypeOK', DeleteTarget \/ DeleteUpstream
    PROVE  IInv'
<1> USE DEF services, mgr
<1>0. /\ TypeOK /\ ServiceNames /\ Copies /\ Manager \in Procs
      /\ mgr.pc \in {"deleteTarget", "deleteUpstream"}
      /\ UNCHANGED <<be, cache, queue, namespace, listeners, outside>>
      /\ \A m \in Names : Same(m)
  BY Zenon DEF IInv, Bookkeeping, Procs, DeleteTarget, DeleteUpstream, Same
<1>1. PICK n \in Names : n = mgr.name
  BY <1>0, BusyWork, Zenon
<1>2. mgr # Idle /\ mgr.obj.deleting
  BY <1>0, BusyWork, Zenon DEF Copies
<1>3. Served(n)'
  BY <1>0, <1>1, DeletingKnown, KnownServed, KnownStays, Zenon DEF Live
<1>4. \A m \in Names : TargetOf[m] \in Targets
  BY Zenon DEF Targets
<1>5. CASE DeleteTarget
  <2>1. /\ \E step \in {"unregister", "deleteUpstream"} : GoOn(Manager, step, mgr.obj, FALSE)
        /\ target' = [target EXCEPT ![TargetOf[n]] = None]
        /\ upstream' = upstream
    BY <1>1, <1>5, Zenon DEF DeleteTarget
  <2>2. Frame(Manager)
    BY <1>0, <1>1, <1>2, <2>1, GoOnFrame, Zenon
  <2>3. \A m \in Names : target'[TargetOf[m]] = IF m = n THEN None ELSE target[TargetOf[m]]
    BY <1>0, <1>4, <2>1, BindingsAssumption, Zenon DEF TypeOK
  <2>4. ServiceNames'
    BY <1>0, <2>1, <2>3 DEF ServiceNames
  <2>5. QED
    BY <1>0, <1>1, <1>3, <2>1, <2>2, <2>3, <2>4, FrameFinish, BindingsAssumption
<1>6. CASE DeleteUpstream
  <2>1. /\ GoOn(Manager, "unregister", mgr.obj, FALSE)
        /\ upstream' = [upstream EXCEPT ![n] = None]
        /\ target' = target
    BY <1>1, <1>6, Zenon DEF DeleteUpstream
  <2>2. Frame(Manager)
    BY <1>0, <1>1, <1>2, <2>1, GoOnFrame, Zenon
  <2>3. \A m \in Names : upstream'[m] = IF m = n THEN None ELSE upstream[m]
    BY <1>0, <2>1, Zenon DEF TypeOK
  <2>4. ServiceNames'
    BY <1>0, <2>1, <2>3, Zenon DEF ServiceNames
  <2>5. \A m \in Names : Manager # Manager \/ work[Manager].name # m =>
           upstream'[m] = upstream[m] /\ target'[TargetOf[m]] = target[TargetOf[m]]
    BY <1>1, <2>1, <2>3, Zenon
  <2>6. /\ Manager \notin Replicas
        /\ \A r \in Replicas \ {Manager} : listeners'[r] = listeners[r]
    BY <1>0, BindingsAssumption, Zenon
  <2>7. QED
    BY <1>0, <1>1, <1>3, <2>2, <2>4, <2>5, <2>6, FrameFinish, Zenon
<1>7. QED
  BY <1>5, <1>6, Zenon

LEMMA ForwarderKeeps ==
    ASSUME IInv, TypeOK', NEW r \in Replicas, ForwarderSteps(r)
    PROVE  IInv'
<1> USE DEF services
<1>0. /\ TypeOK /\ ServiceNames /\ Copies /\ CloseKnown /\ r \in Procs /\ r # Manager
      /\ work[r].pc \in {"listen", "close"}
      /\ UNCHANGED <<be, cache, services, outside>>
      /\ \A m \in Names : Same(m)
  BY BindingsAssumption, Zenon
     DEF IInv, Bookkeeping, Procs, ForwarderSteps, Listen, ListenFails, Close, Same
<1>1. PICK n \in Names : n = work[r].name
  BY <1>0, BusyWork, Zenon
<1>2. /\ work[r] # Idle /\ work[r] \in Works
      /\ work[r].obj \in BoundEndpoints /\ work[r].obj.port \in Ports
  BY <1>0, BusyWork, Zenon DEF BoundEndpoints
<1>3. ServiceNames'
  BY <1>0, Zenon DEF ServiceNames
<1>4. ASSUME NEW m \in Names, Live(m) => Known(r, m), queue[r] \subseteq queue'[r]
      PROVE  Heard(r, m)'
  BY <1>0, <1>4, KnownHeard, KnownStays, Zenon DEF Live
<1>5. CASE Listen(r)
  <2>1. /\ Return(r, FALSE)
        /\ listeners' = [listeners EXCEPT ![r][work[r].obj.port] =
              IF @ = None THEN [name |-> work[r].name, uid |-> work[r].obj.uid] ELSE @]
    BY <1>5, Zenon DEF Listen
  <2>2. Frame(r)
    BY <1>0, <2>1, ReturnFrame, Zenon
  <2>3. [name |-> work[r].name, uid |-> work[r].obj.uid] # None
    <3>1. [name |-> work[r].name, uid |-> work[r].obj.uid] \in Listeners
      BY <1>2, Zenon DEF Works, BoundEndpoints, Listeners
    <3>2. QED
      BY <3>1, NoneAssumption, Zenon
  <2>4. /\ \A q \in Replicas \ {r} : listeners'[q] = listeners[q]
        /\ \A port \in Ports : listeners[r][port] # None => listeners'[r][port] # None
        /\ listeners'[r][work[r].obj.port] # None
    BY <1>0, <1>2, <2>1, <2>3 DEF TypeOK
  <2>5. ASSUME NEW m \in Names PROVE Heard(r, m)'
    <3>1. CASE m # n
      BY <1>0, <1>1, <2>2, <2>4, <3>1, FrameHeard, Zenon
    <3>2. CASE m = n /\ Live(n) /\ ~Known(r, n)
      <4>1. work[r].obj.port = be[n].port
        BY <1>0, <1>1, <3>2, CurrentCopy, Zenon
      <4>2. QED
        BY <1>0, <2>4, <3>2, <4>1, Zenon DEF Heard
    <3>3. CASE m = n /\ (Live(n) => Known(r, n))
      BY <1>0, <1>4, <2>2, <3>3, Zenon DEF Frame
    <3>4. QED
      BY <3>1, <3>2, <3>3, Zenon
  <2>6. QED
    BY <1>0, <1>1, <1>3, <2>2, <2>4, <2>5, FrameFinish, Zenon
<1>6. CASE ListenFails(r)
  <2>1. Return(r, TRUE) /\ UNCHANGED listeners
    BY <1>6, Zenon DEF ListenFails
  <2>2. Frame(r) /\ n \in queue'[r]
    BY <1>0, <1>1, <2>1, ReturnFrame, Zenon
  <2>3. Heard(r, n)'
    BY <2>2, KnownHeard, Zenon DEF Known
  <2>4. QED
    BY <1>0, <1>1, <2>1, <2>2, <2>3, FrameQuiet
<1>7. CASE Close(r)
  <2>1. /\ GoOn(r, "unregister", work[r].obj, FALSE) /\ work[r].pc = "close"
        /\ listeners' = [listeners EXCEPT ![r][work[r].obj.port] = None]
        /\ queue' = queue
    BY <1>7, Zenon DEF Close
  <2>2. work[r].obj.deleting
    BY <1>0, <1>2, <2>1, Zenon DEF Copies
  <2>3. Frame(r)
    BY <1>0, <2>1, <2>2, GoOnFrame, Zenon
  <2>4. /\ \A q \in Replicas \ {r} : listeners'[q] = listeners[q]
        /\ \A port \in Ports \ {work[r].obj.port} : listeners'[r][port] = listeners[r][port]
    BY <1>0, <1>2, <2>1 DEF TypeOK
  <2>5. ASSUME NEW m \in Names PROVE Heard(r, m)'
    <3>1. CASE m = n
      <4>1. Live(n) => Known(r, n)
        BY <1>0, <1>1, <2>1, DeletingKnown, Zenon
      <4>2. QED
        BY <1>4, <2>1, <3>1, <4>1, Zenon
    <3>2. CASE m # n /\ be[m].port = work[r].obj.port
      <4>1. CASE Live(m) /\ be[m].port \notin clash
        <5>1. Known(r, m)
          BY <1>0, <1>1, <2>1, <3>2, <4>1, Zenon DEF CloseKnown
        <5>2. QED
          BY <1>4, <2>1, <5>1, Zenon
      <4>2. CASE ~Live(m) \/ be[m].port \in clash
        BY <1>0, <4>2, Zenon DEF Heard, Live, outside
      <4>3. QED
        BY <4>1, <4>2, Zenon
    <3>3. CASE m # n /\ be[m].port # work[r].obj.port
      <4>1. Heard(r, m)
        BY ServedHeard, Zenon DEF IInv
      <4>2. ASSUME Live(m)
            PROVE  /\ listeners'[r][be[m].port] = listeners[r][be[m].port]
                   /\ Coming(r, m, {"register", "listen"}) =>
                         Coming(r, m, {"register", "listen"})'
        <5>1. be[m].port \in Ports /\ Live(m)'
          BY <1>0, <4>2, Zenon DEF TypeOK, Live, BoundEndpoints
        <5>2. QED
          BY <1>0, <1>1, <2>3, <2>4, <3>3, <5>1, FrameComing, Zenon
      <4>3. QED
        BY <1>0, <4>1, <4>2, Zenon DEF Heard, Live, outside
    <3>4. QED
      BY <3>1, <3>2, <3>3, Zenon
  <2>6. QED
    BY <1>0, <1>1, <1>3, <2>3, <2>4, <2>5, FrameFinish, Zenon
<1>8. QED
  BY <1>5, <1>6, <1>7, Zenon DEF ForwarderSteps

LEMMA StepKeeps ==
    ASSUME IInv, TypeOK', NEW p \in Procs, Step(p)
    PROVE  IInv'
<1>1. CASE RegisterFinalizer(p)
  BY <1>1, RegisterKeeps, Zenon
<1>2. CASE RemoveFinalizer(p)
  BY <1>2, RemoveKeeps, Zenon
<1>3. CASE p = Manager /\ BoundEndpointSteps
  BY <1>3, UpdatesKeep, StatusKeeps, DeletesKeep, Zenon DEF BoundEndpointSteps
<1>4. CASE p \in Replicas /\ ForwarderSteps(p)
  BY <1>4, ForwarderKeeps, Zenon
<1>5. QED
  BY <1>1, <1>2, <1>3, <1>4, Zenon DEF Step

LEMMA NextIInv == IInv /\ [Next]_vars => IInv'
<1> SUFFICES ASSUME IInv, [Next]_vars PROVE IInv'
  OBVIOUS
<1>0. TypeOK'
  BY NextTypeOK, Zenon DEF IInv
<1>1. CASE Poller
  BY <1>0, <1>1, PollerKeeps, Zenon
<1>2. CASE Users
  BY <1>0, <1>2, UsersKeep, Zenon
<1>3. CASE SetDraining \/ \E n \in Names : Refresh(n)
  BY <1>0, <1>3, QuietKeeps, Zenon
<1>4. ASSUME NEW p \in Procs,
             CacheCatchesUp(p) \/ Crash(p) \/ Step(p) \/ \E n \in Names : Reconcile(p, n)
      PROVE  IInv'
  BY <1>0, <1>4, CatchUpKeeps, CrashKeeps, StepKeeps, ReconcileKeeps, Zenon
<1>5. CASE UNCHANGED vars
  <2>1. /\ TypeOK /\ Bookkeeping /\ NoMissedServices /\ NoMissedListener
        /\ UNCHANGED <<be, cache, queue, work, target, upstream, namespace, listeners>>
        /\ UNCHANGED <<draining, want, objects, clash>>
    BY <1>5, Zenon DEF IInv, vars, services, outside
  <2>2. Manager \in Procs /\ \A p \in Procs : queue[p] \subseteq queue'[p]
    BY <2>1, Zenon DEF Procs
  <2>3. Ages' /\ Copies' /\ CopyKnown' /\ Clashes' /\ CloseKnown'
    BY <2>1, <2>2, CalmKeeps, Zenon
  <2>4. ServiceNames'
    BY <2>1, Zenon DEF Bookkeeping, ServiceNames
  <2>5. NoMissedListener'
    BY <2>1, <2>2, CalmListener, Zenon
  <2>6. NoMissedServices'
    BY <2>1, <2>2, CalmServices, Zenon DEF TypeOK
  <2>7. QED
    BY <1>0, <2>3, <2>4, <2>5, <2>6, Zenon DEF IInv, Bookkeeping
<1>6. QED
  BY <1>1, <1>2, <1>3, <1>4, <1>5, Zenon DEF Next, Quiescent

\* For any number of BoundEndpoints, ports, forwarder replicas and disturbances:
\* whatever the interleaving of the poller, users, crashes and the reconciles of
\* all the processes that share the finalizer, no live BoundEndpoint is left
\* with Services other than those of its present spec and no reconcile to come
\* (boundendpoint_controller.go).
THEOREM ServicesNotMissed == Spec => []NoMissedServices
<1>1. Init => IInv
  BY InitIInv, Zenon
<1>2. IInv /\ [Next]_vars => IInv'
  BY NextIInv, Zenon
<1>3. IInv => NoMissedServices
  BY Zenon DEF IInv
<1>4. QED
  BY <1>1, <1>2, <1>3, PTL DEF Spec

\* The same for the listeners: no replica is left without a listener on the port
\* of a live BoundEndpoint and without a reconcile to come, although
\* BindingsDriver.Close goes by the port alone (forwarder_controller.go).
THEOREM ListenerNotMissed == Spec => []NoMissedListener
<1>1. Init => IInv
  BY InitIInv
<1>2. IInv /\ [Next]_vars => IInv'
  BY NextIInv
<1>3. IInv => NoMissedListener
  BY Zenon DEF IInv
<1>4. QED
  BY <1>1, <1>2, <1>3, PTL DEF Spec

=============================================================================
