------------------------ MODULE BaseControllerProofs ------------------------
(***************************************************************************)
(* Proofs about BaseController, for any number of edits, resources, remote *)
(* objects and faults.                                                     *)
(***************************************************************************)
EXTENDS BaseController, TLAPS

-----------------------------------------------------------------------------
(***************************************************************************)
(* Type correctness.                                                       *)
(***************************************************************************)

LEMMA InitTypeOK == Init => TypeOK
<1> SUFFICES ASSUME Init
             PROVE  TypeOK
  OBVIOUS
<1> USE BaseControllerAssumption DEF Init
<1>1. rspec \in [Ids -> 0..MaxEdits]
  OBVIOUS
<1>2. /\ ids \in 0..MaxIds
      /\ edits \in 0..MaxEdits
      /\ objects \in 0..MaxObjects
      /\ faults \in [n : 0..MaxFaults, kinds : SUBSET Faults]
  OBVIOUS
<1>3. QED
  BY <1>1, <1>2, Zenon DEF TypeOK, Steps

\* What a step that changes one field of a resource leaves a resource.
LEMMA FieldUpdates ==
    ASSUME NEW o \in Objects
    PROVE  /\ \A s \in 0..MaxEdits : [o EXCEPT !.spec = s] \in Objects
           /\ [o EXCEPT !.deleting = TRUE] \in Objects
           /\ \A b \in BOOLEAN : [o EXCEPT !.finalizer = b] \in Objects
           /\ \A i \in 0..MaxIds : [o EXCEPT !.id = i] \in Objects
  BY Zenon DEF Objects

LEMMA NextTypeOK == TypeOK /\ [Next]_vars => TypeOK'
<1> SUFFICES ASSUME TypeOK, [Next]_vars
             PROVE  TypeOK'
  OBVIOUS
<1> USE BaseControllerAssumption, NoneAssumption, FieldUpdates DEF TypeOK, Steps, Ids
<1>0. kind' \in Kinds
  BY Zenon DEF Next, vars
<1> USE <1>0
<1>1. CASE UserCreates
  <2>1. api' \in Objects
    BY <1>1 DEF UserCreates, Objects
  <2>2. objects' \in 0..MaxObjects
    BY <1>1 DEF UserCreates
  <2>3. QED
    BY <1>1, <2>1, <2>2, Zenon DEF UserCreates, ngrok
<1>2. CASE UserEdits
  <2>1. edits + 1 \in 0..MaxEdits
    BY <1>2 DEF UserEdits
  <2>2. QED
    BY <1>2, <2>1, Zenon DEF UserEdits, ngrok
<1>3. CASE UserDeletes
  BY <1>3, Zenon DEF UserDeletes, ngrok, user
<1>4. CASE CacheCatchesUp
  BY <1>4, Zenon DEF CacheCatchesUp, PassesPredicate, ngrok, user
<1>5. CASE SetDraining
  BY <1>5, Zenon DEF SetDraining, ngrok, user
<1>6. CASE RemoteGone
  BY <1>6 DEF RemoteGone, Fault, user
<1>7. CASE Crash
  BY <1>7 DEF Crash, Fault, ngrok, user
<1>8. CASE Reconcile
  <2>1. /\ pc' \in Steps
        /\ obj' \in Objects \cup {None}
        /\ pc' # "idle" <=> obj' # None
        /\ queued' \in BOOLEAN
    BY <1>8, Zenon DEF Reconcile, Branch
  <2>2. faults' \in [n : 0..MaxFaults, kinds : SUBSET Faults]
    BY <1>8 DEF Reconcile, Fault
  <2>3. QED
    BY <1>8, <2>1, <2>2, Zenon DEF Reconcile, ngrok, user
<1>9. CASE RegisterFinalizer
  <2>1. CASE api = None
    BY <1>9, <2>1, Zenon DEF RegisterFinalizer, Return, ngrok, user
  <2>2. CASE api # None
    <3>1. api' \in Objects /\ obj' = api'
      BY <1>9, <2>2, Zenon DEF RegisterFinalizer
    <3>2. pc' \in {"create", "update"} /\ seen' \in BOOLEAN
      BY <1>9, <2>2, Zenon DEF RegisterFinalizer
    <3>3. QED
      BY <1>9, <2>2, <3>1, <3>2, Zenon DEF RegisterFinalizer, ngrok, user
  <2>3. QED
    BY <2>1, <2>2, Zenon
<1>10. ASSUME MakeRemote, obj \in Objects
       PROVE  /\ ids' \in 0..MaxIds
              /\ ids + 1 \in 0..MaxIds
              /\ remote' \subseteq 1..ids'
              /\ rspec' \in [Ids -> 0..MaxEdits]
  <2>1. obj.spec \in 0..MaxEdits
    BY <1>10, Zenon DEF Objects
  <2>2. QED
    BY <1>10, <2>1 DEF MakeRemote
<1>11. CASE Create
  <2>1. obj \in Objects
    BY <1>11, Zenon DEF Create
  <2>2. QED
    <3>1. obj' \in Objects
      <4>1. CASE AdoptsExisting /\ remote # {}
        <5>1. PICK i \in remote : obj' = [obj EXCEPT !.id = i]
          BY <1>11, <4>1, Zenon DEF Create
        <5>2. i \in 0..MaxIds
          OBVIOUS
        <5>3. QED
          BY <2>1, <5>1, <5>2, Zenon
      <4>2. CASE ~(AdoptsExisting /\ remote # {})
        BY <1>10, <1>11, <2>1, <4>2, Zenon DEF Create
      <4>3. QED
        BY <4>1, <4>2, Zenon
    <3>2. /\ ids' \in 0..MaxIds
          /\ remote' \subseteq 1..ids'
          /\ rspec' \in [Ids -> 0..MaxEdits]
      BY <1>10, <1>11, <2>1, Zenon DEF Create, ngrok
    <3>3. QED
      BY <1>11, <3>1, <3>2, Zenon DEF Create, user
<1>12. CASE CreateAnswerLost
  <2>1. obj \in Objects
    BY <1>12, Zenon DEF CreateAnswerLost
  <2>2. QED
    BY <1>10, <1>12, <2>1 DEF CreateAnswerLost, Fault, Return, user
<1>13. CASE Update
  <2>1. obj \in Objects /\ obj.spec \in 0..MaxEdits
    BY <1>13, Zenon DEF Update, Objects
  <2>2. QED
    <3>1. CASE obj.id \in remote
      BY <1>13, <2>1, <3>1, Zenon DEF Update, user
    <3>2. CASE obj.id \notin remote
      <4>1. obj' = [obj EXCEPT !.id = 0] /\ 0 \in 0..MaxIds
        BY <1>13, <3>2 DEF Update
      <4>2. obj' \in Objects
        BY <2>1, <4>1, Zenon
      <4>3. QED
        BY <1>13, <3>2, <4>2, Zenon DEF Update, user
    <3>3. QED
      BY <3>1, <3>2, Zenon
<1>14. CASE ReconcileStatus
  <2>1. obj \in Objects /\ obj.id \in 0..MaxIds
    BY <1>14, Zenon DEF ReconcileStatus, Objects
  <2>2. api' \in Objects
    BY <1>14, <2>1, Zenon DEF ReconcileStatus, Writable
  <2>3. QED
    BY <1>14, <2>2, Zenon DEF ReconcileStatus, Return, ReturnNil, ngrok, user
<1>15. CASE ReconcileStatusFails
  BY <1>15 DEF ReconcileStatusFails, Fault, Return, ngrok, user
<1>16. CASE Delete
  BY <1>16, Zenon DEF Delete, user
<1>17. CASE DeleteAnswerLost
  BY <1>17 DEF DeleteAnswerLost, Fault, Return, user
<1>18. CASE RemoteFails
  <2>1. Return(TRUE) \/ ReturnNil
    BY <1>18, Zenon DEF RemoteFails
  <2>2. pc' = "idle" /\ obj' = None
    BY <2>1, Zenon DEF Return, ReturnNil
  <2>3. queued' \in BOOLEAN
    BY <2>1, Zenon DEF Return, ReturnNil
  <2>4. Fault("retried") \/ Fault("refused")
    BY <1>18, Zenon DEF RemoteFails
  <2>5. faults' \in [n : 0..MaxFaults, kinds : SUBSET Faults]
    BY <2>4 DEF Fault
  <2>6. QED
    BY <1>18, <2>2, <2>3, <2>5, Zenon DEF RemoteFails, ngrok, user
<1>19. CASE RemoveFinalizer
  <2>1. api' \in Objects \cup {None}
    BY <1>19, Zenon DEF RemoveFinalizer
  <2>2. /\ pc' = "idle"
        /\ obj' = None
        /\ queued' \in BOOLEAN
        /\ seen' \in BOOLEAN
    BY <1>19, Zenon DEF RemoveFinalizer, Return, ReturnNil
  <2>3. QED
    BY <1>19, <2>1, <2>2, Zenon DEF RemoveFinalizer, ngrok, user
<1>20. CASE UNCHANGED vars
  BY <1>20, Zenon DEF vars, ngrok, user
<1>21. QED
  BY <1>1, <1>2, <1>3, <1>4, <1>5, <1>6, <1>7, <1>8, <1>9, <1>11, <1>12, <1>13,
     <1>14, <1>15, <1>16, <1>17, <1>18, <1>19, <1>20, Zenon
     DEF Next, Controller, Quiescent

\* Every reachable state is well typed: the copy of a reconcile exists exactly
\* while one is in progress, and no remote object has the empty ID.
THEOREM TypeCorrect == Spec => []TypeOK
  BY InitTypeOK, NextTypeOK, PTL DEF Spec

-----------------------------------------------------------------------------
(***************************************************************************)
(* A Domain never has two remote objects.                                  *)
(***************************************************************************)

\* create looks for the reserved domain before it makes one, so no sequence of
\* crashes, lost answers, failed status writes and stale reads makes a second.
LEMMA NextAtMostOneRemote == TypeOK /\ AtMostOneRemote /\ [Next]_vars => AtMostOneRemote'
<1> SUFFICES ASSUME TypeOK, AtMostOneRemote, [Next]_vars, kind' = "Domain"
             PROVE  \A i, j \in remote' : i = j
  BY Zenon DEF AtMostOneRemote
<1> USE DEF AtMostOneRemote
<1>0. kind = "Domain"
  BY Zenon DEF Next, vars
<1>1. CASE Create \/ CreateAnswerLost
  BY <1>0, <1>1, Zenon DEF Create, CreateAnswerLost, MakeRemote, AdoptsExisting, ngrok
<1>2. CASE Delete \/ DeleteAnswerLost \/ RemoteGone
  BY <1>0, <1>2, Zenon DEF Delete, DeleteAnswerLost, RemoteGone
<1>3. CASE UNCHANGED remote
  BY <1>0, <1>3, Zenon
<1>4. QED
  BY <1>1, <1>2, <1>3, Zenon
     DEF Next, Controller, Quiescent, UserCreates, UserEdits, UserDeletes, CacheCatchesUp,
         SetDraining, Crash, Reconcile, RegisterFinalizer, Update, ReconcileStatus,
         ReconcileStatusFails, RemoteFails, RemoveFinalizer, vars, ngrok

LEMMA InitAtMostOneRemote == Init => AtMostOneRemote
  BY Zenon DEF Init, AtMostOneRemote

\* A Domain has at most one reservation, whatever goes wrong.
THEOREM DomainAtMostOneRemote == Spec => []AtMostOneRemote
  BY InitTypeOK, NextTypeOK, InitAtMostOneRemote, NextAtMostOneRemote, PTL DEF Spec

-----------------------------------------------------------------------------
(***************************************************************************)
(* No remote object is orphaned, and none outlives its resource, as long   *)
(* as no fault has hidden the outcome of a call or a write from the        *)
(* controller.                                                             *)
(***************************************************************************)
IdOf(o) == IF o = None THEN 0 ELSE o.id
HasFinalizer(o) == o # None /\ o.finalizer

\* The steps of a reconcile that have the finalizer to protect them.
Protected == Steps \ {"idle", "register"}

\* The inductive invariant.  While the cache holds the controller's own writes
\* it agrees with the API server about the finalizer and the ID, so that a
\* reconcile that believes the ID to be empty is right.  The finalizer keeps the
\* resource in place from there to the write of the status.
KnownInv ==
    /\ seen => /\ IdOf(cache) = IdOf(api)
               /\ HasFinalizer(cache) = HasFinalizer(api)
               /\ HasFinalizer(cache) =>
                     /\ cache.uid = api.uid
                     /\ cache.deleting => api.deleting
    /\ IdOf(api) # 0 => HasFinalizer(api)
    /\ pc \in Protected => HasFinalizer(api) /\ api.uid = obj.uid
    /\ pc \in {"delete", "unregister"} => api.deleting
    /\ pc \in {"update", "delete"} => obj.id = api.id
    /\ pc \in {"create", "clear", "clearRetry"} => obj.id = 0
    /\ pc \in {"idle", "register", "update", "delete"} => remote \subseteq {IdOf(api)}
    /\ pc = "record" => remote \subseteq {obj.id}
    /\ pc \in {"create", "clear", "clearRetry", "unregister"} => remote = {}

\* A controller that deletes what it has made, and that nothing was hidden from.
Attentive == Reclaims /\ Informed

\* No step makes a controller that is not informed informed again, and the faults
\* that hide an outcome make it uninformed.
LEMMA NextInformed ==
    ASSUME [Next]_vars, Informed'
    PROVE  /\ Informed
           /\ ~Crash
           /\ ~CreateAnswerLost
           /\ ~DeleteAnswerLost
           /\ ReconcileStatusFails => ~Writable
           /\ Reconcile => seen \/ cache = api
<1>1. ASSUME NEW what, Fault(what)
      PROVE  Informed /\ what \in {"retried", "refused", "gone"}
  BY <1>1, Informed', Zenon DEF Fault, Informed
<1>2. ~Crash /\ ~CreateAnswerLost /\ ~DeleteAnswerLost
  <2>1. ~Fault("crash") /\ ~Fault("lost")
    BY <1>1
  <2>2. QED
    BY <2>1, Zenon DEF Crash, CreateAnswerLost, DeleteAnswerLost
<1>3. ReconcileStatusFails => ~Writable /\ UNCHANGED faults
  BY <1>1 DEF ReconcileStatusFails
<1>4. Reconcile => (seen \/ cache = api) /\ UNCHANGED faults
  <2>1. ~Fault("stale")
    BY <1>1
  <2>2. QED
    BY <2>1, Zenon DEF Reconcile
<1>5. RemoteGone \/ RemoteFails => Informed
  BY <1>1, Zenon DEF RemoteGone, RemoteFails
<1>6. ASSUME UNCHANGED faults PROVE Informed
  BY <1>6, Informed', Zenon DEF Informed
<1>7. QED
  BY <1>2, <1>3, <1>4, <1>5, <1>6, Zenon
     DEF Next, Controller, Quiescent, UserCreates, UserEdits, UserDeletes, CacheCatchesUp,
         SetDraining, RegisterFinalizer, Create, Update, ReconcileStatus,
         Delete, RemoveFinalizer, vars

LEMMA InitKnownInv == Init => KnownInv
  BY Zenon DEF Init, KnownInv, IdOf, HasFinalizer, Protected

LEMMA NextKnownInv == TypeOK /\ (Attentive => KnownInv) /\ [Next]_vars => (Attentive => KnownInv)'
<1> SUFFICES ASSUME TypeOK, KnownInv, [Next]_vars, Reclaims, Informed'
             PROVE  KnownInv'
  BY NextInformed, Zenon DEF Attentive
<1>0. /\ api # None => api \in Objects
      /\ cache # None => cache \in Objects
      /\ obj # None => obj \in Objects
      /\ pc # "idle" <=> obj # None
      /\ 0 \notin remote
      /\ pc \in Steps
  BY BaseControllerAssumption DEF TypeOK
<1> USE NoneAssumption, <1>0
        DEF KnownInv, IdOf, HasFinalizer, Protected, Steps, Objects
<1>1. CASE UserCreates
  BY <1>1, Zenon DEF UserCreates, ngrok
<1>2. CASE UserEdits
  <2>1. /\ api # None
        /\ api' = [api EXCEPT !.spec = edits + 1]
        /\ UNCHANGED <<cache, seen, pc, obj, remote>>
    BY <1>2, Zenon DEF UserEdits, ngrok
  <2>2. api' # None
    <3>1. edits + 1 \in 0..MaxEdits
      BY <1>2, BaseControllerAssumption DEF UserEdits, TypeOK
    <3>2. api' \in Objects
      BY <2>1, <3>1, Zenon
    <3>3. QED
      BY <3>2, Zenon
  <2>3. QED
    BY <2>1, <2>2, Zenon
<1>3. CASE UserDeletes
  BY <1>3 DEF UserDeletes, ngrok
<1>4. CASE CacheCatchesUp
  BY <1>4, Zenon DEF CacheCatchesUp, ngrok
<1>5. CASE SetDraining
  BY <1>5, Zenon DEF SetDraining, ngrok
<1>6. CASE RemoteGone
  BY <1>6, Zenon DEF RemoteGone
<1>7. CASE Crash \/ CreateAnswerLost \/ DeleteAnswerLost
  BY <1>7, NextInformed, Zenon
<1>8. CASE Reconcile
  <2>1. seen \/ cache = api
    BY <1>8, NextInformed, Zenon
  <2>2. /\ IdOf(cache) = IdOf(api)
        /\ HasFinalizer(cache) = HasFinalizer(api)
        /\ HasFinalizer(cache) => cache.uid = api.uid /\ (cache.deleting => api.deleting)
    BY <2>1, Zenon
  <2>3. QED
    BY <1>8, <2>2 DEF Reconcile, Branch, ngrok
<1>9. CASE RegisterFinalizer
  <2>1. CASE api = None
    BY <1>9, <2>1, Zenon DEF RegisterFinalizer, Return, ngrok
  <2>2. CASE api # None
    <3>1. /\ api' = [api EXCEPT !.finalizer = TRUE]
          /\ obj' = api'
          /\ seen' = (cache = api')
          /\ pc' = IF api.id = 0 THEN "create" ELSE "update"
          /\ UNCHANGED <<cache, remote>>
      BY <1>9, <2>2 DEF RegisterFinalizer, ngrok
    <3>2. /\ api' \in Objects
          /\ api'.uid = api.uid
          /\ api'.id = api.id
          /\ api'.finalizer
          /\ api' # None
      BY <2>2, <3>1, Zenon
    <3>3. remote \subseteq {api.id}
      BY <1>9, <2>2, Zenon DEF RegisterFinalizer
    <3>4. CASE api.id = 0
      <4>1. pc' = "create" /\ remote' = {} /\ obj'.id = 0 /\ obj'.uid = api'.uid
        BY <3>1, <3>2, <3>3, <3>4
      <4>2. seen' => cache' = api'
        BY <3>1, Zenon
      <4>3. QED
        BY <3>2, <4>1, <4>2, Zenon
    <3>5. CASE api.id # 0
      BY <2>2, <3>1, <3>2, <3>3, <3>5, Zenon
    <3>6. QED
      BY <3>4, <3>5, Zenon
  <2>3. QED
    BY <2>1, <2>2, Zenon
<1>10. CASE Create
  BY <1>10, Zenon DEF Create, MakeRemote
<1>11. CASE Update
  BY <1>11 DEF Update
<1>12. CASE ReconcileStatus
  BY <1>12, Zenon DEF ReconcileStatus, Writable, Return, ReturnNil, ngrok
<1>13. CASE ReconcileStatusFails
  <2>1. ~Writable
    BY <1>13, NextInformed, Zenon
  <2>2. QED
    BY <1>13, <2>1, Zenon DEF ReconcileStatusFails, Writable
<1>14. CASE Delete
  BY <1>14, Zenon DEF Delete
<1>15. CASE RemoteFails
  BY <1>15, Zenon DEF RemoteFails, Return, ReturnNil, ngrok
<1>16. CASE RemoveFinalizer
  <2>1. api # None /\ api.deleting /\ remote = {}
    BY <1>16, Zenon DEF RemoveFinalizer
  <2>2. /\ api' = None
        /\ seen' = (cache = None)
        /\ pc' = "idle"
        /\ UNCHANGED <<cache, remote>>
    BY <1>16, <2>1, Zenon DEF RemoveFinalizer, Return, ReturnNil, ngrok
  <2>3. QED
    BY <2>1, <2>2, Zenon
<1>17. CASE UNCHANGED vars
  BY <1>17, Zenon DEF vars, ngrok
<1>18. QED
  BY <1>1, <1>2, <1>3, <1>4, <1>5, <1>6, <1>7, <1>8, <1>9, <1>10, <1>11, <1>12,
     <1>13, <1>14, <1>15, <1>16, <1>17, Zenon
     DEF Next, Controller, Quiescent

\* Every remote object is recorded by the resource or held by the reconcile that
\* made it, whatever edits, deletions, recreations and refused calls interleave, up
\* to the first fault that hides an outcome from the controller.
THEOREM EveryRemoteKnown == Spec => []NoOrphan
<1>1. TypeOK /\ (Attentive => KnownInv) => NoOrphan
  BY NoneAssumption DEF TypeOK, Steps, KnownInv, NoOrphan, Known, IdOf, Attentive
<1>2. QED
  BY InitTypeOK, NextTypeOK, InitKnownInv, NextKnownInv, <1>1, PTL DEF Spec

\* A resource whose finalizer is removed leaves nothing behind in the ngrok API, up
\* to the first fault that hides an outcome from the controller.
THEOREM ReleasedClean == Spec => CleanedBeforeRelease
<1>1. TypeOK /\ (Attentive => KnownInv) /\ [Next]_vars
         => (Reclaims /\ Informed /\ Released => remote' = {})
  <2> SUFFICES ASSUME TypeOK, KnownInv, [Next]_vars, Released
               PROVE  remote' = {}
    BY Zenon DEF Attentive
  <2> USE DEF Released
  <2>1. api \in Objects
    BY Zenon DEF TypeOK
  <2>2. CASE RemoveFinalizer
    BY <2>2, Zenon DEF RemoveFinalizer, KnownInv, ngrok
  <2>3. CASE UserEdits \/ ReconcileStatus \/ RegisterFinalizer
    <3>1. api'.finalizer
      BY <2>1, <2>3, NoneAssumption, Zenon
         DEF UserEdits, ReconcileStatus, Writable, RegisterFinalizer, Objects
    <3>2. edits < MaxEdits => edits + 1 \in 0..MaxEdits
      BY BaseControllerAssumption DEF TypeOK
    <3>3. obj # None => obj.id \in 0..MaxIds
      BY Zenon DEF TypeOK, Objects
    <3>4. api' \in Objects
      <4>1. CASE UserEdits
        BY <2>1, <3>2, <4>1, FieldUpdates, Zenon DEF UserEdits
      <4>2. CASE ReconcileStatus
        BY <2>1, <3>3, <4>2, FieldUpdates, Zenon DEF ReconcileStatus, TypeOK
      <4>3. CASE RegisterFinalizer
        BY <2>1, <4>3, FieldUpdates, NoneAssumption, Zenon DEF RegisterFinalizer
      <4>4. QED
        BY <2>3, <4>1, <4>2, <4>3, Zenon
    <3>5. QED
      BY <3>1, <3>4, NoneAssumption, Zenon
  <2>4. CASE UserDeletes
    <3>1. api' = [api EXCEPT !.deleting = TRUE]
      BY <2>1, <2>4, Zenon DEF UserDeletes
    <3>2. api' \in Objects /\ api'.finalizer
      BY <2>1, <3>1, Zenon DEF Objects
    <3>3. QED
      BY <3>2, NoneAssumption, Zenon
  <2>5. CASE UNCHANGED api
    BY <2>1, <2>5, NoneAssumption, Zenon
  <2>6. QED
    BY <2>1, <2>2, <2>3, <2>4, <2>5, Zenon
       DEF Next, Controller, Quiescent, UserCreates, CacheCatchesUp, SetDraining,
           RemoteGone, Crash, Reconcile, Create, Update, ReconcileStatusFails, Delete,
           CreateAnswerLost, DeleteAnswerLost, RemoteFails, vars
<1>2. QED
  BY InitTypeOK, NextTypeOK, InitKnownInv, NextKnownInv, <1>1, PTL DEF Spec, CleanedBeforeRelease

-----------------------------------------------------------------------------
(***************************************************************************)
(* The reservation of a live Domain is never deleted, and at rest it is    *)
(* recorded, whatever answers, status writes and cache updates are late or *)
(* lost and wherever the process stops.                                    *)
(***************************************************************************)

\* A copy that sends a reconcile to the delete handler.
Doomed(o) == o # None /\ o.deleting /\ o.finalizer

\* The resource of a copy is being deleted, or has made room for one that no
\* reconcile has recorded anything in.
Replaced(o) == api = None \/ (api.uid # o.uid /\ api.id = 0)
Leaving(o) == api # None /\ api.uid = o.uid /\ api.deleting

\* What is known of copies, however old.  A resource that is being deleted has its
\* finalizer.  While the cache shows one to delete, only the reconcile of that one
\* can be in progress, once it has been released: so nothing records an ID in the
\* resource that took its place.
CopiesInv ==
    /\ api # None => api.uid <= objects /\ api.spec <= edits
    /\ cache # None => cache.uid <= objects /\ cache.spec <= edits
    /\ obj # None => obj.uid <= objects
    /\ api # None /\ api.deleting => api.finalizer
    /\ cache # None /\ cache.deleting => cache.finalizer
    /\ cache # None /\ api # None /\ cache.uid = api.uid /\ cache.deleting => api.deleting
    /\ Doomed(cache) => Leaving(cache) \/ (Replaced(cache) /\ pc \in {"idle", "delete", "unregister"})
    /\ pc = "delete" => obj.id # 0 /\ (Leaving(obj) \/ Replaced(obj))

\* No call was refused for good, and nobody else removed a remote object.
Steady == faults.kinds \cap {"refused", "gone"} = {}

\* The steps of a reconcile that found no deletion, and of one that did.
Upserting == {"register", "create", "update", "record", "clear", "clearRetry"}
Deleting == {"delete", "unregister"}

\* A reconcile that is not going to be repeated has a cache that shows the branch it
\* took to be right still.
BranchInv ==
    /\ pc \in Upserting /\ ~queued => cache # None /\ ~cache.deleting
    /\ pc \in Deleting /\ ~queued => cache # None /\ cache.deleting

\* What is about to be recorded exists.
RecordInv == pc = "record" /\ Steady => obj.id \in remote

\* When a Domain controller has nothing to do, it has recorded what exists, or the
\* cache has still to show the resource as it is and will put the key in the queue.
DoneInv ==
    /\ kind = "Domain" /\ Steady /\ ~draining
    /\ pc = "idle" /\ ~queued
    /\ api # None /\ ~PassesPredicate(cache, api)
    => ~api.deleting /\ remote = {api.id}

RestInv == BranchInv /\ RecordInv /\ DoneInv

LEMMA InitCopiesInv == Init => CopiesInv
  BY DEF Init, CopiesInv, Doomed

LEMMA NextCopiesInv == TypeOK /\ CopiesInv /\ [Next]_vars => CopiesInv'
<1> SUFFICES ASSUME TypeOK, CopiesInv, [Next]_vars
             PROVE  CopiesInv'
  OBVIOUS
<1>0. /\ api # None => api \in Objects
      /\ cache # None => cache \in Objects
      /\ obj # None => obj \in Objects
      /\ pc # "idle" <=> obj # None
      /\ objects \in Nat /\ edits \in Nat
      /\ \A o \in Objects : o # None /\ o.uid \in Nat /\ o.spec \in Nat
  BY BaseControllerAssumption, NoneAssumption DEF TypeOK, Objects
<1> USE <1>0 DEF CopiesInv, Doomed, Leaving, Replaced
<1>1. CASE UserCreates
  <2>1. /\ api = None
        /\ objects' = objects + 1
        /\ api' = [uid |-> objects + 1, spec |-> edits, deleting |-> FALSE,
                   finalizer |-> FALSE, id |-> 0]
        /\ UNCHANGED <<cache, pc, obj, edits>>
    BY <1>1, Zenon DEF UserCreates
  <2>2. /\ cache # None => cache.uid # api'.uid /\ cache.uid <= objects'
        /\ obj # None => obj.uid # api'.uid /\ obj.uid <= objects'
        /\ api'.uid <= objects' /\ api'.spec <= edits'
    BY <2>1
  <2>3. /\ ~api'.deleting
        /\ api'.id = 0
    BY <2>1, Zenon
  <2>4. QED
    BY <2>1, <2>2, <2>3, Zenon
<1>2. CASE UserEdits
  <2>1. /\ api # None /\ ~api.deleting
        /\ api' = [api EXCEPT !.spec = edits + 1]
        /\ edits' = edits + 1
        /\ UNCHANGED <<cache, pc, obj, objects>>
    BY <1>2, Zenon DEF UserEdits
  <2>2. /\ api'.uid = api.uid /\ api'.deleting = api.deleting /\ api'.id = api.id
        /\ api'.spec = edits + 1
    BY <2>1, Zenon DEF Objects
  <2>3. /\ cache # None => cache.spec <= edits'
        /\ api'.spec <= edits'
    BY <2>1, <2>2
  <2>4. QED
    BY <2>1, <2>2, <2>3, Zenon
<1>3. CASE UserDeletes
  <2>1. UNCHANGED <<cache, pc, obj, objects, edits>> /\ api # None /\ ~api.deleting
    BY <1>3, Zenon DEF UserDeletes, user
  <2>2. CASE api' = None
    BY <2>1, <2>2, Zenon
  <2>3. CASE api' = [api EXCEPT !.deleting = TRUE] /\ api.finalizer
    <3>1. /\ api'.uid = api.uid /\ api'.deleting /\ api'.id = api.id
          /\ api'.spec = api.spec /\ api'.finalizer
      BY <2>1, <2>3, Zenon DEF Objects
    <3>2. QED
      BY <2>1, <3>1, Zenon
  <2>4. QED
    BY <1>3, <2>2, <2>3, Zenon DEF UserDeletes
<1>4. CASE CacheCatchesUp
  BY <1>4, Zenon DEF CacheCatchesUp, user
<1>5. CASE Crash
  BY <1>5, Zenon DEF Crash, user
<1>6. CASE Reconcile
  BY <1>6, Zenon DEF Reconcile, Branch, user
<1>7. CASE RegisterFinalizer
  <2>1. CASE api = None
    BY <1>7, <2>1, Zenon DEF RegisterFinalizer, Return, user
  <2>2. CASE api # None
    <3>1. /\ api' = [api EXCEPT !.finalizer = TRUE]
          /\ obj' = api'
          /\ pc' # "delete"
          /\ UNCHANGED <<cache, objects, edits>>
      BY <1>7, <2>2, Zenon DEF RegisterFinalizer, user
    <3>2. /\ api'.uid = api.uid /\ api'.deleting = api.deleting /\ api'.id = api.id
          /\ api'.spec = api.spec /\ api'.finalizer
      BY <2>2, <3>1, Zenon DEF Objects
    <3>3. api' # None
      BY <2>2, <3>1, FieldUpdates, Zenon
    <3>4. Doomed(cache) => Leaving(cache)
      BY <1>7, Zenon DEF RegisterFinalizer
    <3>5. QED
      BY <2>2, <3>1, <3>2, <3>3, <3>4, Zenon
  <2>3. QED
    BY <2>1, <2>2, Zenon
<1>8. CASE Create \/ Update
  <2>1. /\ pc \in {"create", "update"} /\ pc' \in {"record", "clear", "clearRetry"}
        /\ UNCHANGED <<api, cache, objects, edits>>
        /\ \E i : obj' = [obj EXCEPT !.id = i]
    <3>1. CASE Create
      BY <3>1, Zenon DEF Create, user
    <3>2. CASE Update
      <4>1. obj = [obj EXCEPT !.id = obj.id]
        BY <3>2, Zenon DEF Update, Objects
      <4>2. QED
        BY <3>2, <4>1, Zenon DEF Update, user
    <3>3. QED
      BY <1>8, <3>1, <3>2, Zenon
  <2>2. obj \in Objects /\ obj'.uid = obj.uid
    BY <2>1, Zenon DEF Objects
  <2>3. QED
    BY <2>1, <2>2, Zenon
<1>9. CASE ReconcileStatus
  <2>1. /\ pc \in {"record", "clear", "clearRetry"} /\ pc' \in {"create", "idle"}
        /\ api # None /\ obj # None
        /\ api' = [api EXCEPT !.id = obj.id]
        /\ obj' = None \/ obj' = api'
        /\ UNCHANGED <<cache, objects, edits>>
    BY <1>9, Zenon DEF ReconcileStatus, Writable, Return, ReturnNil, user
  <2>2. /\ api'.uid = api.uid /\ api'.deleting = api.deleting /\ api'.finalizer = api.finalizer
        /\ api'.spec = api.spec
    BY <2>1, Zenon DEF Objects
  <2>3. api' # None
    <3>1. obj.id \in 0..MaxIds
      BY <2>1, Zenon DEF Objects
    <3>2. QED
      BY <2>1, <3>1, FieldUpdates, Zenon
  <2>4. Doomed(cache) => Leaving(cache)
    BY <2>1, Zenon
  <2>5. QED
    BY <2>1, <2>2, <2>3, <2>4, Zenon
<1>10. CASE ReconcileStatusFails \/ CreateAnswerLost \/ DeleteAnswerLost \/ RemoteFails
  <2>1. /\ Return(TRUE) \/ ReturnNil
        /\ UNCHANGED <<api, cache, objects, edits>>
    BY <1>10, Zenon DEF ReconcileStatusFails, CreateAnswerLost, DeleteAnswerLost, RemoteFails, user
  <2>2. pc' = "idle" /\ obj' = None
    BY <2>1, Zenon DEF Return, ReturnNil
  <2>3. QED
    BY <2>1, <2>2, Zenon
<1>11. CASE Delete
  BY <1>11, Zenon DEF Delete, user
<1>12. CASE RemoveFinalizer
  <2>1. /\ pc = "unregister" /\ pc' = "idle" /\ obj' = None
        /\ UNCHANGED <<cache, objects, edits>>
    BY <1>12, Zenon DEF RemoveFinalizer, Return, ReturnNil, user
  <2>2. CASE api' = None
    BY <2>1, <2>2, Zenon
  <2>3. CASE api # None /\ ~api.deleting /\ api' = [api EXCEPT !.finalizer = FALSE]
    <3>1. /\ api'.uid = api.uid /\ api'.deleting = api.deleting /\ api'.id = api.id
          /\ api'.spec = api.spec
      BY <2>3, Zenon DEF Objects
    <3>2. QED
      BY <2>1, <2>3, <3>1, Zenon
  <2>4. QED
    BY <1>12, <2>2, <2>3, Zenon DEF RemoveFinalizer
<1>13. CASE UNCHANGED <<api, cache, pc, obj, objects, edits>>
  BY <1>13, Zenon
<1>14. QED
  BY <1>1, <1>2, <1>3, <1>4, <1>5, <1>6, <1>7, <1>8, <1>9, <1>10, <1>11, <1>12, <1>13, Zenon
     DEF Next, Controller, Quiescent, SetDraining, RemoteGone, vars, user

\* The delete handler never removes the remote object of a resource that is not being
\* deleted, for any kind of resource, whatever goes wrong and however stale the cache.
THEOREM LiveRemotesSpared == Spec => NeverDeletesLive
<1>1. TypeOK /\ CopiesInv /\ [Next]_vars
         => \A i \in remote \ remote' : pc = "delete" => api = None \/ api.deleting \/ api.id # i
  <2> SUFFICES ASSUME TypeOK, CopiesInv, [Next]_vars, pc = "delete", api # None, ~api.deleting,
                      NEW i \in remote \ remote'
               PROVE  api.id # i
    BY Zenon
  <2>1. api.id = 0
    BY Zenon DEF CopiesInv, Leaving, Replaced
  <2>2. 0 \notin remote
    BY DEF TypeOK
  <2>3. QED
    BY <2>1, <2>2, Zenon
<1>2. QED
  BY InitTypeOK, NextTypeOK, InitCopiesInv, NextCopiesInv, <1>1, PTL DEF Spec, NeverDeletesLive

LEMMA NextSteady ==
    ASSUME [Next]_vars, Steady'
    PROVE  /\ Steady
           /\ ~RemoteGone
           /\ RemoteFails => Return(TRUE)
<1>1. ASSUME NEW what, Fault(what)
      PROVE  Steady /\ what \notin {"refused", "gone"}
  BY <1>1, Steady', Zenon DEF Fault, Steady
<1>2. ~RemoteGone /\ (RemoteFails => Return(TRUE) /\ Steady)
  <2>1. ~Fault("gone") /\ ~Fault("refused")
    BY <1>1
  <2>2. QED
    BY <1>1, <2>1, Zenon DEF RemoteGone, RemoteFails
<1>3. Reconcile \/ Crash \/ CreateAnswerLost \/ DeleteAnswerLost \/ ReconcileStatusFails
         => Steady \/ UNCHANGED faults
  BY <1>1, Zenon DEF Reconcile, Crash, CreateAnswerLost, DeleteAnswerLost, ReconcileStatusFails
<1>4. ASSUME UNCHANGED faults PROVE Steady
  BY <1>4, Steady', Zenon DEF Steady
<1>5. QED
  BY <1>2, <1>3, <1>4, Zenon
     DEF Next, Controller, Quiescent, UserCreates, UserEdits, UserDeletes, CacheCatchesUp,
         SetDraining, RegisterFinalizer, Create, Update, ReconcileStatus, Delete,
         RemoveFinalizer, vars

\* How a reconcile ends: with the key in the queue, after the status was written, or
\* after the finalizer was removed.
LEMMA NextIdle ==
    ASSUME TypeOK, CopiesInv, [Next]_vars, Steady', pc # "idle", pc' = "idle", ~queued', api' # None
    PROVE  (ReconcileStatus /\ pc = "record") \/ (RemoveFinalizer /\ api # None)
<1>1. ~Return(TRUE) /\ ~Crash
  BY Zenon DEF Return, Crash
<1>2. /\ ~ReconcileStatusFails /\ ~CreateAnswerLost /\ ~DeleteAnswerLost /\ ~RemoteFails
      /\ RemoveFinalizer => api # None
      /\ ReconcileStatus => pc = "record"
  BY <1>1, NextSteady, Zenon
     DEF ReconcileStatusFails, CreateAnswerLost, DeleteAnswerLost, RemoveFinalizer, ReconcileStatus
<1>3. ~RegisterFinalizer /\ ~Create /\ ~Update /\ ~Delete /\ ~Reconcile
  BY <1>1, Zenon DEF RegisterFinalizer, Create, Update, Delete, Reconcile
<1>4. QED
  BY <1>1, <1>2, <1>3, Zenon
     DEF Next, Controller, Quiescent, UserCreates, UserEdits, UserDeletes, CacheCatchesUp,
         SetDraining, RemoteGone, vars

LEMMA InitRestInv == Init => RestInv
  BY Zenon DEF Init, RestInv, BranchInv, RecordInv, DoneInv, Upserting, Deleting

LEMMA NextBranchInv == TypeOK /\ BranchInv /\ [Next]_vars => BranchInv'
<1> SUFFICES ASSUME TypeOK, BranchInv, [Next]_vars
             PROVE  BranchInv'
  OBVIOUS
<1> USE DEF BranchInv, Upserting, Deleting
<1>1. CASE Reconcile
  <2>1. CASE cache = None
    BY <1>1, <2>1, Zenon DEF Reconcile
  <2>2. CASE cache # None /\ cache.deleting
    BY <1>1, <2>2, Zenon DEF Reconcile, Branch
  <2>3. CASE cache # None /\ ~cache.deleting
    BY <1>1, <2>3, Zenon DEF Reconcile, Branch
  <2>4. QED
    BY <2>1, <2>2, <2>3, Zenon
<1>2. CASE CacheCatchesUp
  <2>1. /\ UNCHANGED pc
        /\ cache' = api
        /\ ~queued' => ~queued /\ ~PassesPredicate(cache, api)
    BY <1>2, Zenon DEF CacheCatchesUp
  <2>2. ~PassesPredicate(cache, api) => cache # None /\ api # None /\ cache.deleting = api.deleting
    BY Zenon DEF PassesPredicate
  <2>3. QED
    BY <2>1, <2>2, Zenon
<1>3. CASE /\ UNCHANGED <<cache, queued>>
           /\ \/ pc \in Upserting /\ pc' \in Upserting
              \/ pc \in Deleting /\ pc' \in Deleting
              \/ UNCHANGED pc
  BY <1>3, Zenon
<1>4. CASE pc' = "idle"
  BY <1>4, Zenon
<1>5. QED
  <2>1. CASE RegisterFinalizer \/ ReconcileStatus
    BY <1>3, <1>4, <2>1, Zenon DEF RegisterFinalizer, ReconcileStatus, Return, ReturnNil
  <2>2. CASE Create \/ Update \/ Delete
    BY <1>3, <2>2, Zenon DEF Create, Update, Delete
  <2>3. CASE CreateAnswerLost \/ DeleteAnswerLost \/ RemoteFails \/ ReconcileStatusFails \/ RemoveFinalizer
    <3>1. Return(TRUE) \/ ReturnNil
      BY <2>3, Zenon DEF CreateAnswerLost, DeleteAnswerLost, RemoteFails, ReconcileStatusFails, RemoveFinalizer
    <3>2. QED
      BY <1>4, <3>1, Zenon DEF Return, ReturnNil
  <2>4. QED
    BY <1>1, <1>2, <1>3, <1>4, <2>1, <2>2, <2>3, Zenon
       DEF Next, Controller, Quiescent, UserCreates, UserEdits, UserDeletes, SetDraining,
           RemoteGone, Crash, vars

LEMMA NextRecordInv == TypeOK /\ RecordInv /\ [Next]_vars => RecordInv'
<1> SUFFICES ASSUME TypeOK, RecordInv, [Next]_vars, pc' = "record", Steady'
             PROVE  obj'.id \in remote'
  BY Zenon DEF RecordInv
<1>0. Steady /\ ~RemoteGone
  BY NextSteady, Zenon
<1>1. CASE Create
  <2>1. obj \in Objects
    BY <1>1, Zenon DEF TypeOK, Create
  <2>2. PICK i : obj' = [obj EXCEPT !.id = i] /\ i \in remote'
    BY <1>1, Zenon DEF Create, MakeRemote, ngrok
  <2>3. QED
    BY <2>1, <2>2, Zenon DEF Objects
<1>2. CASE Update
  BY <1>2, Zenon DEF Update
<1>3. CASE pc = "record" /\ UNCHANGED <<obj, remote>>
  BY <1>0, <1>3, Zenon DEF RecordInv
<1>4. ~RegisterFinalizer /\ ~ReconcileStatus /\ ~Delete /\ ~Crash
  BY Zenon DEF RegisterFinalizer, ReconcileStatus, Delete, Crash, Return, ReturnNil
<1>5. ~CreateAnswerLost /\ ~DeleteAnswerLost /\ ~RemoteFails /\ ~ReconcileStatusFails /\ ~RemoveFinalizer
  <2>1. ~Return(TRUE) /\ ~ReturnNil
    BY Zenon DEF Return, ReturnNil
  <2>2. QED
    BY <2>1, Zenon DEF CreateAnswerLost, DeleteAnswerLost, RemoteFails, ReconcileStatusFails, RemoveFinalizer
<1>6. ~Reconcile
  BY Zenon DEF Reconcile, Branch
<1>7. QED
  BY <1>0, <1>1, <1>2, <1>3, <1>4, <1>5, <1>6, Zenon
     DEF Next, Controller, Quiescent, UserCreates, UserEdits, UserDeletes, CacheCatchesUp,
         SetDraining, vars, ngrok

LEMMA NextDoneInv ==
    TypeOK /\ AtMostOneRemote /\ CopiesInv /\ RestInv /\ [Next]_vars => DoneInv'
<1> SUFFICES ASSUME TypeOK, AtMostOneRemote, CopiesInv, RestInv, [Next]_vars,
                    kind' = "Domain", Steady', ~draining',
                    pc' = "idle", ~queued', api' # None, ~PassesPredicate(cache', api')
             PROVE  ~api'.deleting /\ remote' = {api'.id}
  BY Zenon DEF DoneInv, PassesPredicate
<1>0. /\ api # None => api \in Objects
      /\ cache # None => cache \in Objects
      /\ obj # None => obj \in Objects
      /\ objects \in Nat /\ edits \in Nat
      /\ \A o \in Objects : o.uid \in Nat /\ o.spec \in Nat
  BY BaseControllerAssumption DEF TypeOK, Objects
<1>1. kind = "Domain" /\ Steady /\ ~draining
  <2>1. kind = "Domain"
    BY Zenon DEF Next, vars
  <2>2. draining => draining'
    BY Zenon DEF Next, Controller, Quiescent, UserCreates, UserEdits, UserDeletes, CacheCatchesUp,
           SetDraining, RemoteGone, Crash, Reconcile, RegisterFinalizer, Create, Update,
           ReconcileStatus, ReconcileStatusFails, Delete, CreateAnswerLost, DeleteAnswerLost,
           RemoteFails, RemoveFinalizer, vars
  <2>3. QED
    BY <2>1, <2>2, NextSteady, Zenon
<1>2. /\ cache' # None /\ cache'.uid = api'.uid /\ cache'.spec = api'.spec
      /\ cache'.deleting = api'.deleting
  BY Zenon DEF PassesPredicate
<1>3. CASE pc # "idle"
  <2>1. CASE ReconcileStatus /\ pc = "record"
    <3>1. /\ api # None /\ obj # None
          /\ api' = [api EXCEPT !.id = obj.id]
          /\ queued' = queued \/ queued' = TRUE
          /\ UNCHANGED <<cache, remote>>
      BY <2>1, Zenon DEF ReconcileStatus, Writable, Return, ReturnNil, ngrok, TypeOK
    <3>2. api'.id = obj.id /\ api'.deleting = api.deleting
      BY <1>0, <3>1, Zenon DEF Objects
    <3>3. ~queued
      BY <2>1, Zenon DEF ReconcileStatus, Return, ReturnNil
    <3>4. ~cache.deleting
      BY <2>1, <3>3, Zenon DEF RestInv, BranchInv, Upserting
    <3>5. obj.id \in remote
      BY <1>1, <2>1, Zenon DEF RestInv, RecordInv
    <3>6. remote = {obj.id}
      BY <1>1, <3>5, Zenon DEF AtMostOneRemote
    <3>7. QED
      BY <1>2, <3>1, <3>2, <3>4, <3>6, Zenon
  <2>2. CASE RemoveFinalizer /\ api # None
    <3>1. /\ ~api.deleting
          /\ api' = [api EXCEPT !.finalizer = FALSE]
          /\ UNCHANGED cache
          /\ ~queued
      BY <2>2, Zenon DEF RemoveFinalizer, Return, ReturnNil
    <3>2. cache.deleting
      BY <2>2, <3>1, Zenon DEF RemoveFinalizer, RestInv, BranchInv, Deleting
    <3>3. ~api'.deleting
      BY <1>0, <2>2, <3>1, Zenon DEF Objects
    <3>4. QED
      BY <1>2, <3>1, <3>2, <3>3, Zenon
  <2>3. QED
    BY <1>3, <2>1, <2>2, NextIdle, Zenon
<1>4. CASE pc = "idle"
  <2>1. CASE UserCreates
    <3>1. api'.uid = objects + 1 /\ UNCHANGED cache
      BY <2>1, Zenon DEF UserCreates
    <3>2. cache.uid <= objects /\ cache \in Objects
      BY <1>0, <1>2, <3>1, Zenon DEF CopiesInv
    <3>3. QED
      BY <1>0, <1>2, <3>1, <3>2
  <2>2. CASE UserEdits
    <3>1. api'.spec = edits + 1 /\ UNCHANGED cache
      BY <1>0, <2>2, Zenon DEF UserEdits, Objects
    <3>2. cache.spec <= edits /\ cache \in Objects
      BY <1>0, <1>2, <3>1, Zenon DEF CopiesInv
    <3>3. QED
      BY <1>0, <1>2, <3>1, <3>2
  <2>3. CASE UserDeletes
    <3>1. /\ api # None /\ ~api.deleting
          /\ api' = [api EXCEPT !.deleting = TRUE]
          /\ UNCHANGED cache
      BY <2>3, Zenon DEF UserDeletes
    <3>2. api'.deleting /\ api'.uid = api.uid
      BY <1>0, <3>1, Zenon DEF Objects
    <3>3. QED
      BY <1>2, <3>1, <3>2, Zenon DEF CopiesInv
  <2>4. CASE CacheCatchesUp
    <3>1. ~queued /\ ~PassesPredicate(cache, api) /\ UNCHANGED <<api, remote>>
      BY <2>4, Zenon DEF CacheCatchesUp, ngrok
    <3>2. QED
      BY <1>1, <1>4, <3>1, Zenon DEF RestInv, DoneInv
  <2>5. CASE Reconcile
    <3>1. cache # None /\ Branch(cache) = "idle"
      BY <1>2, <2>5, Zenon DEF Reconcile
    <3>2. cache.deleting => cache.finalizer
      BY <3>1, Zenon DEF CopiesInv
    <3>3. QED
      BY <1>1, <3>1, <3>2, Zenon DEF Branch
  <2>6. ~Crash /\ ~RemoteGone
    BY NextSteady, Zenon DEF Crash
  <2>7. CASE UNCHANGED <<api, cache, queued, remote>>
    BY <1>1, <1>4, <2>7, Zenon DEF RestInv, DoneInv, PassesPredicate
  <2>8. QED
    BY <1>4, <2>1, <2>2, <2>3, <2>4, <2>5, <2>6, <2>7, Zenon
       DEF Next, Controller, Quiescent, SetDraining, RegisterFinalizer, Create, Update,
           ReconcileStatus, ReconcileStatusFails, Delete, CreateAnswerLost, DeleteAnswerLost,
           RemoteFails, RemoveFinalizer, vars, ngrok
<1>5. QED
  BY <1>3, <1>4, Zenon

\* At rest a Domain records the one reservation that exists, in spite of crashes, lost
\* answers, failed status writes and stale reads, and after any number of them.
THEOREM DomainRecorded == Spec => []RecordedAtRest
<1>1. CopiesInv /\ RestInv => RecordedAtRest
  BY Zenon DEF CopiesInv, RestInv, DoneInv, RecordedAtRest, Steady, PassesPredicate
<1>2. TypeOK /\ AtMostOneRemote /\ CopiesInv /\ RestInv /\ [Next]_vars => RestInv'
  BY NextBranchInv, NextRecordInv, NextDoneInv, Zenon DEF RestInv
<1>3. QED
  BY InitTypeOK, NextTypeOK, InitAtMostOneRemote, NextAtMostOneRemote, InitCopiesInv, NextCopiesInv,
     InitRestInv, <1>1, <1>2, PTL DEF Spec

=============================================================================
