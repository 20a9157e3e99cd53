---------------------------- MODULE DrainProofs ----------------------------
(***************************************************************************)
(* The drain is complete when it says so: proofs for any number of         *)
(* processes, resources, handlers, failures and restarts, in the setting   *)
(* Orderly.                                                                *)
(***************************************************************************)
EXTENDS Drain, TLAPS

\* The setting in which the drain keeps its promises.  The KubernetesOperator is
\* registered; every controller asks; the pause is long enough; a process that
\* has noticed the drain does not lose that knowledge, except for the leader,
\* which drains anew.
Orderly ==
    /\ Registered
    /\ Asks = Resources
    /\ PauseCovers = {"reconciles", "notice"}
    /\ \A p \in Procs : <<p, "completed">> \notin Restarts
    /\ \A p \in Procs : <<p, "draining">> \in Restarts => p = Leader

(***************************************************************************)
(* The inductive invariant.                                                *)
(***************************************************************************)

\* A copy of the KubernetesOperator is behind the KubernetesOperator: what it
\* says of the drain was so and has only progressed.  Only a deregistered one
\* has no Status.ID.
Behind(c) ==
    /\ c.cond = "draining" => ko = None \/ ko.cond \in {"draining", "completed"}
    /\ c.cond = "completed" => ko = None \/ ko.cond = "completed"
    /\ ~c.id => c.cond = "completed" /\ ~registration

CopiesBehind ==
    /\ ko # None => Behind(ko)
    /\ \A p \in Procs : koCache[p] # None => Behind(koCache[p])
    /\ obj # None => Behind(obj)

\* What the copy says at each point of the reconcile.
CopyFits ==
    /\ pc = "initiate" => obj.cond = "none"
    /\ pc \in {"handle", "pause", "list", "items", "wait", "report"} => obj.cond = "draining"
    /\ pc \in {"deregister", "forget", "release"} => obj.cond = "completed"
    /\ pc \in {"forget", "release"} => ~registration

\* From the end of the pause on.
Noticed == Drained \/ pc \in {"list", "items", "wait", "report"}

\* Every process has noticed and no reconcile is on its way to the finalizer.
Quiet == Noticed => asked = {} /\ \A p \in Procs : flag[p]

\* What DrainAll has achieved so far, unless it has met an error.
Cleaned ==
    pc \in {"list", "items", "wait", "report"} /\ ~errors =>
        /\ \A i \in 1..Len(Handlers) : i < handler => \A r \in Handlers[i] : ~HasFinalizer(r)
        /\ pc \in {"items", "wait"} => \A r \in Handlers[handler] : ~HasFinalizer(r) \/ r \in todo
        /\ pc = "report" => handler = Len(Handlers) + 1

\* A resource the drain may not simply strip has the finalizer as long as it has
\* a remote object.
RemoteHeld == Policy = "Delete" => \A r \in remote : HasFinalizer(r)

\* The order of the reconcile's steps, and what the drain has achieved.
InOrder == CopiesBehind /\ CopyFits /\ DeregisteredInOrder
Achieved == Cleaned /\ RemoteHeld /\ (Drained => \A r \in Resources : ~HasFinalizer(r))

IInv == InOrder /\ Quiet /\ Achieved

\* The type invariant holds of every reachable state, in any setting.
THEOREM TypeCorrect == Spec => []TypeOK
<1> USE DrainAssumption, NoneAssumption
<1>1. Init => TypeOK
  <2> SUFFICES ASSUME Init PROVE TypeOK
    OBVIOUS
  <2>1. ko \in Operators
    BY Zenon DEF Init, Operators, Conds
  <2>2. 1 \in 1..(Len(Handlers) + 1) /\ 0 \in 0..MaxRestarts /\ 0 \in 0..MaxFailures /\ 0 \in 0..MaxCreates
    OBVIOUS
  <2> QED
    BY <2>1, <2>2, Zenon DEF Init, TypeOK, Phases, OperatorResources
<1>2. TypeOK /\ [Next]_vars => TypeOK'
  <2> SUFFICES ASSUME TypeOK, [Next]_vars PROVE TypeOK'
    OBVIOUS
  <2> USE DEF TypeOK, Phases, OperatorResources, drain, bounds
  <2>fail. ASSUME Fail PROVE failures' \in 0..MaxFailures /\ UNCHANGED <<restarts, creates>>
    BY <2>fail DEF Fail
  <2>idle. ASSUME GiveUp
           PROVE pc' = "idle" /\ obj' = None /\ todo' = {} /\ waitsFor' = {} /\ UNCHANGED <<handler, errors>>
    BY <2>idle, Zenon DEF GiveUp
  <2>write. ASSUME NEW n \in Operators, NEW p \in Phases \ {"idle", "list", "items", "wait"},
                   pc \notin {"idle", "list", "items", "wait"}, UpdateStatus(n, p)
            PROVE /\ ko' \in Operators \cup {None} /\ obj' \in Operators \cup {None}
                  /\ pc' \in Phases \ {"list", "items", "wait"}
                  /\ pc' # "idle" <=> obj' # None
                  /\ todo' \in {todo, {}} /\ waitsFor' = {} /\ UNCHANGED <<handler, errors>>
    BY <2>write, <2>idle, Zenon DEF UpdateStatus
  <2>set. /\ \A x \in Operators : [x EXCEPT !.deleting = TRUE] \in Operators
          /\ \A x \in Operators : [x EXCEPT !.id = FALSE] \in Operators
          /\ \A x \in Operators : \A c \in Conds : [x EXCEPT !.cond = c] \in Operators
    BY Zenon DEF Operators
  <2>1. CASE UserDeletesOperator
    BY <2>1, <2>set, Zenon DEF UserDeletesOperator
  <2>2. ASSUME NEW r \in Resources, UserCreates(r) PROVE TypeOK'
    BY <2>2 DEF UserCreates
  <2>3. ASSUME NEW r \in Resources, UserDeletes(r) PROVE TypeOK'
    BY <2>3, Zenon DEF UserDeletes
  <2>4. ASSUME NEW p \in Procs, CacheCatchesUp(p) PROVE TypeOK'
    BY <2>4, Zenon DEF CacheCatchesUp
  <2>5. ASSUME NEW p \in Procs, Restart(p) PROVE TypeOK'
    <3>1. restarts' \in 0..MaxRestarts
      BY <2>5 DEF Restart
    <3>2. asked' \subseteq Procs \X Resources
      BY <2>5, Zenon DEF Restart
    <3>3. CASE p = Leader
      BY <2>5, <2>idle, <3>1, <3>2, <3>3, Zenon DEF Restart
    <3>4. CASE p # Leader
      BY <2>5, <3>1, <3>2, <3>4, Zenon DEF Restart
    <3> QED
      BY <3>3, <3>4, Zenon
  <2>6. ASSUME NEW p \in Procs, Notice(p) PROVE TypeOK'
    BY <2>6, Zenon DEF Notice
  <2>7. ASSUME NEW p \in Procs, NEW r \in Resources, Upsert(p, r) PROVE TypeOK'
    BY <2>7 DEF Upsert
  <2>8. ASSUME NEW p \in Procs, NEW r \in Resources, RegisterFinalizer(p, r) PROVE TypeOK'
    BY <2>8 DEF RegisterFinalizer
  <2>9. ASSUME NEW p \in Procs, NEW r \in Resources, Finalize(p, r) PROVE TypeOK'
    BY <2>9, Zenon DEF Finalize
  <2>10. CASE Begin
    BY <2>10, Zenon DEF Begin, Operators, Conds
  <2>11. CASE Initiate
    BY <2>11, <2>write, <2>set, Zenon DEF Initiate, Conds
  <2>12. CASE HandleDrain
    BY <2>12, Zenon DEF HandleDrain
  <2>13. CASE Pause
    <3>1. 1 \in 1..Len(Handlers) /\ 1 \in 1..(Len(Handlers) + 1)
      OBVIOUS
    <3>2. waitsFor = {}
      BY <2>13, Zenon DEF Pause
    <3>3. /\ pc' = "list" /\ handler' = 1 /\ errors' = FALSE /\ todo' = {} /\ obj # None
          /\ UNCHANGED <<registration, ko, koCache, flag, res, remote, asked, obj, waitsFor, bounds>>
      BY <2>13, Zenon DEF Pause
    <3> QED
      BY <3>1, <3>2, <3>3, Zenon
  <2>14. CASE DrainList
    BY <2>14 DEF DrainList
  <2>15. ASSUME NEW r \in Resources, Strip(r) PROVE TypeOK'
    BY <2>15, Zenon DEF Strip, Stripped
  <2>16. ASSUME NEW r \in Resources, DeleteResource(r) PROVE TypeOK'
    <3>1. CASE res[r] = "absent"
      BY <2>16, <3>1, Zenon DEF DeleteResource
    <3>2. CASE res[r] # "absent"
      <4>1. res' \in [Resources -> {"absent", "bare", "held", "deleting"}]
        BY <2>16, <3>2, Zenon DEF DeleteResource
      <4>2. pc' = "wait" /\ waitsFor' = {r} /\ todo' = todo /\ r \in todo /\ pc = "items"
        BY <2>16, <3>2, Zenon DEF DeleteResource
      <4> QED
        BY <2>16, <4>1, <4>2, Zenon DEF DeleteResource
    <3> QED
      BY <3>1, <3>2, Zenon
  <2>17. CASE WaitForDeletion
    BY <2>17, Zenon DEF WaitForDeletion, WaitEnds
  <2>18. CASE WaitTimesOut
    <3>1. failures' \in 0..MaxFailures /\ UNCHANGED <<restarts, creates>>
      BY <2>18, <2>fail, Zenon DEF WaitTimesOut
    <3> QED
      BY <2>18, <3>1, Zenon DEF WaitTimesOut, WaitEnds
  <2>19. CASE NextHandler
    BY <2>19 DEF NextHandler
  <2>20. CASE Report
    <3>1. CASE errors
      BY <2>20, <2>idle, <3>1, Zenon DEF Report
    <3>2. CASE ~errors
      BY <2>20, <2>write, <2>set, <3>2, Zenon DEF Report, Conds
    <3> QED
      BY <3>1, <3>2, Zenon
  <2>21. CASE Deregister
    BY <2>21, Zenon DEF Deregister
  <2>22. CASE Forget
    BY <2>22, <2>write, <2>set, Zenon DEF Forget
  <2>23. CASE Release
    BY <2>23, <2>idle, Zenon DEF Release
  <2>24. CASE DrainListFails
    BY <2>24, <2>fail, Zenon DEF DrainListFails
  <2>25. ASSUME NEW r \in Resources, DrainOneFails(r) PROVE TypeOK'
    BY <2>25, <2>fail, Zenon DEF DrainOneFails
  <2>26. CASE OperatorCallFails
    BY <2>26, <2>fail, <2>idle, Zenon DEF OperatorCallFails
  <2>27. CASE UNCHANGED vars
    BY <2>27, Zenon DEF vars
  <2> QED
    BY <2>1, <2>2, <2>3, <2>4, <2>5, <2>6, <2>7, <2>8, <2>9, <2>10, <2>11, <2>12, <2>13, <2>14,
       <2>15, <2>16, <2>17, <2>18, <2>19, <2>20, <2>21, <2>22, <2>23, <2>24, <2>25, <2>26, <2>27, Zenon
       DEF Next, Users, Controllers, Operator, Drainer, DrainerFails, Done
<1> QED
  BY <1>1, <1>2, PTL DEF Spec

-----------------------------------------------------------------------------

\* The KubernetesOperator only progresses.
Progresses ==
    /\ ko = None => ko' = None
    /\ ko' # None /\ ko.cond = "draining" => ko'.cond \in {"draining", "completed"}
    /\ ko' # None /\ ko.cond = "completed" => ko'.cond = "completed"
    /\ ~registration => ~registration'

\* Every step keeps the order of the reconcile's steps.
LEMMA InOrderStep ==
    ASSUME Orderly, TypeOK, InOrder, [Next]_vars
    PROVE  InOrder'
<1> USE DrainAssumption, NoneAssumption
<1> USE DEF drain, bounds
<1>types. /\ ko # None => ko \in Operators
          /\ obj # None => obj \in Operators
          /\ \A p \in Procs : koCache[p] # None => koCache[p] \in Operators
          /\ pc # "idle" => obj # None
  BY Zenon DEF TypeOK
<1>same. ASSUME UNCHANGED <<ko, koCache, obj, pc, registration>> PROVE InOrder'
  BY <1>same, Zenon DEF InOrder, CopiesBehind, Behind, CopyFits, DeregisteredInOrder, Drained
<1>idle. ASSUME UNCHANGED <<ko, registration>>, pc' = "idle", obj' = None,
                \A p \in Procs : koCache'[p] \in {koCache[p], ko}
         PROVE  InOrder'
  BY <1>idle, Zenon DEF InOrder, CopiesBehind, Behind, CopyFits, DeregisteredInOrder, Drained
<1>moves. ASSUME UNCHANGED <<ko, koCache, obj, registration>>,
                 pc \in {"handle", "pause", "list", "items", "wait", "report"},
                 pc' \in {"handle", "pause", "list", "items", "wait", "report"}
          PROVE  InOrder'
  BY <1>moves, Zenon DEF InOrder, CopiesBehind, Behind, CopyFits, DeregisteredInOrder, Drained
<1>1. CASE UserDeletesOperator
  <2>1. ko' # None /\ ko'.cond = ko.cond /\ ko'.id = ko.id
    BY <1>1, <1>types, Zenon DEF UserDeletesOperator, Operators
  <2>2. CopiesBehind'
    BY <1>1, <2>1, Zenon DEF UserDeletesOperator, InOrder, CopiesBehind, Behind
  <2> QED
    BY <1>1, <2>1, <2>2, Zenon DEF UserDeletesOperator, InOrder, CopyFits, DeregisteredInOrder, Drained
<1>2. ASSUME NEW p \in Procs, CacheCatchesUp(p) PROVE InOrder'
  <2>1. \A q \in Procs : koCache'[q] \in {koCache[q], ko}
    BY <1>2, Zenon DEF CacheCatchesUp, TypeOK
  <2> QED
    BY <1>2, <2>1 DEF CacheCatchesUp, InOrder, CopiesBehind, Behind, CopyFits, DeregisteredInOrder, Drained
<1>3. ASSUME NEW p \in Procs, Restart(p) PROVE InOrder'
  <2>1. \A q \in Procs : koCache'[q] \in {koCache[q], ko}
    BY <1>3, Zenon DEF Restart, TypeOK
  <2>2. CASE p = Leader
    BY <1>3, <1>idle, <2>1, <2>2, Zenon DEF Restart, GiveUp
  <2>3. CASE p # Leader
    BY <1>3, <2>1, <2>3 DEF Restart, InOrder, CopiesBehind, Behind, CopyFits, DeregisteredInOrder, Drained
  <2> QED
    BY <2>2, <2>3, Zenon
<1>4. CASE Begin
  <2>1. obj' = koCache[Leader] /\ koCache[Leader] # None /\ koCache[Leader] \in Operators
    BY <1>4, <1>types, Zenon DEF Begin
  <2>2. Behind(koCache[Leader])
    BY <2>1, Zenon DEF InOrder, CopiesBehind
  <2>3. CopiesBehind'
    BY <1>4, <2>1, <2>2, Zenon DEF Begin, InOrder, CopiesBehind, Behind
  <2>4. CopyFits'
    <3>1. CASE ~obj'.id
      BY <1>4, <2>1, <2>2, <3>1, Zenon DEF Begin, CopyFits, Behind
    <3>2. CASE obj'.id
      BY <1>4, <2>1, <3>2, Zenon DEF Begin, CopyFits, Operators, Conds
    <3> QED
      BY <3>1, <3>2, Zenon
  <2> QED
    BY <1>4, <2>3, <2>4, Zenon DEF Begin, InOrder, DeregisteredInOrder, Drained
<1>5. CASE Initiate
  <2> DEFINE n == [obj EXCEPT !.cond = "draining"]
  <2>0. pc = "initiate" /\ obj \in Operators /\ obj # None
    BY <1>5, <1>types, Zenon DEF Initiate
  <2>1. n \in Operators /\ n.cond = "draining" /\ n.id = obj.id
    BY <2>0, Zenon DEF Operators, Conds
  <2>2. CASE obj = ko
    <3>1. obj.id /\ obj.cond = "none"
      BY <2>0, <2>2, Zenon DEF InOrder, CopiesBehind, CopyFits, Behind
    <3>2. UpdateStatus(n, "handle") /\ UNCHANGED <<koCache, registration>>
      BY <1>5, Zenon DEF Initiate
    <3>3. ko' = n /\ obj' = n /\ pc' = "handle"
      BY <2>2, <3>2, Zenon DEF UpdateStatus
    <3>4. Progresses
      BY <2>0, <2>1, <2>2, <3>1, <3>2, <3>3, Zenon DEF Progresses
    <3>5. (\A q \in Procs : koCache[q] # None => Behind(koCache[q]))'
      BY <3>2, <3>4, Zenon DEF InOrder, CopiesBehind, Behind, Progresses
    <3>6. CopiesBehind'
      BY <2>1, <3>1, <3>2, <3>3, <3>5, Zenon DEF CopiesBehind, Behind
    <3>7. CopyFits' /\ DeregisteredInOrder'
      BY <2>0, <2>1, <2>2, <3>1, <3>2, <3>3, Zenon DEF CopyFits, DeregisteredInOrder, Drained, InOrder
    <3> QED
      BY <3>6, <3>7, Zenon DEF InOrder
  <2>3. CASE obj # ko
    BY <1>5, <2>3, <1>idle, Zenon DEF Initiate, UpdateStatus, GiveUp
  <2> QED
    BY <2>2, <2>3, Zenon
<1>6. CASE HandleDrain
  BY <1>6, <1>moves, Zenon DEF HandleDrain
<1>7. CASE Pause
  BY <1>7, <1>moves, Zenon DEF Pause
<1>8. CASE DrainList \/ DrainListFails
  BY <1>8, <1>moves, Zenon DEF DrainList, DrainListFails
<1>9. ASSUME NEW r \in Resources, Strip(r) \/ DeleteResource(r) \/ DrainOneFails(r) PROVE InOrder'
  BY <1>9, <1>moves, Zenon DEF Strip, DeleteResource, DrainOneFails
<1>10. CASE WaitForDeletion \/ WaitTimesOut
  BY <1>10, <1>moves, Zenon DEF WaitForDeletion, WaitTimesOut, WaitEnds
<1>11. CASE NextHandler
  BY <1>11, <1>moves, Zenon DEF NextHandler
<1>12. CASE Report
  <2>1. CASE errors
    BY <1>12, <2>1, <1>idle, Zenon DEF Report, GiveUp
  <2>2. CASE ~errors
    <3> DEFINE n == [obj EXCEPT !.cond = "completed"]
    <3>1. pc = "report" /\ obj \in Operators /\ obj # None
      BY <1>12, <1>types, Zenon DEF Report
    <3>2. n \in Operators /\ n.cond = "completed" /\ n.id = obj.id
      BY <3>1, Zenon DEF Operators, Conds
    <3>3. CASE obj = ko
      <4>1. UpdateStatus(n, "deregister") /\ UNCHANGED <<koCache, registration>>
        BY <1>12, <2>2, Zenon DEF Report
      <4>2. ko' = n /\ obj' = n /\ pc' = "deregister"
        BY <3>3, <4>1, Zenon DEF UpdateStatus
      <4>3. Progresses
        BY <3>1, <3>2, <3>3, <4>1, <4>2, Zenon DEF Progresses
      <4>4. (\A q \in Procs : koCache[q] # None => Behind(koCache[q]))'
        BY <4>1, <4>3, Zenon DEF InOrder, CopiesBehind, Behind, Progresses
      <4>5. Behind(obj)
        BY <3>1, Zenon DEF InOrder, CopiesBehind
      <4>6. CopiesBehind'
        BY <3>2, <4>1, <4>2, <4>4, <4>5, Zenon DEF CopiesBehind, Behind
      <4> QED
        BY <3>2, <4>1, <4>2, <4>6, Zenon DEF InOrder, CopyFits, DeregisteredInOrder, Drained
    <3>4. CASE obj # ko
      BY <1>12, <2>2, <3>4, <1>idle, Zenon DEF Report, UpdateStatus, GiveUp
    <3> QED
      BY <3>3, <3>4
  <2> QED
    BY <2>1, <2>2, Zenon
<1>13. CASE Deregister
  <2>1. obj # None /\ obj.cond = "completed" /\ (ko = None \/ ko.cond = "completed")
    BY <1>13, <1>types, Zenon DEF Deregister, InOrder, CopyFits, CopiesBehind, Behind
  <2> QED
    BY <1>13, <2>1, Zenon DEF Deregister, InOrder, CopiesBehind, Behind, CopyFits, DeregisteredInOrder, Drained
<1>14. CASE Forget
  <2> DEFINE n == [obj EXCEPT !.id = FALSE]
  <2>1. pc = "forget" /\ obj \in Operators /\ obj # None /\ obj.cond = "completed" /\ ~registration
    BY <1>14, <1>types, Zenon DEF Forget, InOrder, CopyFits
  <2>2. n \in Operators /\ n.cond = "completed" /\ ~n.id
    BY <2>1, Zenon DEF Operators
  <2>3. CASE obj = ko
    <3>1. UpdateStatus(n, "release") /\ UNCHANGED <<koCache, registration>>
      BY <1>14, Zenon DEF Forget
    <3>2. ko' = n /\ obj' = n /\ pc' = "release"
      BY <2>3, <3>1, Zenon DEF UpdateStatus
    <3>3. Progresses
      BY <2>1, <2>2, <2>3, <3>1, <3>2, Zenon DEF Progresses
    <3>4. (\A q \in Procs : koCache[q] # None => Behind(koCache[q]))'
      BY <3>1, <3>3, Zenon DEF InOrder, CopiesBehind, Behind, Progresses
    <3>5. CopiesBehind'
      BY <2>1, <2>2, <3>1, <3>2, <3>4, Zenon DEF CopiesBehind, Behind
    <3> QED
      BY <2>1, <2>2, <3>1, <3>2, <3>5, Zenon DEF InOrder, CopyFits, DeregisteredInOrder, Drained
  <2>4. CASE obj # ko
    BY <1>14, <2>4, <1>idle, Zenon DEF Forget, UpdateStatus, GiveUp
  <2> QED
    BY <2>3, <2>4
<1>15. CASE Release
  <2>1. ~registration
    BY <1>15, Zenon DEF Release, InOrder, CopyFits
  <2> QED
    BY <1>15, <2>1, Zenon DEF Release, GiveUp, InOrder, CopiesBehind, Behind, CopyFits, DeregisteredInOrder, Drained
<1>16. CASE OperatorCallFails
  BY <1>16, <1>idle, Zenon DEF OperatorCallFails, GiveUp
<1>17. ASSUME NEW r \in Resources, UserCreates(r) \/ UserDeletes(r) PROVE InOrder'
  BY <1>17, <1>same, Zenon DEF UserCreates, UserDeletes
<1>18. ASSUME NEW p \in Procs, NEW r \in Resources,
               Notice(p) \/ Upsert(p, r) \/ RegisterFinalizer(p, r) \/ Finalize(p, r)
       PROVE  InOrder'
  BY <1>18, <1>same, Zenon DEF Notice, Upsert, RegisterFinalizer, Finalize
<1>19. ASSUME NEW p \in Procs, Notice(p) PROVE InOrder'
  BY <1>19, <1>same, Zenon DEF Notice
<1>20. CASE UNCHANGED vars
  BY <1>20, <1>same, Zenon DEF vars
<1> QED
  BY <1>1, <1>2, <1>3, <1>4, <1>5, <1>6, <1>7, <1>8, <1>9, <1>10, <1>11, <1>12, <1>13, <1>14,
     <1>15, <1>16, <1>17, <1>18, <1>19, <1>20, Zenon
     DEF Next, Users, Controllers, Operator, Drainer, DrainerFails, Done

\* Every step keeps the processes quiet once the pause is over.
LEMMA QuietStep ==
    ASSUME Orderly, TypeOK, InOrder, Quiet, [Next]_vars
    PROVE  Quiet'
<1> USE DrainAssumption, NoneAssumption
<1> USE DEF drain, bounds
<1>types. /\ flag \in [Procs -> BOOLEAN]
          /\ obj # None => obj \in Operators
          /\ pc # "idle" => obj # None
  BY Zenon DEF TypeOK
<1>keeps. ASSUME Noticed' => Noticed, asked = {} => asked' = {}, \A p \in Procs : flag[p] => flag'[p]
          PROVE  Quiet'
  BY <1>keeps, Zenon DEF Quiet
<1>same. ASSUME UNCHANGED <<ko, asked, flag>>,
                pc' = pc \/ pc \in {"list", "items", "wait", "report"}
                  \/ pc' \notin {"list", "items", "wait", "report"}
         PROVE  Quiet'
  BY <1>same, <1>keeps, Zenon DEF Noticed, Drained
<1>done. ASSUME pc \in {"deregister", "forget", "release"} PROVE Drained
  BY <1>done, <1>types, Zenon DEF InOrder, CopyFits, CopiesBehind, Behind, Drained
<1>1. CASE UserDeletesOperator
  <2>1. ko' # None /\ ko'.cond = ko.cond
    BY <1>1, Zenon DEF UserDeletesOperator, TypeOK, Operators
  <2> QED
    BY <1>1, <2>1, <1>keeps, Zenon DEF UserDeletesOperator, Noticed, Drained
<1>2. ASSUME NEW p \in Procs, CacheCatchesUp(p) PROVE Quiet'
  BY <1>2, <1>same, Zenon DEF CacheCatchesUp
<1>3. ASSUME NEW p \in Procs, Restart(p) PROVE Quiet'
  <2>1. ko # None /\ ko.cond # "completed" /\ UNCHANGED ko
    BY <1>3, Zenon DEF Restart, Orderly
  <2>2. ~Drained /\ ~Drained'
    BY <2>1, Zenon DEF Drained
  <2>3. CASE p = Leader
    BY <1>3, <2>2, <2>3, Zenon DEF Restart, GiveUp, Quiet, Noticed
  <2>4. CASE p # Leader
    <3>1. ko.cond = "none"
      BY <1>3, <2>1, <2>4, Zenon DEF Restart, Orderly, TypeOK, Operators, Conds
    <3>2. pc \notin {"list", "items", "wait", "report"}
      BY <2>1, <3>1, <1>types, Zenon DEF InOrder, CopyFits, CopiesBehind, Behind
    <3> QED
      BY <1>3, <2>2, <2>4, <3>2, Zenon DEF Restart, Quiet, Noticed
  <2> QED
    BY <2>3, <2>4, Zenon
<1>4. ASSUME NEW p \in Procs, Notice(p) PROVE Quiet'
  <2>1. \A q \in Procs : flag[q] => flag'[q]
    BY <1>4, <1>types, Zenon DEF Notice
  <2> QED
    BY <1>4, <2>1, <1>keeps, Zenon DEF Notice, Noticed, Drained
<1>5. ASSUME NEW p \in Procs, NEW r \in Resources, Upsert(p, r) PROVE Quiet'
  <2>1. ~Noticed
    BY <1>5, Zenon DEF Upsert, IsDraining, Quiet, Orderly
  <2> QED
    BY <1>5, <2>1, Zenon DEF Upsert, Quiet, Noticed, Drained
<1>6. ASSUME NEW p \in Procs, NEW r \in Resources, RegisterFinalizer(p, r) PROVE Quiet'
  BY <1>6, <1>keeps, Zenon DEF RegisterFinalizer, Noticed, Drained
<1>7. ASSUME NEW p \in Procs, NEW r \in Resources, Finalize(p, r) PROVE Quiet'
  BY <1>7, <1>same, Zenon DEF Finalize
<1>8. ASSUME NEW r \in Resources, UserCreates(r) \/ UserDeletes(r) PROVE Quiet'
  BY <1>8, <1>same, Zenon DEF UserCreates, UserDeletes
<1>9. CASE Begin
  <2>1. koCache[Leader] \in Operators
    BY <1>9, Zenon DEF Begin, TypeOK
  <2>2. pc' \in {"release", "initiate", "handle", "deregister"}
    BY <1>9, <2>1, Zenon DEF Begin, Operators, Conds
  <2> QED
    BY <1>9, <2>2, <1>same, Zenon DEF Begin
<1>10. CASE Initiate
  <2>1. CASE obj = ko
    <3>1. ko' = [obj EXCEPT !.cond = "draining"] /\ pc' = "handle" /\ obj \in Operators
      BY <1>10, <2>1, <1>types, Zenon DEF Initiate, UpdateStatus
    <3>2. ko' # None /\ ko'.cond = "draining"
      BY <3>1, Zenon DEF Operators, Conds
    <3> QED
      BY <3>1, <3>2, Zenon DEF Quiet, Noticed, Drained
  <2>2. CASE obj # ko
    BY <1>10, <2>2, <1>same, Zenon DEF Initiate, UpdateStatus, GiveUp
  <2> QED
    BY <2>1, <2>2, Zenon
<1>11. CASE HandleDrain
  <2>1. \A q \in Procs : flag[q] => flag'[q]
    BY <1>11, <1>types, Zenon DEF HandleDrain
  <2> QED
    BY <1>11, <2>1, <1>keeps, Zenon DEF HandleDrain, Noticed, Drained
<1>12. CASE Pause
  BY <1>12, Zenon DEF Pause, Orderly, Quiet
<1>13. CASE DrainList \/ DrainListFails \/ NextHandler
  BY <1>13, <1>same, Zenon DEF DrainList, DrainListFails, NextHandler
<1>14. ASSUME NEW r \in Resources, Strip(r) \/ DeleteResource(r) \/ DrainOneFails(r) PROVE Quiet'
  BY <1>14, <1>same, Zenon DEF Strip, DeleteResource, DrainOneFails
<1>15. CASE WaitForDeletion \/ WaitTimesOut
  BY <1>15, <1>same, Zenon DEF WaitForDeletion, WaitTimesOut, WaitEnds
<1>16. CASE Report
  <2>1. Noticed
    BY <1>16, Zenon DEF Report, Noticed
  <2> QED
    BY <1>16, <2>1, <1>keeps, Zenon DEF Report
<1>17. CASE Deregister
  BY <1>17, <1>same, Zenon DEF Deregister
<1>18. CASE Forget \/ Release
  <2>1. Noticed
    BY <1>18, <1>done, Zenon DEF Forget, Release, Noticed
  <2> QED
    BY <1>18, <2>1, <1>keeps, Zenon DEF Forget, Release
<1>19. CASE OperatorCallFails
  BY <1>19, <1>same, Zenon DEF OperatorCallFails, GiveUp
<1>20. CASE UNCHANGED vars
  BY <1>20, <1>same, Zenon DEF vars
<1> QED
  BY <1>1, <1>2, <1>3, <1>4, <1>5, <1>6, <1>7, <1>8, <1>9, <1>10, <1>11, <1>12, <1>13, <1>14,
     <1>15, <1>16, <1>17, <1>18, <1>19, <1>20, Zenon
     DEF Next, Users, Controllers, Operator, Drainer, DrainerFails, Done

\* From the end of the pause on no step gives a resource the finalizer.
LEMMA NoneNew ==
    ASSUME TypeOK, Quiet, Noticed, [Next]_vars, NEW r \in Resources
    PROVE  /\ res'[r] = "held" => res[r] = "held"
           /\ HasFinalizer(r)' => HasFinalizer(r)
<1> USE DrainAssumption
<1> USE DEF drain, bounds, HasFinalizer
<1>types. res \in [Resources -> {"absent", "bare", "held", "deleting"}] /\ asked = {}
  BY Zenon DEF TypeOK, Quiet
<1>1. CASE UNCHANGED res
  BY <1>1, Zenon
<1>2. ASSUME NEW q \in Resources, UserCreates(q) \/ UserDeletes(q)
      PROVE  (res'[r] = "held" => res[r] = "held") /\ (HasFinalizer(r)' => HasFinalizer(r))
  BY <1>2, <1>types, Zenon DEF UserCreates, UserDeletes
<1>3. ASSUME NEW p \in Procs, NEW q \in Resources, RegisterFinalizer(p, q) \/ Finalize(p, q)
      PROVE  (res'[r] = "held" => res[r] = "held") /\ (HasFinalizer(r)' => HasFinalizer(r))
  BY <1>3, <1>types, Zenon DEF RegisterFinalizer, Finalize
<1>4. ASSUME NEW q \in Resources, Strip(q) \/ DeleteResource(q)
      PROVE  (res'[r] = "held" => res[r] = "held") /\ (HasFinalizer(r)' => HasFinalizer(r))
  BY <1>4, <1>types, Zenon DEF Strip, Stripped, DeleteResource
<1> QED
  BY <1>1, <1>2, <1>3, <1>4, Zenon
     DEF Next, Users, Controllers, Operator, Drainer, DrainerFails, Done, vars,
         UserDeletesOperator, CacheCatchesUp, Restart, Notice, Upsert, Begin, Initiate, HandleDrain,
         Pause, DrainList, DrainListFails, DrainOneFails, WaitForDeletion, WaitTimesOut, WaitEnds,
         NextHandler, Report, Deregister, Forget, Release, OperatorCallFails

\* A remote object keeps its resource from losing the finalizer.
LEMMA RemoteHeldStep ==
    ASSUME TypeOK, RemoteHeld, [Next]_vars
    PROVE  RemoteHeld'
<1> USE DrainAssumption
<1> USE DEF drain, bounds, HasFinalizer, RemoteHeld
<1>types. /\ res \in [Resources -> {"absent", "bare", "held", "deleting"}]
          /\ remote \subseteq Resources
          /\ \A r \in remote : r \notin UserResources
  BY Zenon DEF TypeOK, OperatorResources
<1>1. CASE UNCHANGED <<res, remote>>
  BY <1>1, Zenon
<1>2. ASSUME NEW q \in Resources, UserCreates(q) \/ UserDeletes(q) PROVE RemoteHeld'
  BY <1>2, <1>types, Zenon DEF UserCreates, UserDeletes
<1>3. ASSUME NEW p \in Procs, NEW q \in Resources, RegisterFinalizer(p, q) PROVE RemoteHeld'
  BY <1>3, <1>types DEF RegisterFinalizer
<1>4. ASSUME NEW p \in Procs, NEW q \in Resources, Finalize(p, q) PROVE RemoteHeld'
  BY <1>4, <1>types, Zenon DEF Finalize
<1>5. ASSUME NEW q \in Resources, Strip(q) PROVE RemoteHeld'
  BY <1>5, <1>types, Zenon DEF Strip, StripOnly
<1>6. ASSUME NEW q \in Resources, DeleteResource(q) PROVE RemoteHeld'
  BY <1>6, <1>types, Zenon DEF DeleteResource
<1> QED
  BY <1>1, <1>2, <1>3, <1>4, <1>5, <1>6, Zenon
     DEF Next, Users, Controllers, Operator, Drainer, DrainerFails, Done, vars,
         UserDeletesOperator, CacheCatchesUp, Restart, Notice, Upsert, Begin, Initiate, HandleDrain,
         Pause, DrainList, DrainListFails, DrainOneFails, WaitForDeletion, WaitTimesOut, WaitEnds,
         NextHandler, Report, Deregister, Forget, Release, OperatorCallFails

\* DrainAll never takes a resource for clean that has the finalizer.
LEMMA CleanedStep ==
    ASSUME Orderly, TypeOK, InOrder, Quiet, Cleaned, [Next]_vars
    PROVE  Cleaned'
<1> USE DrainAssumption
<1> USE DEF drain, bounds
<1>types. /\ handler \in 1..(Len(Handlers) + 1)
          /\ pc \in {"list", "items", "wait"} => handler \in 1..Len(Handlers)
          /\ Len(Handlers) \in Nat
          /\ \A i \in 1..Len(Handlers) : Handlers[i] \subseteq Resources
  BY DEF TypeOK
<1>none. ASSUME pc \in {"list", "items", "wait", "report"}
         PROVE  \A i \in 1..Len(Handlers) : \A r \in Handlers[i] : ~HasFinalizer(r) => ~HasFinalizer(r)'
  BY <1>none, <1>types, NoneNew, Zenon DEF Noticed
<1>same. ASSUME UNCHANGED drain PROVE Cleaned'
  <2>1. UNCHANGED <<pc, obj, handler, todo, waitsFor, errors>>
    BY <1>same, Zenon
  <2>2. CASE pc \in {"list", "items", "wait", "report"}
    BY <2>1, <2>2, <1>none, <1>types, Zenon DEF Cleaned
  <2>3. CASE pc \notin {"list", "items", "wait", "report"}
    BY <2>1, <2>3, Zenon DEF Cleaned
  <2> QED
    BY <2>2, <2>3, Zenon
<1>out. ASSUME pc' \notin {"list", "items", "wait", "report"} PROVE Cleaned'
  BY <1>out, Zenon DEF Cleaned
<1>err. ASSUME errors' = TRUE PROVE Cleaned'
  BY <1>err, Zenon DEF Cleaned
<1>1. CASE UserDeletesOperator
  BY <1>1, <1>same, Zenon DEF UserDeletesOperator
<1>2. ASSUME NEW p \in Procs, CacheCatchesUp(p) \/ Notice(p) PROVE Cleaned'
  BY <1>2, <1>same, Zenon DEF CacheCatchesUp, Notice
<1>3. ASSUME NEW p \in Procs, Restart(p) PROVE Cleaned'
  BY <1>3, <1>same, <1>out, Zenon DEF Restart, GiveUp
<1>4. ASSUME NEW p \in Procs, NEW r \in Resources,
             Upsert(p, r) \/ RegisterFinalizer(p, r) \/ Finalize(p, r)
      PROVE  Cleaned'
  BY <1>4, <1>same, Zenon DEF Upsert, RegisterFinalizer, Finalize
<1>5. ASSUME NEW r \in Resources, UserCreates(r) \/ UserDeletes(r) PROVE Cleaned'
  BY <1>5, <1>same, Zenon DEF UserCreates, UserDeletes
<1>6. CASE Begin
  <2>1. koCache[Leader] \in Operators
    BY <1>6, Zenon DEF Begin, TypeOK
  <2> QED
    BY <1>6, <2>1, <1>out, Zenon DEF Begin, Operators, Conds
<1>7. CASE Initiate \/ Forget
  BY <1>7, <1>out, Zenon DEF Initiate, Forget, UpdateStatus, GiveUp
<1>8. CASE HandleDrain \/ Deregister
  BY <1>8, <1>out, Zenon DEF HandleDrain, Deregister
<1>9. CASE Pause
  BY <1>9, <1>types DEF Pause, Cleaned
<1>10. CASE DrainList
  <2>1. pc = "list" /\ pc' = "items" /\ UNCHANGED <<res, handler, errors>>
        /\ todo' = {r \in Handlers[handler] : HasFinalizer(r)}
    BY <1>10, Zenon DEF DrainList
  <2> QED
    BY <2>1, <1>types, Zenon DEF Cleaned, HasFinalizer
<1>11. CASE DrainListFails
  BY <1>11, <1>err, Zenon DEF DrainListFails
<1>12. ASSUME NEW r \in Resources, DrainOneFails(r) PROVE Cleaned'
  BY <1>12, <1>err, Zenon DEF DrainOneFails
<1>13. ASSUME NEW r \in Resources, Strip(r) PROVE Cleaned'
  <2>1. pc = "items" /\ pc' = "items" /\ UNCHANGED handler /\ todo' = todo \ {r} /\ (~errors' => ~errors)
    BY <1>13, Zenon DEF Strip
  <2>2. ~HasFinalizer(r)'
    BY <1>13, Zenon DEF Strip, Stripped, HasFinalizer, TypeOK
  <2> QED
    BY <2>1, <2>2, <1>none, <1>types, Zenon DEF Cleaned
<1>14. ASSUME NEW r \in Resources, DeleteResource(r) PROVE Cleaned'
  <2>1. pc = "items" /\ pc' \in {"items", "wait"} /\ UNCHANGED <<handler, errors>>
    BY <1>14, Zenon DEF DeleteResource
  <2>2. todo' = todo \/ (todo' = todo \ {r} /\ ~HasFinalizer(r))
    BY <1>14, Zenon DEF DeleteResource, HasFinalizer
  <2> QED
    BY <2>1, <2>2, <1>none, <1>types, Zenon DEF Cleaned
<1>15. CASE WaitForDeletion
  <2>1. pc = "wait" /\ pc' = "items" /\ UNCHANGED <<handler, errors, res>> /\ todo' = todo \ waitsFor
        /\ \A r \in waitsFor : ~HasFinalizer(r)
    BY <1>15, Zenon DEF WaitForDeletion, WaitEnds, HasFinalizer
  <2> QED
    BY <2>1, <1>types, Zenon DEF Cleaned, HasFinalizer
<1>16. CASE WaitTimesOut
  BY <1>16, <1>err, Zenon DEF WaitTimesOut
<1>17. CASE NextHandler
  <2>1. pc = "items" /\ todo = {} /\ handler' = handler + 1 /\ UNCHANGED <<errors, res>>
        /\ pc' = IF handler < Len(Handlers) THEN "list" ELSE "report"
    BY <1>17, Zenon DEF NextHandler
  <2>2. ASSUME ~errors, NEW i \in 1..Len(Handlers), i < handler + 1, NEW r \in Handlers[i]
        PROVE  ~HasFinalizer(r)
    <3>1. i < handler \/ i = handler
      BY <2>2, <1>types
    <3> QED
      BY <2>1, <2>2, <3>1, Zenon DEF Cleaned
  <2>3. pc' = "report" => handler' = Len(Handlers) + 1
    BY <2>1, <1>types
  <2> QED
    BY <2>1, <2>2, <2>3, Zenon DEF Cleaned, HasFinalizer
<1>18. CASE Report
  BY <1>18, <1>out, Zenon DEF Report, UpdateStatus, GiveUp
<1>19. CASE Release \/ OperatorCallFails
  BY <1>19, <1>out, Zenon DEF Release, OperatorCallFails, GiveUp
<1>20. CASE UNCHANGED vars
  BY <1>20, <1>same, Zenon DEF vars
<1> QED
  BY <1>1, <1>2, <1>3, <1>4, <1>5, <1>6, <1>7, <1>8, <1>9, <1>10, <1>11, <1>12, <1>13, <1>14,
     <1>15, <1>16, <1>17, <1>18, <1>19, <1>20, Zenon
     DEF Next, Users, Controllers, Operator, Drainer, DrainerFails, Done

\* The drain ends, in status and in fact, only when no resource has the finalizer.
LEMMA DrainedStep ==
    ASSUME Orderly, TypeOK, IInv, [Next]_vars
    PROVE  Drained' => \A r \in Resources : ~HasFinalizer(r)'
<1> USE DrainAssumption, NoneAssumption
<1> USE DEF drain, bounds
<1>types. /\ ko # None => ko \in Operators
          /\ obj # None => obj \in Operators
          /\ pc # "idle" => obj # None
  BY Zenon DEF TypeOK
<1>1. CASE Drained
  <2>1. Noticed
    BY <1>1, Zenon DEF Noticed
  <2> QED
    BY <1>1, <2>1, NoneNew, Zenon DEF IInv, Achieved
<1>2. CASE ~Drained /\ Report
  <2>1. CASE errors
    BY <1>2, <2>1, Zenon DEF Report, Drained
  <2>2. CASE ~errors
    <3>1. pc = "report" /\ UNCHANGED res
      BY <1>2, Zenon DEF Report
    <3>2. \A i \in 1..Len(Handlers) : \A r \in Handlers[i] : ~HasFinalizer(r)
      BY <2>2, <3>1 DEF IInv, Achieved, Cleaned, TypeOK
    <3>3. \A r \in Resources : ~HasFinalizer(r)
      BY <3>2, Zenon
    <3> QED
      BY <3>1, <3>3, Zenon DEF HasFinalizer
  <2> QED
    BY <2>1, <2>2, Zenon
<1>3. CASE ~Drained /\ (Forget \/ Release)
  <2>1. pc \in {"forget", "release"} /\ obj # None
    BY <1>3, <1>types, Zenon DEF Forget, Release
  <2>2. Drained
    BY <2>1, Zenon DEF IInv, InOrder, CopyFits, CopiesBehind, Behind, Drained
  <2> QED
    BY <1>3, <2>2, Zenon
<1>4. CASE ~Drained /\ Initiate
  <2>1. obj \in Operators
    BY <1>4, <1>types, Zenon DEF Initiate
  <2>2. [obj EXCEPT !.cond = "draining"] # None /\ [obj EXCEPT !.cond = "draining"].cond = "draining"
    BY <2>1, Zenon DEF Operators, Conds
  <2> QED
    BY <1>4, <2>2, Zenon DEF Initiate, UpdateStatus, Drained
<1>5. CASE ~Drained /\ UserDeletesOperator
  <2>1. ko' # None /\ ko'.cond = ko.cond
    BY <1>5, <1>types, Zenon DEF UserDeletesOperator, Operators
  <2> QED
    BY <1>5, <2>1, Zenon DEF Drained
<1>6. CASE ~Drained /\ UNCHANGED ko
  BY <1>6, Zenon DEF Drained
<1> QED
  BY <1>1, <1>2, <1>3, <1>4, <1>5, <1>6, Zenon
     DEF Next, Users, Controllers, Operator, Drainer, DrainerFails, Done, vars,
         UserCreates, UserDeletes, CacheCatchesUp, Restart, Notice, Upsert, RegisterFinalizer, Finalize,
         Begin, HandleDrain, Pause, DrainList, DrainListFails, DrainOneFails, Strip, DeleteResource,
         WaitForDeletion, WaitTimesOut, WaitEnds, NextHandler, Deregister, OperatorCallFails

\* The inductive invariant holds of every reachable state.
LEMMA Invariance == Orderly => (Spec => []IInv)
<1> SUFFICES ASSUME Orderly PROVE Spec => []IInv
  OBVIOUS
<1> USE DrainAssumption, NoneAssumption
<1>1. Init => IInv
  <2> SUFFICES ASSUME Init PROVE IInv
    OBVIOUS
  <2>1. ko # None /\ ko.cond = "none" /\ ko.id
    <3>1. ko \in Operators
      BY Zenon DEF Init, Operators, Conds
    <3>2. ko.cond = "none" /\ ko.id = Registered
      BY Zenon DEF Init
    <3> QED
      BY <3>1, <3>2, Zenon DEF Orderly
  <2>2. InOrder
    BY <2>1, Zenon DEF Init, Orderly, InOrder, CopiesBehind, Behind, CopyFits, DeregisteredInOrder, Drained
  <2>3. Quiet /\ Achieved
    BY <2>1, Zenon DEF Init, Quiet, Noticed, Drained, Achieved, Cleaned, RemoteHeld, HasFinalizer
  <2> QED
    BY <2>2, <2>3, Zenon DEF IInv
<1>2. TypeOK /\ IInv /\ [Next]_vars => IInv'
  <2> SUFFICES ASSUME TypeOK, IInv, [Next]_vars PROVE IInv'
    OBVIOUS
  <2>1. InOrder'
    BY InOrderStep, Zenon DEF IInv
  <2>2. Quiet'
    BY QuietStep, Zenon DEF IInv
  <2>3. Cleaned'
    BY CleanedStep, Zenon DEF IInv, Achieved
  <2>4. RemoteHeld'
    BY RemoteHeldStep, Zenon DEF IInv, Achieved
  <2>5. (Drained => \A r \in Resources : ~HasFinalizer(r))'
    BY DrainedStep, Zenon
  <2> QED
    BY <2>1, <2>2, <2>3, <2>4, <2>5, Zenon DEF IInv, Achieved
<1> QED
  BY <1>1, <1>2, TypeCorrect, PTL DEF Spec

\* When the drain is over no managed resource has the finalizer, whatever the
\* processes, handlers, failures and restarts.
THEOREM DrainRemovesFinalizers == Orderly => (Spec => []FinalizersGone)
<1> SUFFICES ASSUME Orderly PROVE Spec => []FinalizersGone
  OBVIOUS
<1>1. IInv => FinalizersGone
  BY Zenon DEF IInv, Achieved, FinalizersGone, Managed
<1> QED
  BY <1>1, Invariance, PTL

\* With policy Delete nothing is left in the ngrok API when the drain is over.
THEOREM DrainDeletesRemotes == Orderly => (Spec => []RemotesDeleted)
<1> SUFFICES ASSUME Orderly PROVE Spec => []RemotesDeleted
  OBVIOUS
<1>1. IInv /\ TypeOK => RemotesDeleted
  BY Zenon DEF IInv, Achieved, RemoteHeld, RemotesDeleted, Managed
<1> QED
  BY <1>1, Invariance, TypeCorrect, PTL

\* The registration goes after the drain and before the KubernetesOperator.
THEOREM DeregistrationInOrder == Orderly => (Spec => []DeregisteredInOrder)
<1> SUFFICES ASSUME Orderly PROVE Spec => []DeregisteredInOrder
  OBVIOUS
<1>1. IInv => DeregisteredInOrder
  BY Zenon DEF IInv, InOrder
<1> QED
  BY <1>1, Invariance, PTL

\* No step gives a resource the finalizer once the pause is over.
THEOREM DrainAddsNoFinalizers == Orderly => (Spec => NoNewFinalizers)
<1> SUFFICES ASSUME Orderly PROVE Spec => NoNewFinalizers
  OBVIOUS
<1> DEFINE A == Drained \/ pc \in {"list", "items", "wait", "report"}
                  => \A r \in Managed : res'[r] = "held" => res[r] = "held"
<1>1. IInv /\ TypeOK /\ [Next]_vars => A
  BY NoneNew, Zenon DEF IInv, Noticed, Managed
<1>2. IInv /\ TypeOK /\ [Next]_vars => [A]_vars
  BY <1>1, Zenon
<1> QED
  BY <1>2, Invariance, TypeCorrect, PTL DEF Spec, NoNewFinalizers

=============================================================================
