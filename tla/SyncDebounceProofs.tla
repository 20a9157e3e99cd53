------------------------- MODULE SyncDebounceProofs -------------------------
(***************************************************************************)
(* Proofs about SyncDebounce, for any number of keys and controllers and   *)
(* any bounds on the environment.                                          *)
(***************************************************************************)
EXTENDS SyncDebounce, TLAPS

-----------------------------------------------------------------------------
(***************************************************************************)
(* Type correctness.                                                       *)
(***************************************************************************)

LEMMA InitTypeOK == Init => TypeOK
<1> SUFFICES ASSUME Init
             PROVE  TypeOK
  OBVIOUS
<1> USE SyncDebounceAssumption DEF Init
<1>1. /\ syncRunning \in BOOLEAN
      /\ syncFullCh \in Full \cup {NoCh}
      /\ syncPartialCh \in (Keys \ Full) \cup {NoCh}
      /\ draining \in BOOLEAN
      /\ queue \subseteq Keys
  OBVIOUS
<1>2. ch \in [Keys -> {"none", "open", "closed", "sent"}]
  OBVIOUS
<1>3. pc \in [Keys -> {"idle", "calling", "waiting"} \cup Running]
  OBVIOUS
<1>4. owedDomains \subseteq Full /\ snapDomains \subseteq owedDomains
  OBVIOUS
<1>5. owedEndpoints \subseteq Keys /\ snapEndpoints \subseteq owedEndpoints
  OBVIOUS
<1>6. events \in 0..MaxEvents /\ failures \in 0..MaxFailures /\ restarts \in 0..MaxRestarts
  OBVIOUS
<1>7. QED
  BY <1>1, <1>2, <1>3, <1>4, <1>5, <1>6, Zenon DEF TypeOK

LEMMA NextTypeOK == TypeOK /\ [Next]_vars => TypeOK'
<1> SUFFICES ASSUME TypeOK, [Next]_vars
             PROVE  TypeOK'
  OBVIOUS
<1> USE SyncDebounceAssumption DEF TypeOK, Running
<1>1. ASSUME NEW k \in Keys, WatchEvent(k) PROVE TypeOK'
  BY <1>1 DEF WatchEvent, debounce, owed
<1>2. ASSUME NEW k \in Keys, Reconcile(k) PROVE TypeOK'
  BY <1>2, Zenon DEF Reconcile, Dequeued, debounce, owed, env
<1>3. ASSUME NEW k \in Keys, ReturnBeforeSync(k) PROVE TypeOK'
  BY <1>3, Zenon DEF ReturnBeforeSync, Dequeued, debounce, owed, env
<1>4. ASSUME NEW k \in Keys, SyncStartProceed(k) PROVE TypeOK'
  BY <1>4, Zenon DEF SyncStartProceed, Owe, debounce, owed, env
<1>5. ASSUME NEW k \in Keys, SyncStartIgnored(k) PROVE TypeOK'
  BY <1>5, Zenon DEF SyncStartIgnored, Owe, debounce, owed, env
<1>6. ASSUME NEW k \in Keys, SyncStartPark(k) PROVE TypeOK'
  BY <1>6, Zenon DEF SyncStartPark, Owe, debounce, owed, env
<1>7. ASSUME NEW k \in Keys, WaitReturn(k) PROVE TypeOK'
  BY <1>7, Zenon DEF WaitReturn, debounce, owed, env
<1>8. ASSUME NEW k \in Keys, CalculateDomainSet(k) PROVE TypeOK'
  BY <1>8, Zenon DEF CalculateDomainSet, debounce, owed, env
<1>9. ASSUME NEW k \in Keys, Translate(k) PROVE TypeOK'
  BY <1>9, Zenon DEF Translate, debounce, owed, env
<1>10. ASSUME NEW k \in Keys, ApplyDomains(k) PROVE TypeOK'
  BY <1>10, Zenon DEF ApplyDomains, debounce, owed, env
<1>11. ASSUME NEW k \in Keys, ApplyEndpoints(k) PROVE TypeOK'
  BY <1>11, Zenon DEF ApplyEndpoints, debounce, owed, env
<1>12. ASSUME NEW k \in Keys, SyncReturnNil(k) PROVE TypeOK'
  BY <1>12, Zenon DEF SyncReturnNil, SyncDone, debounce, owed, env
<1>13. ASSUME NEW k \in Keys, SyncReturnError(k) PROVE TypeOK'
  <2> USE <1>13 DEF SyncReturnError, SyncDone
  <2>1. /\ (syncRunning \in BOOLEAN)'
        /\ (syncFullCh \in Full \cup {NoCh})'
        /\ (syncPartialCh \in (Keys \ Full) \cup {NoCh})'
        /\ (draining \in BOOLEAN)'
        /\ (queue \subseteq Keys)'
    OBVIOUS
  <2>2. (ch \in [Keys -> {"none", "open", "closed", "sent"}])'
    OBVIOUS
  <2>3. (pc \in [Keys -> {"idle", "calling", "waiting"} \cup Running])'
    OBVIOUS
  <2>4. (owedDomains \subseteq Full /\ snapDomains \subseteq owedDomains)'
    OBVIOUS
  <2>5. (owedEndpoints \subseteq Keys /\ snapEndpoints \subseteq owedEndpoints)'
    OBVIOUS
  <2>6. (events \in 0..MaxEvents /\ failures \in 0..MaxFailures /\ restarts \in 0..MaxRestarts)'
    OBVIOUS
  <2>7. QED
    BY <2>1, <2>2, <2>3, <2>4, <2>5, <2>6, Zenon
<1>14. CASE SetDraining
  BY <1>14, Zenon DEF SetDraining, debounce, owed, env
<1>15. CASE Restart
  <2> USE <1>15 DEF Restart
  <2>1. /\ (syncRunning \in BOOLEAN)'
        /\ (syncFullCh \in Full \cup {NoCh})'
        /\ (syncPartialCh \in (Keys \ Full) \cup {NoCh})'
        /\ (draining \in BOOLEAN)'
        /\ (queue \subseteq Keys)'
    OBVIOUS
  <2>2. (ch \in [Keys -> {"none", "open", "closed", "sent"}])'
    OBVIOUS
  <2>3. (pc \in [Keys -> {"idle", "calling", "waiting"} \cup Running])'
    OBVIOUS
  <2>4. (owedDomains \subseteq Full /\ snapDomains \subseteq owedDomains)'
    OBVIOUS
  <2>5. (owedEndpoints \subseteq Keys /\ snapEndpoints \subseteq owedEndpoints)'
    OBVIOUS
  <2>6. (events \in 0..MaxEvents /\ failures \in 0..MaxFailures /\ restarts \in 0..MaxRestarts)'
    OBVIOUS
  <2>7. QED
    BY <2>1, <2>2, <2>3, <2>4, <2>5, <2>6, Zenon
<1>16. CASE UNCHANGED vars
  BY <1>16, Zenon DEF vars, debounce, owed, env
<1>17. QED
  BY <1>1, <1>2, <1>3, <1>4, <1>5, <1>6, <1>7, <1>8, <1>9, <1>10, <1>11,
     <1>12, <1>13, <1>14, <1>15, <1>16, Zenon
     DEF Next, Worker, SyncStart, SyncBody, Quiescent

\* Every reachable state is well typed: among others, what the running sync
\* has read is always something the debouncer still owes, and only calls of
\* Sync are ever parked on syncFullCh.
THEOREM TypeCorrect == Spec => []TypeOK
  BY InitTypeOK, NextTypeOK, PTL DEF Spec

-----------------------------------------------------------------------------
(***************************************************************************)
(* The debouncer's inductive invariant: the flag and the running sync      *)
(* agree, and the waiting position and the parked calls agree.             *)
(***************************************************************************)
SlotsInv ==
    /\ OneSyncAtATime
    /\ NoStrandedWaiter
    /\ \A k \in Keys : ch[k] # "none" <=> pc[k] = "waiting"
    /\ \A k \in Keys :
          k \in {syncFullCh, syncPartialCh} => ch[k] = "open" /\ syncRunning

LEMMA InitSlotsInv == Init => SlotsInv
  BY SyncDebounceAssumption, Zenon
     DEF Init, SlotsInv, OneSyncAtATime, NoStrandedWaiter, Running

LEMMA NextSlotsInv == TypeOK /\ SlotsInv /\ [Next]_vars => SlotsInv'
<1> SUFFICES ASSUME TypeOK, SlotsInv, [Next]_vars
             PROVE  SlotsInv'
  OBVIOUS
<1> USE SyncDebounceAssumption
        DEF TypeOK, Running, SlotsInv, OneSyncAtATime, NoStrandedWaiter
<1>1. ASSUME NEW k \in Keys, WatchEvent(k) PROVE SlotsInv'
  BY <1>1, Zenon DEF WatchEvent, debounce, owed
<1>2. ASSUME NEW k \in Keys, Reconcile(k) PROVE SlotsInv'
  BY <1>2 DEF Reconcile, Dequeued, debounce, owed, env
<1>3. ASSUME NEW k \in Keys, ReturnBeforeSync(k) PROVE SlotsInv'
  BY <1>3, Zenon DEF ReturnBeforeSync, Dequeued, debounce, owed, env
<1>4. ASSUME NEW k \in Keys, SyncStartProceed(k) PROVE SlotsInv'
  BY <1>4 DEF SyncStartProceed, debounce, owed, env
<1>5. ASSUME NEW k \in Keys, SyncStartIgnored(k) PROVE SlotsInv'
  BY <1>5 DEF SyncStartIgnored, debounce, owed, env
<1>6. ASSUME NEW k \in Keys, SyncStartPark(k) PROVE SlotsInv'
  BY <1>6 DEF SyncStartPark, Overtaken, debounce, owed, env
<1>7. ASSUME NEW k \in Keys, WaitReturn(k) PROVE SlotsInv'
  BY <1>7 DEF WaitReturn, debounce, owed, env
<1>8. ASSUME NEW k \in Keys, CalculateDomainSet(k) PROVE SlotsInv'
  BY <1>8 DEF CalculateDomainSet, debounce, owed, env
<1>9. ASSUME NEW k \in Keys, Translate(k) PROVE SlotsInv'
  BY <1>9 DEF Translate, debounce, owed, env
<1>10. ASSUME NEW k \in Keys, ApplyDomains(k) PROVE SlotsInv'
  BY <1>10 DEF ApplyDomains, debounce, owed, env
<1>11. ASSUME NEW k \in Keys, ApplyEndpoints(k) PROVE SlotsInv'
  BY <1>11 DEF ApplyEndpoints, debounce, owed, env
<1>12. ASSUME NEW k \in Keys, SyncReturnNil(k) PROVE SlotsInv'
  BY <1>12 DEF SyncReturnNil, SyncDone, debounce, owed, env
<1>13. ASSUME NEW k \in Keys, SyncReturnError(k) PROVE SlotsInv'
  BY <1>13 DEF SyncReturnError, SyncDone, debounce, owed, env
<1>14. CASE SetDraining
  BY <1>14, Zenon DEF SetDraining, debounce, owed, env
<1>15. CASE Restart
  BY <1>15 DEF Restart
<1>16. CASE UNCHANGED vars
  BY <1>16, Zenon DEF vars, debounce, owed, env
<1>17. QED
  BY <1>1, <1>2, <1>3, <1>4, <1>5, <1>6, <1>7, <1>8, <1>9, <1>10, <1>11,
     <1>12, <1>13, <1>14, <1>15, <1>16, Zenon
     DEF Next, Worker, SyncStart, SyncBody, Quiescent

\* syncStart never lets two syncs run at once, and syncRunning is TRUE exactly
\* while one runs.
THEOREM MutualExclusion == Spec => []OneSyncAtATime
<1>1. Spec => [](TypeOK /\ SlotsInv)
  BY InitTypeOK, NextTypeOK, InitSlotsInv, NextSlotsInv, PTL DEF Spec
<1>2. SlotsInv => OneSyncAtATime
  BY Zenon DEF SlotsInv
<1>3. QED
  BY <1>1, <1>2, PTL

\* A call parked by syncStart is always in the waiting position behind a sync
\* that runs, so the next syncDone releases it.
THEOREM WaitersAreReleased == Spec => []NoStrandedWaiter
<1>1. Spec => [](TypeOK /\ SlotsInv)
  BY InitTypeOK, NextTypeOK, InitSlotsInv, NextSlotsInv, PTL DEF Spec
<1>2. SlotsInv => NoStrandedWaiter
  BY Zenon DEF SlotsInv
<1>3. QED
  BY <1>1, <1>2, PTL

-----------------------------------------------------------------------------
(***************************************************************************)
(* No call is forgotten.  SlotsInv is the strengthening that makes         *)
(* NoLostSync inductive: a partial call that is ignored relies on the full *)
(* call in the waiting position being really parked there.                 *)
(***************************************************************************)

LEMMA InitNoLostSync == Init => NoLostSync
  BY Zenon DEF Init, NoLostSync

\* The part of the argument about endpoints.
LEMMA NextEndpoints ==
    ASSUME SkipKeys = {}, TypeOK, SlotsInv, NoLostSync, [Next]_vars, ~draining',
           NEW i \in owedEndpoints'
    PROVE  EndpointsCovered(i)'
<1> USE SyncDebounceAssumption
        DEF TypeOK, Running, NoLostSync, EndpointsCovered, WillSync
<1>0. ~draining
  BY Zenon DEF Next, Worker, SyncStart, SyncBody, WatchEvent, Reconcile, ReturnBeforeSync,
         SyncStartProceed, SyncStartIgnored, SyncStartPark, WaitReturn, CalculateDomainSet,
         Translate, ApplyDomains, ApplyEndpoints, SyncReturnNil, SyncReturnError,
         SetDraining, Restart, Quiescent, vars
<1>1. ASSUME NEW k \in Keys, WatchEvent(k) PROVE EndpointsCovered(i)'
  BY <1>0, <1>1, Zenon DEF WatchEvent, debounce, owed
<1>2. ASSUME NEW k \in Keys, Reconcile(k) PROVE EndpointsCovered(i)'
  BY <1>0, <1>2, Zenon DEF Reconcile, Dequeued, debounce, owed, env
<1>3. ASSUME NEW k \in Keys, ReturnBeforeSync(k) PROVE EndpointsCovered(i)'
  BY <1>0, <1>3, Zenon DEF ReturnBeforeSync
<1>4. ASSUME NEW k \in Keys, SyncStartProceed(k) PROVE EndpointsCovered(i)'
  BY <1>4, Zenon DEF SyncStartProceed
<1>5. ASSUME NEW k \in Keys, SyncStartIgnored(k) PROVE EndpointsCovered(i)'
  BY <1>5, Zenon DEF SyncStartIgnored, debounce, SlotsInv
<1>6. ASSUME NEW k \in Keys, SyncStartPark(k) PROVE EndpointsCovered(i)'
  BY <1>6, Zenon DEF SyncStartPark
<1>7. ASSUME NEW k \in Keys, WaitReturn(k) PROVE EndpointsCovered(i)'
  BY <1>0, <1>7, Zenon DEF WaitReturn, debounce, owed, env
<1>8. ASSUME NEW k \in Keys, CalculateDomainSet(k) PROVE EndpointsCovered(i)'
  BY <1>0, <1>8, Zenon DEF CalculateDomainSet, debounce, owed, env
<1>9. ASSUME NEW k \in Keys, Translate(k) PROVE EndpointsCovered(i)'
  BY <1>9, Zenon DEF Translate
<1>10. ASSUME NEW k \in Keys, ApplyDomains(k) PROVE EndpointsCovered(i)'
  BY <1>0, <1>10, Zenon DEF ApplyDomains, debounce, owed, env
<1>11. ASSUME NEW k \in Keys, ApplyEndpoints(k) PROVE EndpointsCovered(i)'
  BY <1>0, <1>11, Zenon DEF ApplyEndpoints, debounce, owed, env, SlotsInv, OneSyncAtATime
<1>12. ASSUME NEW k \in Keys, SyncReturnNil(k) PROVE EndpointsCovered(i)'
  BY <1>0, <1>12 DEF SyncReturnNil, SyncDone, debounce, owed, env, SlotsInv, OneSyncAtATime
<1>13. ASSUME NEW k \in Keys, SyncReturnError(k) PROVE EndpointsCovered(i)'
  BY <1>13, Zenon DEF SyncReturnError
<1>14. CASE SetDraining
  BY <1>14, Zenon DEF SetDraining
<1>15. CASE Restart
  BY <1>15, Zenon DEF Restart
<1>16. CASE UNCHANGED vars
  BY <1>0, <1>16, Zenon DEF vars, debounce, owed, env
<1>17. QED
  BY <1>1, <1>2, <1>3, <1>4, <1>5, <1>6, <1>7, <1>8, <1>9, <1>10, <1>11,
     <1>12, <1>13, <1>14, <1>15, <1>16, Zenon
     DEF Next, Worker, SyncStart, SyncBody, Quiescent

\* The part about domains: only keys in Full can cover a full call.
LEMMA NextDomains ==
    ASSUME SkipKeys = {}, TypeOK, SlotsInv, NoLostSync, [Next]_vars, ~draining',
           NEW i \in owedDomains'
    PROVE  DomainsCovered(i)'
<1> USE SyncDebounceAssumption
        DEF TypeOK, Running, NoLostSync, DomainsCovered, WillSync
<1>0. ~draining
  BY Zenon DEF Next, Worker, SyncStart, SyncBody, WatchEvent, Reconcile, ReturnBeforeSync,
         SyncStartProceed, SyncStartIgnored, SyncStartPark, WaitReturn, CalculateDomainSet,
         Translate, ApplyDomains, ApplyEndpoints, SyncReturnNil, SyncReturnError,
         SetDraining, Restart, Quiescent, vars
<1>1. ASSUME NEW k \in Keys, WatchEvent(k) PROVE DomainsCovered(i)'
  BY <1>0, <1>1, Zenon DEF WatchEvent, debounce, owed
<1>2. ASSUME NEW k \in Keys, Reconcile(k) PROVE DomainsCovered(i)'
  BY <1>0, <1>2 DEF Reconcile, Dequeued, debounce, owed, env
<1>3. ASSUME NEW k \in Keys, ReturnBeforeSync(k) PROVE DomainsCovered(i)'
  BY <1>0, <1>3, Zenon DEF ReturnBeforeSync
<1>4. ASSUME NEW k \in Keys, SyncStartProceed(k) PROVE DomainsCovered(i)'
  BY <1>0, <1>4 DEF SyncStartProceed, Owe, SlotsInv, OneSyncAtATime
<1>5. ASSUME NEW k \in Keys, SyncStartIgnored(k) PROVE DomainsCovered(i)'
  BY <1>0, <1>5 DEF SyncStartIgnored, Owe, debounce
<1>6. ASSUME NEW k \in Keys, SyncStartPark(k) PROVE DomainsCovered(i)'
  BY <1>0, <1>6 DEF SyncStartPark, Overtaken, Owe
<1>7. ASSUME NEW k \in Keys, WaitReturn(k) PROVE DomainsCovered(i)'
  BY <1>0, <1>7 DEF WaitReturn, debounce, owed, env
<1>8. ASSUME NEW k \in Keys, CalculateDomainSet(k) PROVE DomainsCovered(i)'
  BY <1>0, <1>8 DEF CalculateDomainSet, debounce
<1>9. ASSUME NEW k \in Keys, Translate(k) PROVE DomainsCovered(i)'
  BY <1>0, <1>9 DEF Translate, debounce
<1>10. ASSUME NEW k \in Keys, ApplyDomains(k) PROVE DomainsCovered(i)'
  BY <1>0, <1>10 DEF ApplyDomains, debounce, SlotsInv, OneSyncAtATime
<1>11. ASSUME NEW k \in Keys, ApplyEndpoints(k) PROVE DomainsCovered(i)'
  BY <1>0, <1>11 DEF ApplyEndpoints, debounce
<1>12. ASSUME NEW k \in Keys, SyncReturnNil(k) PROVE DomainsCovered(i)'
  BY <1>0, <1>12 DEF SyncReturnNil, SyncDone, owed, SlotsInv, OneSyncAtATime
<1>13. ASSUME NEW k \in Keys, SyncReturnError(k) PROVE DomainsCovered(i)'
  BY <1>0, <1>13 DEF SyncReturnError, SyncDone, SlotsInv, OneSyncAtATime
<1>14. CASE SetDraining
  BY <1>14, Zenon DEF SetDraining
<1>15. CASE Restart
  BY <1>15, Zenon DEF Restart
<1>16. CASE UNCHANGED vars
  BY <1>0, <1>16, Zenon DEF vars, debounce, owed, env
<1>17. QED
  BY <1>1, <1>2, <1>3, <1>4, <1>5, <1>6, <1>7, <1>8, <1>9, <1>10, <1>11,
     <1>12, <1>13, <1>14, <1>15, <1>16, Zenon
     DEF Next, Worker, SyncStart, SyncBody, Quiescent

\* When every requeued reconcile reaches its call again (no key is edited so
\* that its reconciler skips it), the debouncer may answer an overtaken or an
\* ignored caller with success: its changes are never left without a sync
\* that will apply them.
THEOREM NoCallForgotten ==
    ASSUME SkipKeys = {}
    PROVE  Spec => []NoLostSync
<1>1. TypeOK /\ SlotsInv /\ NoLostSync /\ [Next]_vars => NoLostSync'
  <2> SUFFICES ASSUME TypeOK, SlotsInv, NoLostSync, [Next]_vars, ~draining'
               PROVE  /\ \A k \in owedEndpoints' : EndpointsCovered(k)'
                      /\ \A k \in owedDomains' : DomainsCovered(k)'
    BY Zenon DEF NoLostSync
  <2>1. ASSUME NEW k \in owedEndpoints' PROVE EndpointsCovered(k)'
    BY SkipKeys = {}, NextEndpoints, Zenon
  <2>2. ASSUME NEW k \in owedDomains' PROVE DomainsCovered(k)'
    BY SkipKeys = {}, NextDomains
  <2>3. QED
    BY <2>1, <2>2, Zenon
<1>2. QED
  BY InitTypeOK, NextTypeOK, InitSlotsInv, NextSlotsInv, InitNoLostSync, <1>1, PTL DEF Spec

-----------------------------------------------------------------------------
(***************************************************************************)
(* The debouncer implements SyncPromise.  What a sync has read is in       *)
(* memory only between the step that reads and the step that applies it,   *)
(* so nothing is left of it when a sync ends or another begins.            *)
(***************************************************************************)
SnapInv ==
    /\ \A k \in Keys : pc[k] \in {"readDomains", "applyDomains"} => k \in Full
    /\ snapDomains # {} => \E k \in Full : pc[k] \in {"translate", "applyDomains"}
    /\ snapEndpoints # {} => \E k \in Keys : pc[k] \in {"applyDomains", "applyEndpoints"}

LEMMA InitSnapInv == Init => SnapInv
  BY Zenon DEF Init, SnapInv

LEMMA NextSnapInv == TypeOK /\ SlotsInv /\ SnapInv /\ [Next]_vars => SnapInv'
<1> SUFFICES ASSUME TypeOK, SlotsInv, SnapInv, [Next]_vars
             PROVE  SnapInv'
  OBVIOUS
<1> USE SyncDebounceAssumption DEF TypeOK, Running, SnapInv
<1>1. ASSUME NEW k \in Keys, WatchEvent(k) PROVE SnapInv'
  BY <1>1, Zenon DEF WatchEvent, owed
<1>2. ASSUME NEW k \in Keys, Reconcile(k) PROVE SnapInv'
  BY <1>2, Zenon DEF Reconcile, Dequeued, owed
<1>3. ASSUME NEW k \in Keys, ReturnBeforeSync(k) PROVE SnapInv'
  BY <1>3, Zenon DEF ReturnBeforeSync, owed
<1>4. ASSUME NEW k \in Keys, SyncStartProceed(k) PROVE SnapInv'
  BY <1>4, Zenon DEF SyncStartProceed, Owe
<1>5. ASSUME NEW k \in Keys, SyncStartIgnored(k) PROVE SnapInv'
  BY <1>5, Zenon DEF SyncStartIgnored, Owe
<1>6. ASSUME NEW k \in Keys, SyncStartPark(k) PROVE SnapInv'
  BY <1>6, Zenon DEF SyncStartPark, Owe
<1>7. ASSUME NEW k \in Keys, WaitReturn(k) PROVE SnapInv'
  BY <1>7, Zenon DEF WaitReturn, owed
<1>8. ASSUME NEW k \in Keys, CalculateDomainSet(k) PROVE SnapInv'
  BY <1>8, Zenon DEF CalculateDomainSet
<1>9. ASSUME NEW k \in Keys, Translate(k) PROVE SnapInv'
  BY <1>9 DEF Translate, SlotsInv, OneSyncAtATime
<1>10. ASSUME NEW k \in Keys, ApplyDomains(k) PROVE SnapInv'
  BY <1>10, Zenon DEF ApplyDomains
<1>11. ASSUME NEW k \in Keys, ApplyEndpoints(k) PROVE SnapInv'
  BY <1>11, Zenon DEF ApplyEndpoints
<1>12. ASSUME NEW k \in Keys, SyncReturnNil(k) PROVE SnapInv'
  BY <1>12, Zenon DEF SyncReturnNil, owed
<1>13. ASSUME NEW k \in Keys, SyncReturnError(k) PROVE SnapInv'
  BY <1>13, Zenon DEF SyncReturnError
<1>14. CASE SetDraining
  BY <1>14, Zenon DEF SetDraining, owed
<1>15. CASE Restart
  BY <1>15, Zenon DEF Restart
<1>16. CASE UNCHANGED vars
  BY <1>16, Zenon DEF vars, owed
<1>17. QED
  BY <1>1, <1>2, <1>3, <1>4, <1>5, <1>6, <1>7, <1>8, <1>9, <1>10, <1>11,
     <1>12, <1>13, <1>14, <1>15, <1>16, Zenon
     DEF Next, Worker, SyncStart, SyncBody, Quiescent


LEMMA InitPromise == Init => Promise!Init
<1> SUFFICES ASSUME Init PROVE Promise!Init
  OBVIOUS
<1>1. {k \in Keys : pc[k] \in Running} = {}
  BY Zenon DEF Init, Running
<1>2. QED
  BY <1>1, Zenon DEF Init, Promise!Init, Promise!Parts

LEMMA NextPromise ==
    ASSUME TypeOK, SlotsInv, SnapInv, [Next]_vars
    PROVE  [Promise!Next]_(Promise!promised)
<1> DEFINE Busy == {k \in Keys : pc[k] \in Running}
<1> DEFINE Owed == [p \in {"domains", "endpoints"} |-> IF p = "domains" THEN owedDomains ELSE owedEndpoints]
<1> DEFINE Held == [p \in {"domains", "endpoints"} |-> IF p = "domains" THEN snapDomains ELSE snapEndpoints]
<1>0. ASSUME Busy' = Busy, UNCHANGED owed PROVE UNCHANGED Promise!promised
  BY <1>0, Zenon DEF owed, Promise!promised
<1>1. ASSUME NEW k \in Keys, WatchEvent(k) PROVE UNCHANGED Promise!promised
  BY <1>0, <1>1, Zenon DEF WatchEvent
<1>2. ASSUME NEW k \in Keys, Reconcile(k) PROVE UNCHANGED Promise!promised
  <2>1. Busy' = Busy
    BY <1>2, Zenon DEF Reconcile, Dequeued, TypeOK, Running
  <2>2. QED
    BY <1>0, <1>2, <2>1, Zenon DEF Reconcile
<1>3. ASSUME NEW k \in Keys, ReturnBeforeSync(k) PROVE UNCHANGED Promise!promised
  BY <1>0, <1>3, Zenon DEF ReturnBeforeSync
<1>4. ASSUME NEW k \in Keys, Owe(k) PROVE Promise!Owe(k)
  <2>1. /\ Owed' = [p \in {"domains", "endpoints"} |->
                       IF p \in Promise!PartsOf(k) THEN Owed[p] \cup {k} ELSE Owed[p]]
        /\ Held' = [p \in {"domains", "endpoints"} |-> Held[p] \ {k}]
    BY <1>4, Zenon DEF Owe, Promise!PartsOf, Promise!Parts
  <2>2. QED
    BY <2>1, Zenon DEF Promise!Owe, Promise!Parts
<1>5. ASSUME NEW k \in Keys, SyncStartProceed(k) PROVE Promise!Begin(k)
  <2>1. Busy = {} /\ Busy' = {k}
    BY <1>5 DEF SyncStartProceed, TypeOK, SlotsInv, OneSyncAtATime, Running
  <2>2. QED
    BY <1>4, <1>5, <2>1, Zenon DEF SyncStartProceed, Promise!Begin
<1>6. ASSUME NEW k \in Keys, SyncStartIgnored(k) PROVE Promise!Ask(k)
  <2>1. Busy # {} /\ Busy' = Busy
    BY <1>6, Zenon DEF SyncStartIgnored, TypeOK, SlotsInv, OneSyncAtATime, Running
  <2>2. QED
    BY <1>4, <1>6, <2>1, Zenon DEF SyncStartIgnored, Promise!Ask
<1>7. ASSUME NEW k \in Keys, SyncStartPark(k) PROVE Promise!Ask(k)
  <2>1. Busy # {} /\ Busy' = Busy
    BY <1>7 DEF SyncStartPark, TypeOK, SlotsInv, OneSyncAtATime, Running
  <2>2. QED
    BY <1>4, <1>7, <2>1, Zenon DEF SyncStartPark, Promise!Ask
<1>8. ASSUME NEW k \in Keys, WaitReturn(k) PROVE UNCHANGED Promise!promised
  <2>1. Busy' = Busy
    BY <1>8, Zenon DEF WaitReturn, TypeOK, Running
  <2>2. QED
    BY <1>0, <1>8, <2>1, Zenon DEF WaitReturn
<1>9. ASSUME NEW k \in Keys, CalculateDomainSet(k) PROVE Promise!Read("domains")
  <2>1. Busy # {} /\ Busy' = Busy
    BY <1>9, Zenon DEF CalculateDomainSet, TypeOK, Running
  <2>2. Held' = [p \in {"domains", "endpoints"} |-> IF p = "domains" THEN Owed[p] ELSE Held[p]]
    BY <1>9, Zenon DEF CalculateDomainSet
  <2>3. Owed' = Owed
    BY <1>9, Zenon DEF CalculateDomainSet
  <2>4. QED
    BY <2>1, <2>2, <2>3, Zenon DEF Promise!Read, Promise!Parts
<1>10. ASSUME NEW k \in Keys, Translate(k) PROVE Promise!Read("endpoints")
  <2>1. Busy # {} /\ Busy' = Busy
    BY <1>10, Zenon DEF Translate, TypeOK, Running
  <2>2. Held' = [p \in {"domains", "endpoints"} |-> IF p = "endpoints" THEN Owed[p] ELSE Held[p]]
    BY <1>10, Zenon DEF Translate
  <2>3. Owed' = Owed
    BY <1>10, Zenon DEF Translate
  <2>4. QED
    BY <2>1, <2>2, <2>3, Zenon DEF Promise!Read, Promise!Parts
<1>11. ASSUME NEW k \in Keys, ApplyDomains(k) PROVE Promise!Apply("domains")
  <2>1. Busy # {} /\ Busy' = Busy
    BY <1>11, Zenon DEF ApplyDomains, TypeOK, Running
  <2>2. Owed' = [p \in {"domains", "endpoints"} |-> IF p = "domains" THEN Owed[p] \ Held[p] ELSE Owed[p]]
    BY <1>11, Zenon DEF ApplyDomains
  <2>3. Held' = [p \in {"domains", "endpoints"} |-> IF p = "domains" THEN {} ELSE Held[p]]
    BY <1>11, Zenon DEF ApplyDomains
  <2>4. QED
    BY <2>1, <2>2, <2>3, Zenon DEF Promise!Apply, Promise!Parts
<1>12. ASSUME NEW k \in Keys, ApplyEndpoints(k) PROVE Promise!Apply("endpoints")
  <2>1. Busy # {} /\ Busy' = Busy
    BY <1>12, Zenon DEF ApplyEndpoints, TypeOK, Running
  <2>2. Owed' = [p \in {"domains", "endpoints"} |-> IF p = "endpoints" THEN Owed[p] \ Held[p] ELSE Owed[p]]
    BY <1>12, Zenon DEF ApplyEndpoints
  <2>3. Held' = [p \in {"domains", "endpoints"} |-> IF p = "endpoints" THEN {} ELSE Held[p]]
    BY <1>12, Zenon DEF ApplyEndpoints
  <2>4. QED
    BY <2>1, <2>2, <2>3, Zenon DEF Promise!Apply, Promise!Parts
<1>13. ASSUME Busy' = {}, snapDomains' = {}, snapEndpoints' = {}, UNCHANGED <<owedDomains, owedEndpoints>>
       PROVE  Promise!End
  <2>1. Held' = [p \in {"domains", "endpoints"} |-> {}] /\ Owed' = Owed
    BY <1>13, Zenon
  <2>2. QED
    BY <1>13, <2>1, Zenon DEF Promise!End, Promise!Parts
<1>14. ASSUME NEW k \in Keys, SyncReturnNil(k) PROVE Promise!End
  <2>1. Busy' = {}
    BY <1>14, Zenon DEF SyncReturnNil, TypeOK, SlotsInv, OneSyncAtATime, Running
  <2>2. snapDomains = {} /\ snapEndpoints = {}
    BY <1>14, SyncDebounceAssumption, Zenon DEF SyncReturnNil, SlotsInv, OneSyncAtATime, SnapInv, Running
  <2>3. QED
    BY <1>13, <1>14, <2>1, <2>2, Zenon DEF SyncReturnNil, owed
<1>15. ASSUME NEW k \in Keys, SyncReturnError(k) PROVE Promise!End
  <2>1. Busy' = {}
    BY <1>15, Zenon DEF SyncReturnError, TypeOK, SlotsInv, OneSyncAtATime, Running
  <2>2. QED
    BY <1>13, <1>15, <2>1, Zenon DEF SyncReturnError
<1>16. CASE SetDraining
  BY <1>0, <1>16, Zenon DEF SetDraining
<1>17. CASE Restart
  <2>1. Busy' = {}
    BY <1>17, Zenon DEF Restart, Running
  <2>2. QED
    BY <1>13, <1>17, <2>1, Zenon DEF Restart, Promise!Next
<1>18. CASE UNCHANGED vars
  BY <1>0, <1>18, Zenon DEF vars
<1>19. "domains" \in Promise!Parts /\ "endpoints" \in Promise!Parts
  BY Zenon DEF Promise!Parts
<1>20. QED
  BY <1>1, <1>2, <1>3, <1>5, <1>6, <1>7, <1>8, <1>9, <1>10, <1>11, <1>12, <1>14, <1>15,
     <1>16, <1>17, <1>18, <1>19, Zenon
     DEF Next, Worker, SyncStart, SyncBody, Quiescent, Promise!Next

\* Spec implements SyncPromise: for any callers and any failures and restarts, the
\* debouncer is a service that runs one sync at a time, answers a call without a sync
\* of its own only while one runs, and discharges a call only by a sync that read the
\* store after it.
THEOREM ImplementsPromise == Spec => KeepsPromise
<1>1. TypeOK /\ SlotsInv /\ SnapInv /\ [Next]_vars => [Promise!Next]_(Promise!promised)
  BY NextPromise, Zenon
<1>2. QED
  BY InitTypeOK, NextTypeOK, InitSlotsInv, NextSlotsInv, InitSnapInv, NextSnapInv,
     InitPromise, <1>1, PTL DEF Spec, KeepsPromise, Promise!Spec

=============================================================================
