---------------------------- MODULE Registration ----------------------------
(***************************************************************************)
(* The registration of an installation with the ngrok API: the             *)
(* KubernetesOperator controller while nothing is deleted                  *)
(* (internal/controller/ngrok/kubernetesoperator_controller.go) and        *)
(* createKubernetesOperator (cmd/api-manager.go).  It adopts or makes the  *)
(* remote operator, keeps the key and the certificate of the bindings in a *)
(* Secret, and renews the certificate before it expires.                   *)
(*                                                                         *)
(* A key stands for the CSR made from it and for the certificate that      *)
(* ngrok issues for that CSR.  Deletion and drain are in module Drain.     *)
(***************************************************************************)
EXTENDS Naturals, Common

CONSTANTS
    Ids,         \* ids that the ngrok API gives to operators
    MaxKeys,     \* bound on the keys that are generated
    MaxTroubles  \* bound on edits, failures, expiries and restarts together

Keys == 1..MaxKeys

\* spec.enabledFeatures and spec.binding: bindings are off, on, or on without spec.binding.
Settings == {"off", "on", "broken"}

VARIABLES
    ko,          \* the KubernetesOperator in the API server
    koSeen,      \* the same in the cache
    secret,      \* the Secret of the bindings: tls.key, tls.csr, tls.crt
    secretSeen,
    remotes,     \* the operators of this installation in the ngrok API, deleted ones too
    koQueued,    \* a request is in the work queue
    timer,       \* a request will come when the certificate nears its end
    koWork,      \* the reconcile in progress
    lastKey,     \* the key generated last
    troubles

registration == <<ko, koSeen, secret, secretSeen, remotes, koQueued, timer, koWork, lastKey,
                  troubles>>

Operators == [gen : 1..(MaxTroubles + 1), bindings : Settings, finalizer : BOOLEAN,
              id : Ids \cup {None}, ready : BOOLEAN]
Secrets == [key : Keys, csr : Keys \cup {None}, crt : Keys \cup {None}]
Remotes == [key : Keys \cup {None}, expiring : BOOLEAN, exists : BOOLEAN]

Idle == [pc |-> "idle", ko |-> None, id |-> None, secret |-> None, err |-> "nil"]
Works == [pc : {"find", "get", "secret", "call", "cert", "status", "renew"},
          ko : Operators, id : Ids \cup {None}, secret : Secrets \cup {None},
          err : {"nil", "retry", "notFound", "client"}]

TypeOK ==
    /\ ko \in Operators /\ koSeen \in Operators
    /\ secret \in Secrets \cup {None} /\ secretSeen \in Secrets \cup {None}
    /\ remotes \in [Ids -> Remotes \cup {None}]
    /\ koQueued \in BOOLEAN /\ timer \in BOOLEAN
    /\ koWork \in Works \cup {Idle}
    /\ lastKey \in 0..MaxKeys
    /\ troubles \in 0..MaxTroubles

ASSUME RegistrationAssumption ==
    /\ None \notin Ids \cup Keys \cup Secrets \cup Remotes
    /\ MaxKeys \in Nat
    /\ MaxTroubles \in Nat

\* createKubernetesOperator has made the object for the first time.
Init ==
    /\ ko \in [gen : {1}, bindings : {"off", "on"}, finalizer : {FALSE}, id : {None},
               ready : {FALSE}]
    /\ koSeen = ko
    /\ secret = None /\ secretSeen = None
    /\ remotes = [i \in Ids |-> None]
    /\ koQueued = TRUE /\ timer = FALSE
    /\ koWork = Idle
    /\ lastKey = 0
    /\ troubles = 0

Trouble ==
    /\ troubles < MaxTroubles
    /\ troubles' = troubles + 1

\* The operators of this installation that exist in the ngrok API.
Own == {i \in Ids : remotes[i] # None /\ remotes[i].exists}

Cluster == <<ko, secret>>
Caches == <<koSeen, secretSeen>>

(***************************************************************************)
(* The caches and kubernetesOperatorReconcilePredicate: the finalizer and  *)
(* the status do not cause a reconcile, and nobody watches the Secret.     *)
(***************************************************************************)
DeliverOperator ==
    /\ koSeen # ko
    /\ koSeen' = ko
    /\ koQueued' = (koQueued \/ koSeen.gen # ko.gen)
    /\ UNCHANGED <<Cluster, secretSeen, remotes, timer, koWork, lastKey, troubles>>

DeliverSecret ==
    /\ secretSeen # secret
    /\ secretSeen' = secret
    /\ UNCHANGED <<Cluster, koSeen, remotes, koQueued, timer, koWork, lastKey, troubles>>

TimerFires ==
    /\ timer
    /\ \E i \in Own : remotes[i].expiring
    /\ timer' = FALSE
    /\ koQueued' = TRUE
    /\ UNCHANGED <<Cluster, Caches, remotes, koWork, lastKey, troubles>>

(***************************************************************************)
(* BaseController.Reconcile, create, update and _update.                   *)
(***************************************************************************)
Goto(pc) == koWork' = [koWork EXCEPT !.pc = pc]
Fail(e) == koWork' = [koWork EXCEPT !.pc = "status", !.err = e]

\* The patch of the finalizer returns the object as the server has it.
StartReconcile ==
    /\ koWork = Idle /\ koQueued
    /\ koQueued' = FALSE
    /\ ko' = IF koSeen.finalizer THEN ko ELSE [ko EXCEPT !.finalizer = TRUE]
    /\ LET copy == IF koSeen.finalizer THEN koSeen ELSE ko' IN
       koWork' = [Idle EXCEPT !.pc = IF copy.id = None THEN "find" ELSE "get", !.ko = copy]
    /\ UNCHANGED <<secret, Caches, remotes, timer, lastKey, troubles>>

\* Mutant of findExisting: nothing is adopted.
findNothing ==
    /\ koWork.pc = "find"
    /\ Goto("secret")
    /\ UNCHANGED <<Cluster, Caches, remotes, koQueued, timer, lastKey, troubles>>

\* The list of the API is matched by deployment name, namespace and namespace UID.
findExisting ==
    /\ koWork.pc = "find"
    /\ koWork' \in {[koWork EXCEPT !.pc = "secret", !.id = i] :
                       i \in IF Own = {} THEN {None} ELSE Own}
    /\ UNCHANGED <<Cluster, Caches, remotes, koQueued, timer, lastKey, troubles>>

GetExisting ==
    /\ koWork.pc = "get"
    /\ IF koWork.ko.id \in Own
       THEN koWork' = [koWork EXCEPT !.pc = "secret", !.id = koWork.ko.id]
       ELSE Fail("notFound")
    /\ UNCHANGED <<Cluster, Caches, remotes, koQueued, timer, lastKey, troubles>>

\* A Secret of the cache with a key and a CSR is used as it is.  Otherwise
\* CreateOrUpdate, which goes by the cache too, writes a new key: a Secret that the
\* cache does not know, or knows in an old version, is a conflict.
findOrCreateTLSSecret ==
    /\ koWork.pc = "secret"
    /\ LET usable == secretSeen # None /\ secretSeen.csr # None
           fresh == [key |-> lastKey + 1, csr |-> lastKey + 1, crt |-> None]
       IN \/ /\ koWork.ko.bindings = "off"
             /\ Goto("call")
             /\ UNCHANGED <<secret, lastKey>>
          \/ /\ koWork.ko.bindings = "broken"
             /\ Fail("retry")
             /\ UNCHANGED <<secret, lastKey>>
          \/ /\ koWork.ko.bindings = "on" /\ usable
             /\ koWork' = [koWork EXCEPT !.pc = "call", !.secret = secretSeen]
             /\ UNCHANGED <<secret, lastKey>>
          \/ /\ koWork.ko.bindings = "on" /\ ~usable /\ secretSeen = secret
             /\ lastKey < MaxKeys
             /\ lastKey' = lastKey + 1
             /\ secret' = fresh
             /\ koWork' = [koWork EXCEPT !.pc = "call", !.secret = fresh]
          \/ /\ koWork.ko.bindings = "on" /\ ~usable /\ secretSeen # secret
             /\ Fail("retry")
             /\ UNCHANGED <<secret, lastKey>>
    /\ UNCHANGED <<ko, Caches, remotes, koQueued, timer, troubles>>

\* ngrok issues a certificate for a CSR that it has not got yet.
Issued(remote) ==
    IF koWork.ko.bindings = "off" THEN remote
    ELSE IF remote.key = koWork.secret.csr THEN remote
    ELSE [remote EXCEPT !.key = koWork.secret.csr, !.expiring = FALSE]

\* KubernetesOperators().Create or Update.
NewId == CHOOSE i \in Ids : remotes[i] = None

\* The bound on what is made: there is an id left.
MayCall == koWork.id = None => \E i \in Ids : remotes[i] = None

Called ==
    IF koWork.id = None
    THEN [remotes EXCEPT ![NewId] = Issued([key |-> None, expiring |-> FALSE, exists |-> TRUE])]
    ELSE [remotes EXCEPT ![koWork.id] = Issued(@)]

CallAPI ==
    /\ koWork.pc = "call" /\ MayCall
    /\ IF koWork.id = None \/ koWork.id \in Own
       THEN /\ remotes' = Called
            /\ koWork' = [koWork EXCEPT !.pc = "cert", !.id = IF @ = None THEN NewId ELSE @]
       ELSE Fail("notFound") /\ UNCHANGED remotes
    /\ UNCHANGED <<Cluster, Caches, koQueued, timer, lastKey, troubles>>

\* Mutant of updateTLSSecretCert: the certificate is stored after a create only.
updateTLSSecretCertOnce ==
    /\ koWork.pc = "cert"
    /\ IF koWork.secret # None /\ secret # None /\ koWork.ko.id = None
       THEN secret' = [secret EXCEPT !.crt = koWork.secret.csr]
       ELSE UNCHANGED secret
    /\ Goto("status")
    /\ UNCHANGED <<ko, Caches, remotes, koQueued, timer, lastKey, troubles>>

\* The patch sets tls.crt alone, on whatever the Secret is by now.
updateTLSSecretCert ==
    /\ koWork.pc = "cert"
    /\ LET cert == koWork.secret.csr IN
       \/ /\ koWork.secret = None \/ (koWork.secret # None /\ koWork.secret.crt = cert)
          /\ Goto("status") /\ UNCHANGED secret
       \/ /\ koWork.secret # None /\ koWork.secret.crt # cert
          /\ secret # None
          /\ secret' = [secret EXCEPT !.crt = cert]
          /\ Goto("status")
       \/ /\ koWork.secret # None /\ koWork.secret.crt # cert
          /\ secret = None
          /\ Fail("retry") /\ UNCHANGED secret
    /\ UNCHANGED <<ko, Caches, remotes, koQueued, timer, lastKey, troubles>>

\* updateStatus, then handleErr: an error of the client is not tried again, and the
\* reconcile goes on to the renewal.
updateStatus ==
    /\ koWork.pc = "status"
    /\ ko' = [ko EXCEPT !.id = CASE koWork.err = "notFound" -> None
                                 [] koWork.err # "notFound" /\ koWork.id # None -> koWork.id
                                 [] OTHER -> koWork.ko.id,
                        !.ready = koWork.id # None /\ koWork.err = "nil"]
    /\ IF koWork.err \in {"retry", "notFound"}
       THEN koWork' = Idle /\ koQueued' = TRUE
       ELSE Goto("renew") /\ UNCHANGED koQueued
    /\ UNCHANGED <<secret, Caches, remotes, timer, lastKey, troubles>>

\* reconcileBindingCertRenewal reads the KubernetesOperator from the cache once more.
\* A certificate near its end loses its CSR, so that the next reconcile, a second
\* later, makes a new key; otherwise the reconcile is repeated when it nears its end.
Return(again, later) ==
    /\ koWork' = Idle
    /\ koQueued' = (koQueued \/ again)
    /\ timer' = (timer \/ later)

\* Mutant of invalidateTLSSecretCSR: the key is taken out, and the CSR stays.
invalidateTLSSecretKey ==
    IF secretSeen = None \/ secret = None THEN secret
    ELSE IF secretSeen.csr = None THEN secret
    ELSE [secret EXCEPT !.key = None]

\* The Secret without its CSR, unless the cache shows none to take out.
invalidateTLSSecretCSR ==
    IF secretSeen = None \/ secret = None THEN secret
    ELSE IF secretSeen.csr = None THEN secret
    ELSE [secret EXCEPT !.csr = None]

reconcileBindingCertRenewal ==
    /\ koWork.pc = "renew"
    /\ CASE koSeen.id = None \/ koSeen.bindings # "on" ->
              Return(FALSE, FALSE) /\ UNCHANGED secret
         [] koSeen.id # None /\ koSeen.bindings = "on" /\ koSeen.id \notin Own ->
              Return(TRUE, FALSE) /\ UNCHANGED secret
         [] OTHER ->
              LET remote == remotes[koSeen.id] IN
              IF remote.key = None THEN Return(FALSE, FALSE) /\ UNCHANGED secret
              ELSE IF ~remote.expiring THEN Return(FALSE, TRUE) /\ UNCHANGED secret
              ELSE Return(TRUE, FALSE) /\ secret' = invalidateTLSSecretCSR
    /\ UNCHANGED <<ko, Caches, remotes, lastKey, troubles>>

Reconcile ==
    \/ StartReconcile \/ findExisting \/ GetExisting \/ findOrCreateTLSSecret \/ CallAPI
    \/ updateTLSSecretCert \/ updateStatus \/ reconcileBindingCertRenewal

(***************************************************************************)
(* What goes wrong, and what others do.                                    *)
(***************************************************************************)

\* A call fails before it has an effect; the ngrok API may also refuse it.
CallFails ==
    /\ koWork.pc \in {"find", "get", "secret", "call", "cert"}
    /\ \E e \in {"retry", "client"} :
          (e = "client" => koWork.pc = "call") /\ Fail(e)
    /\ Trouble
    /\ UNCHANGED <<Cluster, Caches, remotes, koQueued, timer, lastKey>>

\* The ngrok API does what it is asked and the answer is lost.
AnswerLost ==
    /\ koWork.pc = "call" /\ MayCall
    /\ koWork.id = None \/ koWork.id \in Own
    /\ remotes' = Called
    /\ Fail("retry")
    /\ Trouble
    /\ UNCHANGED <<Cluster, Caches, koQueued, timer, lastKey>>

\* The status write keeps being in conflict with a cache that is behind.
StatusFails ==
    /\ koWork.pc = "status" /\ koSeen # ko
    /\ koWork' = Idle /\ koQueued' = TRUE
    /\ Trouble
    /\ UNCHANGED <<Cluster, Caches, remotes, timer, lastKey>>

\* The operator is deleted in the ngrok dashboard, or a certificate nears its end.
RemoteChange ==
    /\ \E i \in Own :
          \/ remotes' = [remotes EXCEPT ![i].exists = FALSE]
          \/ remotes[i].key # None /\ remotes' = [remotes EXCEPT ![i].expiring = TRUE]
    /\ Trouble
    /\ UNCHANGED <<Cluster, Caches, koQueued, timer, koWork, lastKey>>

DeleteSecret ==
    /\ secret # None
    /\ secret' = None
    /\ Trouble
    /\ UNCHANGED <<ko, Caches, remotes, koQueued, timer, koWork, lastKey>>

EditOperator ==
    /\ \E b \in Settings \ {ko.bindings} :
          ko' = [ko EXCEPT !.bindings = b, !.gen = @ + 1]
    /\ Trouble
    /\ UNCHANGED <<secret, Caches, remotes, koQueued, timer, koWork, lastKey>>

\* The leader is replaced: createKubernetesOperator writes the spec of the new one.
Restart ==
    /\ \E b \in {"off", "on"} :
          ko' = IF b = ko.bindings THEN ko ELSE [ko EXCEPT !.bindings = b, !.gen = @ + 1]
    /\ koSeen' = ko' /\ secretSeen' = secret
    /\ koQueued' = TRUE /\ timer' = FALSE /\ koWork' = Idle
    /\ Trouble
    /\ UNCHANGED <<secret, remotes, lastKey>>

Next ==
    \/ Reconcile
    \/ DeliverOperator \/ DeliverSecret \/ TimerFires
    \/ CallFails \/ AnswerLost \/ StatusFails
    \/ RemoteChange \/ DeleteSecret \/ EditOperator \/ Restart

Spec == Init /\ [][Next]_registration

(***************************************************************************)
(* Properties.                                                             *)
(***************************************************************************)

\* No installation is registered twice, whatever answers are lost and wherever a
\* leader stops between the call and the status that records its id: create looks
\* for an operator of the same deployment and namespace first.
RegisteredOnce == \A i, j \in Own : i = j

Settled == koWork = Idle /\ ~koQueued /\ koSeen = ko

\* A KubernetesOperator that is Ready with bindings has a certificate for the key
\* that is in the Secret, and the ngrok API knows this key: no renewal or
\* failure in between leaves the two apart once the controller is done.
CertificateFitsKey ==
    Settled /\ ko.ready /\ ko.bindings = "on" /\ secret # None /\ ko.id \in Own
       => /\ secret.crt = secret.key
          /\ remotes[ko.id].key = secret.key
=============================================================================
