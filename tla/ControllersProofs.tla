-------------------------- MODULE ControllersProofs --------------------------
(***************************************************************************)
(* Proofs about two controllers that share no state.  First the            *)
(* registration of an installation, for any ids and any number of keys and *)
(* troubles.  Then the AgentEndpoint controller and the agent driver, for  *)
(* any endpoints, policies and Secrets, and any number of replicas unless  *)
(* one is asked for.                                                       *)
(***************************************************************************)
EXTENDS Registration, AgentEndpoints, TLAPS


(***************************************************************************)
(* Registration: type correctness.                                         *)
(***************************************************************************)

\* The generation counts the edits, which are troubles.
RegTypes == TypeOK /\ ko.gen <= troubles + 1

WorkSteps == {"find", "get", "secret", "call", "cert", "status", "renew"}
Errors == {"nil", "retry", "notFound", "client"}

(***************************************************************************)
(* The inductive invariant.                                                *)
(***************************************************************************)

\* A key has its own CSR and its own certificate.
Matched(s) == s # None => s.csr \in {None, s.key} /\ s.crt \in {None, s.key}

\* The Secret in the API server, if there is one, is the Secret of the copy, with
\* the certificate the copy has.
Continues(s) == secret # None => secret.key = s.key /\ (s.crt # None => secret.crt # None)

\* A new key is written only over what the cache shows, and the cache shows no CSR
\* then: so a copy with a CSR is a copy of the present key, and the certificate for
\* it is never stored beside another key.
SecretInv ==
    /\ Matched(secret) /\ Matched(secretSeen)
    /\ secretSeen # None /\ secretSeen.csr # None => Continues(secretSeen)
    /\ koWork.pc \in {"find", "get", "secret"} => koWork.secret = None
    /\ koWork.pc \in {"call", "cert"} =>
          IF koWork.ko.bindings = "off" THEN koWork.secret = None
          ELSE /\ koWork.ko.bindings = "on"
               /\ koWork.secret # None
               /\ Matched(koWork.secret)
               /\ koWork.secret.csr # None
               /\ Continues(koWork.secret)

\* An operator is made only after a look that found none, and by one worker.
OnceInv ==
    /\ \A i, j \in Own : i = j
    /\ koWork.pc \in {"secret", "call"} /\ koWork.id = None => Own = {}

\* A generation has one spec; a reconcile that the cache does not call for again has
\* worked from the spec the cache shows.
SpecInv ==
    /\ koSeen.gen <= ko.gen
    /\ koSeen.gen = ko.gen => koSeen.bindings = ko.bindings
    /\ koWork.pc # "idle" =>
          /\ koWork.ko.gen <= ko.gen
          /\ koWork.ko.gen = ko.gen => koWork.ko.bindings = ko.bindings
          /\ ~koQueued /\ koSeen.gen = ko.gen => koWork.ko.gen = ko.gen

Fits(i) ==
    secret # None /\ i \in Own => secret.crt = secret.key /\ remotes[i].key = secret.key

\* What a reconcile has brought about when it gets to the status, and what holds
\* from then on until the next one.
FitInv ==
    /\ koWork.pc \in {"find", "get", "secret", "call", "cert"} => koWork.err = "nil"
    /\ koWork.pc = "cert" /\ koWork.secret # None /\ koWork.id \in Own
          => remotes[koWork.id].key = koWork.secret.csr
    /\ koWork.pc \in {"status", "renew"} /\ koWork.err = "nil" /\ koWork.ko.bindings = "on"
          => Fits(koWork.id)
    /\ koWork.pc = "renew" /\ ko.ready => koWork.err = "nil" /\ ko.id = koWork.id
    /\ /\ koWork.pc = "idle" /\ ~koQueued /\ koSeen.gen = ko.gen
       /\ ko.ready /\ ko.bindings = "on"
       => Fits(ko.id)

RegInv == RegTypes /\ SecretInv /\ OnceInv /\ SpecInv /\ FitInv

LEMMA OperatorTypes ==
    ASSUME NEW o \in Operators
    PROVE  /\ o.gen \in Nat
           /\ o.bindings \in Settings
           /\ o.id \in Ids \cup {None}
           /\ [o EXCEPT !.finalizer = TRUE] \in Operators
           /\ \A i \in Ids \cup {None}, b \in BOOLEAN : [o EXCEPT !.id = i, !.ready = b] \in Operators
           /\ \A b \in Settings : o.gen <= MaxTroubles =>
                 [o EXCEPT !.bindings = b, !.gen = @ + 1] \in Operators
<1>1. o.gen \in 1..(MaxTroubles + 1)
  BY Zenon DEF Operators
<1>2. o.gen \in Nat
  BY <1>1, RegistrationAssumption
<1>3. o.gen <= MaxTroubles => o.gen + 1 \in 1..(MaxTroubles + 1)
  BY <1>1, RegistrationAssumption
<1>4. \A b \in Settings : o.gen <= MaxTroubles =>
         [o EXCEPT !.bindings = b, !.gen = @ + 1] \in Operators
  BY <1>3, Zenon DEF Operators
<1>5. QED
  BY <1>2, <1>4, Zenon DEF Operators

LEMMA WorkTypes ==
    ASSUME NEW w \in Works
    PROVE  /\ \A pc \in WorkSteps, i \in Ids \cup {None} : [w EXCEPT !.pc = pc, !.id = i] \in Works
           /\ \A pc \in WorkSteps, s \in Secrets : [w EXCEPT !.pc = pc, !.secret = s] \in Works
           /\ w.ko \in Operators
           /\ w.id \in Ids \cup {None}
           /\ w.secret \in Secrets \cup {None}
  BY Zenon DEF Works, WorkSteps

LEMMA IdleWork ==
    /\ Idle.pc = "idle"
    /\ Idle \notin Works
    /\ \A pc \in WorkSteps, o \in Operators : [Idle EXCEPT !.pc = pc, !.ko = o] \in Works
  BY Zenon DEF Works, Idle, WorkSteps

LEMMA SecretTypes ==
    ASSUME NEW s \in Secrets
    PROVE  /\ \A k \in Keys \cup {None} : [s EXCEPT !.crt = k] \in Secrets
           /\ [s EXCEPT !.csr = None] \in Secrets
           /\ s.csr \in Keys \cup {None}
  BY Zenon DEF Secrets

LEMMA RemoteTypes ==
    ASSUME NEW r \in Remotes
    PROVE  /\ \A k \in Keys \cup {None} : [r EXCEPT !.key = k, !.expiring = FALSE] \in Remotes
           /\ [r EXCEPT !.expiring = TRUE] \in Remotes
           /\ [r EXCEPT !.exists = FALSE] \in Remotes
  BY Zenon DEF Remotes

LEMMA RegInitTypes == Init => RegTypes
<1> SUFFICES ASSUME Init PROVE RegTypes
  OBVIOUS
<1>1. 1 \in 1..(MaxTroubles + 1) /\ 0 \in 0..MaxKeys /\ 0 \in 0..MaxTroubles
  BY RegistrationAssumption
<1>2. ko \in Operators /\ ko.gen = 1
  BY <1>1, Zenon DEF Init, Operators, Settings
<1>3. remotes \in [Ids -> Remotes \cup {None}]
  BY Zenon DEF Init
<1>4. TypeOK
  BY <1>1, <1>2, <1>3, Zenon DEF Init, TypeOK
<1>5. ko.gen <= troubles + 1
  BY <1>2 DEF Init
<1>6. QED
  BY <1>4, <1>5, Zenon DEF RegTypes

\* What a trouble leaves of the counters.
LEMMA TroubleTypes ==
    ASSUME RegTypes, Trouble
    PROVE  /\ troubles' \in 0..MaxTroubles
           /\ ko.gen <= MaxTroubles
           /\ ko.gen <= troubles' + 1
           /\ ko.gen + 1 <= troubles' + 1
<1>1. ko.gen \in Nat
  BY OperatorTypes, Zenon DEF RegTypes, TypeOK
<1>2. troubles \in 0..MaxTroubles /\ ko.gen <= troubles + 1
  BY Zenon DEF RegTypes, TypeOK
<1>3. QED
  BY <1>1, <1>2, RegistrationAssumption DEF Trouble

LEMMA Working ==
    ASSUME RegTypes, koWork.pc # "idle"
    PROVE  koWork \in Works
  BY IdleWork, Zenon DEF RegTypes, TypeOK

\* What the two ways to go on leave of the reconcile.
LEMMA GotoWork ==
    ASSUME RegTypes, koWork.pc # "idle", NEW pc \in WorkSteps, Goto(pc)
    PROVE  /\ koWork' \in Works
           /\ koWork'.pc = pc
           /\ koWork'.ko = koWork.ko
           /\ koWork'.id = koWork.id
           /\ koWork'.secret = koWork.secret
           /\ koWork'.err = koWork.err
<1>1. koWork \in Works
  BY Working, Zenon
<1>2. QED
  BY <1>1, Zenon DEF Goto, Works, WorkSteps

LEMMA FailWork ==
    ASSUME RegTypes, koWork.pc # "idle", NEW e \in Errors, Fail(e)
    PROVE  /\ koWork' \in Works
           /\ koWork'.pc = "status"
           /\ koWork'.ko = koWork.ko
           /\ koWork'.id = koWork.id
           /\ koWork'.secret = koWork.secret
           /\ koWork'.err = e
<1>1. koWork \in Works
  BY Working, Zenon
<1>2. QED
  BY <1>1, Zenon DEF Fail, Works, Errors

\* What the start of a reconcile makes of the work and the KubernetesOperator.
LEMMA StartWork ==
    ASSUME RegTypes, StartReconcile
    PROVE  /\ ko' \in Operators
           /\ ko'.gen = ko.gen /\ ko'.bindings = ko.bindings
           /\ ko'.id = ko.id /\ ko'.ready = ko.ready
           /\ koWork' \in Works
           /\ koWork'.pc \in {"find", "get"}
           /\ koWork'.ko \in {koSeen, ko'}
           /\ koWork'.secret = None /\ koWork'.id = None /\ koWork'.err = "nil"
           /\ koWork'.pc = "get" => koWork'.ko.id # None
<1>1. ko \in Operators /\ koSeen \in Operators
  BY Zenon DEF RegTypes, TypeOK
<1>2. /\ ko' \in Operators
      /\ ko'.gen = ko.gen /\ ko'.bindings = ko.bindings
      /\ ko'.id = ko.id /\ ko'.ready = ko.ready
  BY <1>1, OperatorTypes, Zenon DEF StartReconcile, Operators
<1>3. PICK copy \in {koSeen, ko'} :
         koWork' = [Idle EXCEPT !.pc = IF copy.id = None THEN "find" ELSE "get", !.ko = copy]
  BY Zenon DEF StartReconcile
<1>4. /\ koWork'.pc = (IF copy.id = None THEN "find" ELSE "get")
      /\ koWork'.ko = copy
      /\ koWork'.secret = None /\ koWork'.id = None /\ koWork'.err = "nil"
  BY <1>3, Zenon DEF Idle
<1>5. koWork' \in Works
  BY <1>1, <1>2, <1>3, IdleWork, Zenon DEF WorkSteps
<1>6. QED
  BY <1>2, <1>4, <1>5, Zenon

\* What findOrCreateTLSSecret makes of the work and of the Secret: it fails, goes on
\* without bindings, takes the Secret of the cache, or writes a new one.
LEMMA SecretStep ==
    ASSUME RegTypes, findOrCreateTLSSecret
    PROVE  /\ koWork.pc = "secret"
           /\ koWork' \in Works
           /\ koWork'.ko = koWork.ko /\ koWork'.id = koWork.id
           /\ lastKey' \in 0..MaxKeys
           /\ \/ /\ koWork'.pc = "status" /\ koWork'.err = "retry" /\ secret' = secret
              \/ /\ koWork'.pc = "call" /\ koWork'.err = koWork.err
                 /\ \/ /\ koWork.ko.bindings = "off"
                       /\ koWork'.secret = koWork.secret /\ secret' = secret
                    \/ /\ koWork.ko.bindings = "on"
                       /\ secretSeen # None /\ secretSeen.csr # None
                       /\ koWork'.secret = secretSeen /\ secret' = secret
                    \/ /\ koWork.ko.bindings = "on"
                       /\ ~(secretSeen # None /\ secretSeen.csr # None)
                       /\ secret' \in Secrets
                       /\ secret'.csr = secret'.key /\ secret'.crt = None
                       /\ koWork'.secret = secret'
<1>1. koWork.pc = "secret" /\ koWork \in Works
  BY Working, Zenon DEF findOrCreateTLSSecret
<1>2. lastKey \in 0..MaxKeys /\ secretSeen \in Secrets \cup {None}
  BY Zenon DEF RegTypes, TypeOK
<1>3. CASE koWork.ko.bindings = "off" /\ Goto("call") /\ UNCHANGED <<secret, lastKey>>
  BY <1>1, <1>2, <1>3, GotoWork, Zenon DEF WorkSteps
<1>4. CASE Fail("retry") /\ UNCHANGED <<secret, lastKey>>
  BY <1>1, <1>2, <1>4, FailWork, Zenon DEF Errors
<1>5. CASE /\ koWork.ko.bindings = "on"
           /\ secretSeen # None /\ secretSeen.csr # None
           /\ koWork' = [koWork EXCEPT !.pc = "call", !.secret = secretSeen]
           /\ UNCHANGED <<secret, lastKey>>
  <2>1. koWork' \in Works
    BY <1>1, <1>2, <1>5, WorkTypes, Zenon DEF WorkSteps
  <2>2. /\ koWork'.pc = "call" /\ koWork'.secret = secretSeen /\ koWork'.ko = koWork.ko
        /\ koWork'.id = koWork.id /\ koWork'.err = koWork.err
    BY <1>1, <1>5, Zenon DEF Works
  <2>3. QED
    BY <1>1, <1>2, <1>5, <2>1, <2>2, Zenon
<1>6. CASE /\ koWork.ko.bindings = "on"
           /\ ~(secretSeen # None /\ secretSeen.csr # None)
           /\ lastKey < MaxKeys
           /\ lastKey' = lastKey + 1
           /\ secret' = [key |-> lastKey + 1, csr |-> lastKey + 1, crt |-> None]
           /\ koWork' = [koWork EXCEPT !.pc = "call", !.secret = secret']
  <2>1. lastKey + 1 \in 1..MaxKeys /\ lastKey + 1 \in 0..MaxKeys
    BY <1>2, <1>6, RegistrationAssumption
  <2>2. /\ secret' \in Secrets
        /\ secret'.csr = secret'.key /\ secret'.crt = None
    BY <1>6, <2>1, Zenon DEF Secrets, Keys
  <2>3. koWork' \in Works
    BY <1>1, <1>6, <2>2, WorkTypes, Zenon DEF WorkSteps
  <2>4. /\ koWork'.pc = "call" /\ koWork'.secret = secret' /\ koWork'.ko = koWork.ko
        /\ koWork'.id = koWork.id /\ koWork'.err = koWork.err
    BY <1>1, <1>6, Zenon DEF Works
  <2>5. QED
    BY <1>1, <1>6, <2>1, <2>2, <2>3, <2>4, Zenon
<1>7. QED
  BY <1>3, <1>4, <1>5, <1>6, Zenon DEF findOrCreateTLSSecret

\* What updateTLSSecretCert makes of them.
LEMMA CertStep ==
    ASSUME RegTypes, updateTLSSecretCert
    PROVE  /\ koWork.pc = "cert"
           /\ koWork' \in Works
           /\ koWork'.pc = "status"
           /\ koWork'.ko = koWork.ko /\ koWork'.id = koWork.id
           /\ secret' \in Secrets \cup {None}
           /\ \/ koWork'.err = "retry" /\ secret' = secret
              \/ koWork.secret = None /\ secret' = secret
              \/ koWork.secret # None /\ koWork.secret.crt = koWork.secret.csr /\ secret' = secret
              \/ /\ koWork.secret # None /\ secret # None /\ secret' # None
                 /\ secret'.key = secret.key /\ secret'.csr = secret.csr
                 /\ secret'.crt = koWork.secret.csr
<1>1. koWork.pc = "cert" /\ koWork \in Works
  BY Working, Zenon DEF updateTLSSecretCert
<1>2. secret \in Secrets \cup {None} /\ koWork.secret \in Secrets \cup {None}
  BY <1>1, WorkTypes, Zenon DEF RegTypes, TypeOK
<1>3. /\ koWork' \in Works /\ koWork'.pc = "status"
      /\ koWork'.ko = koWork.ko /\ koWork'.id = koWork.id
  BY <1>1, GotoWork, FailWork, Zenon DEF updateTLSSecretCert, WorkSteps, Errors
<1>4. CASE koWork.secret = None /\ UNCHANGED secret
  BY <1>1, <1>2, <1>3, <1>4, Zenon
<1>5. CASE koWork.secret # None /\ koWork.secret.crt = koWork.secret.csr /\ UNCHANGED secret
  BY <1>1, <1>2, <1>3, <1>5, Zenon
<1>6. CASE /\ koWork.secret # None /\ secret # None
           /\ secret' = [secret EXCEPT !.crt = koWork.secret.csr]
  <2>1. secret' \in Secrets
    BY <1>2, <1>6, SecretTypes, Zenon
  <2>2. secret'.key = secret.key /\ secret'.csr = secret.csr /\ secret'.crt = koWork.secret.csr
    BY <1>2, <1>6, Zenon DEF Secrets
  <2>3. secret' # None
    BY <2>1, RegistrationAssumption, Zenon
  <2>4. QED
    BY <1>1, <1>3, <1>6, <2>1, <2>2, <2>3, Zenon
<1>7. CASE Fail("retry") /\ UNCHANGED secret
  BY <1>1, <1>2, <1>3, <1>7, FailWork, Zenon DEF Errors
<1>8. QED
  BY <1>4, <1>5, <1>6, <1>7, Zenon DEF updateTLSSecretCert

\* What findExisting and GetExisting make of the work: without an id there is nothing
\* to adopt.
LEMMA FindStep ==
    ASSUME RegTypes, findExisting \/ GetExisting
    PROVE  /\ koWork.pc \in {"find", "get"}
           /\ koWork' \in Works
           /\ koWork'.ko = koWork.ko /\ koWork'.secret = koWork.secret
           /\ \/ koWork'.pc = "status" /\ koWork'.err = "notFound"
              \/ /\ koWork'.pc = "secret" /\ koWork'.err = koWork.err
                 /\ koWork'.id = None => Own = {}
<1>1. koWork.pc \in {"find", "get"} /\ koWork.pc # "idle" /\ koWork \in Works
  BY Working, Zenon DEF findExisting, GetExisting
<1>2. ASSUME NEW i \in Ids \cup {None}, koWork' = [koWork EXCEPT !.pc = "secret", !.id = i],
             i = None => Own = {}
      PROVE  /\ koWork' \in Works
             /\ koWork'.ko = koWork.ko /\ koWork'.secret = koWork.secret
             /\ koWork'.pc = "secret" /\ koWork'.err = koWork.err
             /\ koWork'.id = None => Own = {}
  <2>1. koWork' \in Works
    BY <1>1, <1>2, WorkTypes, Zenon DEF WorkSteps
  <2>2. /\ koWork'.pc = "secret" /\ koWork'.id = i /\ koWork'.ko = koWork.ko
        /\ koWork'.secret = koWork.secret /\ koWork'.err = koWork.err
    BY <1>1, <1>2, Zenon DEF Works
  <2>3. QED
    BY <1>2, <2>1, <2>2, Zenon
<1>3. CASE Fail("notFound")
  BY <1>1, <1>3, FailWork, Zenon DEF Errors
<1>4. CASE findExisting
  <2>1. PICK i \in (IF Own = {} THEN {None} ELSE Own) :
           koWork' = [koWork EXCEPT !.pc = "secret", !.id = i]
    BY <1>4, Zenon DEF findExisting
  <2>2. i \in Ids \cup {None} /\ (i = None => Own = {})
    BY <2>1, RegistrationAssumption, Zenon DEF Own
  <2>3. QED
    BY <1>1, <1>2, <2>1, <2>2, Zenon
<1>5. CASE GetExisting
  <2>1. koWork.ko.id \in Own => koWork.ko.id \in Ids /\ koWork.ko.id # None
    BY RegistrationAssumption, Zenon DEF Own
  <2>2. QED
    BY <1>1, <1>2, <1>3, <1>5, <2>1, Zenon DEF GetExisting
<1>6. QED
  BY <1>4, <1>5, Zenon

\* What the call of the ngrok API leaves of the remote operators: one more, or the
\* same ones, and the one called for has the key of the CSR.
LEMMA CalledStep ==
    ASSUME RegTypes, SecretInv, koWork.pc = "call", MayCall,
           koWork.id = None \/ koWork.id \in Own,
           remotes' = Called
    PROVE  LET target == IF koWork.id = None THEN NewId ELSE koWork.id IN
           /\ target \in Ids
           /\ remotes' \in [Ids -> Remotes \cup {None}]
           /\ Own' = Own \cup {target}
           /\ koWork.secret # None => remotes'[target].key = koWork.secret.csr
           /\ \A i \in Ids : i # target => remotes'[i] = remotes[i]
<1> DEFINE target == IF koWork.id = None THEN NewId ELSE koWork.id
<1>1. koWork \in Works
  BY Working, Zenon
<1>2. /\ koWork.ko.bindings = "off" => koWork.secret = None
      /\ koWork.ko.bindings # "off" => koWork.secret # None
  BY Zenon DEF SecretInv
<1>3. koWork.secret # None => koWork.secret.csr \in Keys \cup {None}
  BY <1>1, WorkTypes, SecretTypes, Zenon
<1>4. ASSUME NEW r \in Remotes, r.exists
      PROVE  /\ Issued(r) \in Remotes
             /\ Issued(r).exists
             /\ koWork.secret # None => Issued(r).key = koWork.secret.csr
  <2>1. CASE koWork.secret = None \/ r.key = koWork.secret.csr
    BY <1>2, <1>4, <2>1, Zenon DEF Issued
  <2>2. CASE koWork.secret # None /\ r.key # koWork.secret.csr
    <3>1. Issued(r) = [r EXCEPT !.key = koWork.secret.csr, !.expiring = FALSE]
      BY <1>2, <2>2, Zenon DEF Issued
    <3>2. QED
      BY <1>3, <1>4, <2>2, <3>1, Zenon DEF Remotes
  <2>3. QED
    BY <2>1, <2>2, Zenon
<1>5. remotes \in [Ids -> Remotes \cup {None}]
  BY Zenon DEF RegTypes, TypeOK
<1>6. target \in Ids
  BY Zenon DEF MayCall, NewId, Own
<1>7. PICK r \in Remotes : r.exists /\ remotes' = [remotes EXCEPT ![target] = Issued(r)]
  <2>1. CASE koWork.id = None
    <3>1. /\ [key |-> None, expiring |-> FALSE, exists |-> TRUE] \in Remotes
          /\ [key |-> None, expiring |-> FALSE, exists |-> TRUE].exists
      BY Zenon DEF Remotes
    <3>2. QED
      BY <2>1, <3>1, Zenon DEF Called
  <2>2. CASE koWork.id # None
    <3>1. koWork.id \in Ids /\ remotes[koWork.id] \in Remotes /\ remotes[koWork.id].exists
      BY <1>5, <2>2, Zenon DEF Own
    <3>2. QED
      BY <1>5, <2>2, <3>1, Zenon DEF Called
  <2>3. QED
    BY <2>1, <2>2, Zenon
<1>8. /\ remotes' \in [Ids -> Remotes \cup {None}]
      /\ remotes'[target] = Issued(r)
      /\ \A i \in Ids : i # target => remotes'[i] = remotes[i]
  BY <1>4, <1>5, <1>6, <1>7, Zenon
<1>9. remotes'[target] # None /\ remotes'[target].exists
  <2>1. None \notin Remotes
    BY RegistrationAssumption, Zenon
  <2>2. Issued(r) \in Remotes /\ Issued(r).exists
    BY <1>4, <1>7, Zenon
  <2>3. Issued(r) # None
    BY <2>1, <2>2, Zenon
  <2>4. QED
    BY <1>8, <2>2, <2>3, Zenon
<1>10. Own' = Own \cup {target}
  BY <1>6, <1>8, <1>9, Zenon DEF Own
<1>11. QED
  BY <1>4, <1>6, <1>7, <1>8, <1>10, ZenonT(30)

\* What CallAPI makes of the work.
LEMMA CallStep ==
    ASSUME RegTypes, SecretInv, CallAPI
    PROVE  /\ koWork.pc = "call"
           /\ koWork' \in Works
           /\ koWork'.ko = koWork.ko /\ koWork'.secret = koWork.secret
           /\ \/ koWork'.pc = "status" /\ koWork'.err = "notFound" /\ remotes' = remotes
              \/ /\ koWork'.pc = "cert" /\ koWork'.err = koWork.err
                 /\ MayCall /\ (koWork.id = None \/ koWork.id \in Own)
                 /\ remotes' = Called
                 /\ koWork'.id = IF koWork.id = None THEN NewId ELSE koWork.id
<1>1. koWork.pc = "call" /\ koWork.pc # "idle" /\ koWork \in Works
  BY Working, Zenon DEF CallAPI
<1>2. CASE koWork.id = None \/ koWork.id \in Own
  <2>1. remotes' = Called /\ MayCall
    BY <1>2, Zenon DEF CallAPI
  <2>2. koWork' = [koWork EXCEPT !.pc = "cert",
                                 !.id = IF koWork.id = None THEN NewId ELSE koWork.id]
    BY <1>1, <1>2, Zenon DEF CallAPI, Works
  <2>3. (IF koWork.id = None THEN NewId ELSE koWork.id) \in Ids
    BY <1>1, <1>2, <2>1, CalledStep, Zenon
  <2>4. koWork' \in Works
    BY <1>1, <2>2, <2>3, WorkTypes, Zenon DEF WorkSteps
  <2>5. /\ koWork'.pc = "cert" /\ koWork'.ko = koWork.ko /\ koWork'.secret = koWork.secret
        /\ koWork'.err = koWork.err
        /\ koWork'.id = IF koWork.id = None THEN NewId ELSE koWork.id
    BY <1>1, <2>2, Zenon DEF Works
  <2>6. QED
    BY <1>1, <1>2, <2>1, <2>4, <2>5, Zenon
<1>3. CASE ~(koWork.id = None \/ koWork.id \in Own)
  <2>1. Fail("notFound") /\ remotes' = remotes
    BY <1>3, Zenon DEF CallAPI
  <2>2. QED
    BY <1>1, <2>1, FailWork, Zenon DEF Errors
<1>4. QED
  BY <1>2, <1>3, Zenon

\* Every step keeps the types: a generation is never beyond the troubles so far, and
\* the ngrok API is called for bindings only with a Secret at hand.
LEMMA RegNextTypes ==
    ASSUME RegTypes, SecretInv, Next
    PROVE  RegTypes'
<1> USE DEF Cluster, Caches
<1>0. /\ ko \in Operators /\ koSeen \in Operators
      /\ secret \in Secrets \cup {None} /\ secretSeen \in Secrets \cup {None}
      /\ remotes \in [Ids -> Remotes \cup {None}]
      /\ koQueued \in BOOLEAN /\ timer \in BOOLEAN
      /\ koWork \in Works \cup {Idle}
      /\ lastKey \in 0..MaxKeys
      /\ troubles \in 0..MaxTroubles
      /\ ko.gen <= troubles + 1
  BY Zenon DEF RegTypes, TypeOK
<1>a. SUFFICES /\ ko' \in Operators /\ koSeen' \in Operators
               /\ secret' \in Secrets \cup {None} /\ secretSeen' \in Secrets \cup {None}
               /\ remotes' \in [Ids -> Remotes \cup {None}]
               /\ koQueued' \in BOOLEAN /\ timer' \in BOOLEAN
               /\ koWork' \in Works \cup {Idle}
               /\ lastKey' \in 0..MaxKeys
               /\ troubles' \in 0..MaxTroubles
               /\ ko'.gen <= troubles' + 1
  BY Zenon DEF RegTypes, TypeOK, Operators, Secrets, Remotes, Works, Idle,
               Keys, Settings
<1>1. CASE StartReconcile
  BY <1>0, <1>1, StartWork, Zenon DEF StartReconcile
<1>2. CASE findExisting
  BY <1>0, <1>2, FindStep, Zenon DEF findExisting
<1>3. CASE GetExisting
  BY <1>0, <1>3, FindStep, Zenon DEF GetExisting
<1>4. CASE findOrCreateTLSSecret
  <2>1. koWork' \in Works /\ lastKey' \in 0..MaxKeys /\ secret' \in Secrets \cup {None}
    BY <1>0, <1>4, SecretStep, Zenon
  <2>2. QED
    BY <1>0, <1>4, <2>1, Zenon DEF findOrCreateTLSSecret
<1>5. CASE CallAPI
  <2>1. koWork' \in Works /\ remotes' \in [Ids -> Remotes \cup {None}]
    BY <1>0, <1>5, CallStep, CalledStep, Zenon
  <2>2. QED
    BY <1>0, <1>5, <2>1, Zenon DEF CallAPI
<1>6. CASE updateTLSSecretCert
  <2>1. koWork' \in Works /\ secret' \in Secrets \cup {None}
    BY <1>6, CertStep, Zenon
  <2>2. QED
    BY <1>0, <1>6, <2>1, Zenon DEF updateTLSSecretCert
<1>7. CASE updateStatus
  <2>1. koWork \in Works /\ koWork.pc # "idle"
    BY <1>7, Working, Zenon DEF updateStatus
  <2>2. PICK i \in Ids \cup {None}, b \in BOOLEAN : ko' = [ko EXCEPT !.id = i, !.ready = b]
    <3>1. koWork.id \in Ids \cup {None} /\ koWork.ko.id \in Ids \cup {None}
      BY <2>1, WorkTypes, OperatorTypes, Zenon DEF Works
    <3>2. QED
      BY <1>7, <3>1, Zenon DEF updateStatus
  <2>3. ko' \in Operators /\ ko'.gen = ko.gen
    BY <1>0, <2>2, OperatorTypes, Zenon DEF Operators
  <2>4. koWork' \in Works \cup {Idle} /\ koQueued' \in BOOLEAN
    BY <1>0, <1>7, <2>1, GotoWork, Zenon DEF updateStatus, WorkSteps
  <2>5. QED
    BY <1>0, <1>7, <2>3, <2>4, Zenon DEF updateStatus
<1>8. CASE reconcileBindingCertRenewal
  <2>1. koWork' = Idle /\ koQueued' \in BOOLEAN /\ timer' \in BOOLEAN
    BY <1>0, <1>8, Zenon DEF reconcileBindingCertRenewal, invalidateTLSSecretCSR, Return
  <2>2. secret' = secret \/ (secret # None /\ secret' = [secret EXCEPT !.csr = None])
    BY <1>8, Zenon DEF reconcileBindingCertRenewal, invalidateTLSSecretCSR
  <2>3. secret' \in Secrets \cup {None}
    BY <1>0, <2>2, SecretTypes, Zenon
  <2>4. QED
    BY <1>0, <1>8, <2>1, <2>3, Zenon DEF reconcileBindingCertRenewal, invalidateTLSSecretCSR
<1>9. CASE DeliverOperator
  BY <1>0, <1>9, Zenon DEF DeliverOperator
<1>10. CASE DeliverSecret
  BY <1>0, <1>10, Zenon DEF DeliverSecret
<1>11. CASE TimerFires
  BY <1>0, <1>11, Zenon DEF TimerFires
<1>12. CASE CallFails
  <2>1. koWork.pc # "idle" /\ \E e \in Errors : Fail(e)
    BY <1>12, Zenon DEF CallFails, Errors
  <2>2. koWork' \in Works
    BY <2>1, FailWork, Zenon
  <2>3. QED
    BY <1>0, <1>12, <2>2, TroubleTypes, Zenon DEF CallFails
<1>13. CASE AnswerLost
  <2>1. koWork' \in Works
    BY <1>13, FailWork, Zenon DEF AnswerLost, Errors
  <2>2. remotes' \in [Ids -> Remotes \cup {None}]
    BY <1>13, CalledStep, Zenon DEF AnswerLost
  <2>3. QED
    BY <1>0, <1>13, <2>1, <2>2, TroubleTypes, Zenon DEF AnswerLost
<1>14. CASE StatusFails
  BY <1>0, <1>14, TroubleTypes, Zenon DEF StatusFails
<1>15. CASE RemoteChange
  <2>1. remotes' \in [Ids -> Remotes \cup {None}]
    <3>1. PICK i \in Ids : /\ remotes[i] \in Remotes
                           /\ \/ remotes' = [remotes EXCEPT ![i].exists = FALSE]
                              \/ remotes' = [remotes EXCEPT ![i].expiring = TRUE]
      BY <1>0, <1>15, Zenon DEF RemoteChange, Own
    <3>2. QED
      BY <1>0, <3>1, RemoteTypes, Zenon
  <2>2. QED
    BY <1>0, <1>15, <2>1, TroubleTypes, Zenon DEF RemoteChange
<1>16. CASE DeleteSecret
  BY <1>0, <1>16, TroubleTypes, Zenon DEF DeleteSecret
<1>17. CASE EditOperator
  <2>1. PICK b \in Settings : ko' = [ko EXCEPT !.bindings = b, !.gen = @ + 1]
    BY <1>17, Zenon DEF EditOperator
  <2>2. ko' \in Operators /\ ko'.gen = ko.gen + 1
    BY <1>0, <1>17, <2>1, TroubleTypes, OperatorTypes, Zenon DEF EditOperator, Operators
  <2>3. QED
    BY <1>0, <1>17, <2>2, TroubleTypes, Zenon DEF EditOperator
<1>18. CASE Restart
  <2>1. PICK b \in Settings :
           ko' = IF b = ko.bindings THEN ko ELSE [ko EXCEPT !.bindings = b, !.gen = @ + 1]
    BY <1>18, Zenon DEF Restart, Settings
  <2>2. ko' \in Operators /\ (ko'.gen = ko.gen \/ ko'.gen = ko.gen + 1)
    BY <1>0, <1>18, <2>1, TroubleTypes, OperatorTypes, Zenon DEF Restart, Operators
  <2>3. QED
    BY <1>0, <1>18, <2>2, TroubleTypes, Zenon DEF Restart
<1>19. QED
  BY <1>1, <1>2, <1>3, <1>4, <1>5, <1>6, <1>7, <1>8, <1>9, <1>10, <1>11, <1>12, <1>13, <1>14,
     <1>15, <1>16, <1>17, <1>18, Zenon DEF Next, Reconcile

\* A reconcile that gives up, or is over, keeps the Secret.
LEMMA Ended ==
    ASSUME RegTypes,
           \/ CallFails \/ AnswerLost \/ StatusFails \/ updateStatus
    PROVE  /\ koWork'.pc \in {"status", "renew", "idle"}
           /\ koWork'.pc \in {"status", "renew"} =>
                 koWork'.ko = koWork.ko /\ koWork'.id = koWork.id
           /\ koWork'.pc = "status" => koWork'.err # "nil"
           /\ koWork'.pc = "idle" => koQueued'
           /\ UNCHANGED <<secret, secretSeen, koSeen>>
<1>1. CASE CallFails
  <2>1. koWork.pc # "idle" /\ \E e \in {"retry", "client"} : Fail(e)
    BY <1>1, Zenon DEF CallFails
  <2>2. PICK e \in {"retry", "client"} : Fail(e)
    BY <2>1, Zenon
  <2>3. e \in Errors /\ e # "nil"
    BY Zenon DEF Errors
  <2>4. koWork'.pc = "status" /\ koWork'.ko = koWork.ko /\ koWork'.id = koWork.id /\ koWork'.err = e
    BY <2>1, <2>2, <2>3, FailWork, Zenon
  <2>5. QED
    BY <1>1, <2>3, <2>4, Zenon DEF CallFails, Cluster, Caches
<1>2. CASE AnswerLost
  <2>1. /\ koWork'.pc = "status" /\ koWork'.ko = koWork.ko /\ koWork'.id = koWork.id
        /\ koWork'.err = "retry"
    BY <1>2, FailWork, Zenon DEF AnswerLost, Errors
  <2>2. QED
    BY <1>2, <2>1, Zenon DEF AnswerLost, Cluster, Caches
<1>3. CASE StatusFails
  BY <1>3, IdleWork, Zenon DEF StatusFails, Cluster, Caches
<1>4. CASE updateStatus
  <2>1. CASE koWork' = Idle /\ koQueued' = TRUE
    BY <1>4, <2>1, IdleWork, Zenon DEF updateStatus, Caches
  <2>2. CASE Goto("renew")
    <3>1. koWork'.pc = "renew" /\ koWork'.ko = koWork.ko /\ koWork'.id = koWork.id
      BY <1>4, <2>2, GotoWork, Zenon DEF updateStatus, WorkSteps
    <3>2. QED
      BY <1>4, <3>1, Zenon DEF updateStatus, Caches
  <2>3. QED
    BY <1>4, <2>1, <2>2, Zenon DEF updateStatus
<1>5. QED
  BY <1>1, <1>2, <1>3, <1>4, Zenon

\* What the renewal makes of the Secret: at most its CSR goes.
LEMMA RenewalStep ==
    ASSUME RegTypes, reconcileBindingCertRenewal
    PROVE  /\ koWork.pc = "renew"
           /\ koWork'.pc = "idle"
           /\ UNCHANGED <<secretSeen, ko, koSeen, remotes>>
           /\ koQueued => koQueued'
           /\ \/ secret' = secret
              \/ /\ koQueued'
                 /\ secret # None
                 /\ secret'.key = secret.key /\ secret'.csr = None /\ secret'.crt = secret.crt
<1>1. /\ koWork.pc = "renew" /\ koWork' = Idle /\ (koQueued => koQueued')
      /\ UNCHANGED <<secretSeen, ko, koSeen, remotes>>
  BY Zenon DEF reconcileBindingCertRenewal, invalidateTLSSecretCSR, Return, Caches
<1>2. \/ secret' = secret
      \/ secret # None /\ koQueued' /\ secret' = [secret EXCEPT !.csr = None]
  BY Zenon DEF reconcileBindingCertRenewal, invalidateTLSSecretCSR, Return
<1>3. secret # None => secret \in Secrets
  BY Zenon DEF RegTypes, TypeOK
<1>4. QED
  BY <1>1, <1>2, <1>3, IdleWork, Zenon DEF Secrets

LEMMA RegNextSecrets ==
    ASSUME RegTypes, SecretInv, Next
    PROVE  SecretInv'
<1> USE DEF Cluster, Caches
<1>0. /\ Matched(secret) /\ Matched(secretSeen)
      /\ secretSeen # None /\ secretSeen.csr # None => Continues(secretSeen)
      /\ koWork.pc \in {"find", "get", "secret"} => koWork.secret = None
  BY Zenon DEF SecretInv
<1>a. ASSUME UNCHANGED <<secret, secretSeen, koWork>> PROVE SecretInv'
  BY <1>a, Zenon DEF SecretInv, Matched, Continues
<1>b. ASSUME koWork'.pc \in {"status", "renew", "idle"}, UNCHANGED <<secret, secretSeen>>
      PROVE  SecretInv'
  BY <1>0, <1>b, Zenon DEF SecretInv, Matched, Continues
<1>c. ASSUME koWork'.pc \in {"find", "get", "secret"}, koWork'.secret = None,
             UNCHANGED <<secret, secretSeen>>
      PROVE  SecretInv'
  BY <1>0, <1>c, Zenon DEF SecretInv, Matched, Continues
<1>1. CASE StartReconcile
  BY <1>1, <1>c, StartWork, Zenon DEF StartReconcile
<1>2. CASE findExisting \/ GetExisting
  BY <1>0, <1>2, <1>b, <1>c, FindStep, Zenon DEF findExisting, GetExisting
<1>3. CASE findOrCreateTLSSecret
  <2>1. koWork.secret = None /\ secretSeen' = secretSeen
    BY <1>0, <1>3, Zenon DEF findOrCreateTLSSecret
  <2>2. CASE koWork'.pc = "status" /\ secret' = secret
    BY <1>b, <2>1, <2>2, Zenon
  <2>3. CASE koWork'.pc = "call" /\ koWork.ko.bindings = "off" /\ koWork'.secret = koWork.secret
             /\ secret' = secret
    BY <1>0, <1>3, <2>1, <2>3, SecretStep, Zenon DEF SecretInv, Matched, Continues
  <2>4. CASE /\ koWork'.pc = "call" /\ koWork.ko.bindings = "on"
             /\ secretSeen # None /\ secretSeen.csr # None
             /\ koWork'.secret = secretSeen /\ secret' = secret
    BY <1>0, <1>3, <2>1, <2>4, SecretStep, Zenon DEF SecretInv, Matched, Continues
  <2>5. CASE /\ koWork'.pc = "call" /\ koWork.ko.bindings = "on"
             /\ ~(secretSeen # None /\ secretSeen.csr # None)
             /\ secret' \in Secrets
             /\ secret'.csr = secret'.key /\ secret'.crt = None
             /\ koWork'.secret = secret'
    <3>1. secret' # None /\ secret'.key # None
      BY <2>5, RegistrationAssumption, Zenon DEF Secrets
    <3>2. koWork'.ko = koWork.ko
      BY <1>3, SecretStep, Zenon
    <3>3. QED
      BY <1>0, <2>1, <2>5, <3>1, <3>2, Zenon DEF SecretInv, Matched, Continues
  <2>6. QED
    BY <1>3, <2>2, <2>3, <2>4, <2>5, SecretStep, Zenon
<1>4. CASE CallAPI
  <2>1. UNCHANGED <<secret, secretSeen>>
    BY <1>4, Zenon DEF CallAPI
  <2>2. CASE koWork'.pc = "status"
    BY <1>b, <2>1, <2>2, Zenon
  <2>3. CASE koWork'.pc = "cert"
    <3>1. koWork.pc = "call" /\ koWork'.ko = koWork.ko /\ koWork'.secret = koWork.secret
      BY <1>4, CallStep, Zenon
    <3>2. QED
      BY <2>1, <2>3, <3>1, Zenon DEF SecretInv, Matched, Continues
  <2>4. QED
    BY <1>4, <2>2, <2>3, CallStep, Zenon
<1>5. CASE updateTLSSecretCert
  <2>1. koWork.pc = "cert" /\ koWork'.pc = "status" /\ secretSeen' = secretSeen
    BY <1>5, CertStep, Zenon DEF updateTLSSecretCert
  <2>2. CASE secret' = secret
    BY <1>b, <2>1, <2>2, Zenon
  <2>3. CASE /\ koWork.secret # None /\ secret # None
             /\ secret'.key = secret.key /\ secret'.csr = secret.csr
             /\ secret'.crt = koWork.secret.csr
    <3>1. koWork.secret.csr # None /\ koWork.secret.csr = secret.key
      BY <2>1, <2>3, Zenon DEF SecretInv, Matched, Continues
    <3>2. QED
      BY <1>0, <2>1, <2>3, <3>1, Zenon DEF SecretInv, Matched, Continues
  <2>4. QED
    BY <1>5, <2>2, <2>3, CertStep, Zenon
<1>6. CASE reconcileBindingCertRenewal
  <2>1. CASE secret' = secret
    BY <1>6, <1>b, <2>1, RenewalStep, Zenon
  <2>2. CASE secret' # secret
    <3>1. /\ koWork'.pc = "idle" /\ secretSeen' = secretSeen /\ secret # None
          /\ secret'.key = secret.key /\ secret'.csr = None /\ secret'.crt = secret.crt
      BY <1>6, <2>2, RenewalStep, Zenon
    <3>2. QED
      BY <1>0, <3>1, Zenon DEF SecretInv, Matched, Continues
  <2>3. QED
    BY <2>1, <2>2, Zenon
<1>7. CASE CallFails \/ AnswerLost \/ StatusFails \/ updateStatus
  BY <1>7, <1>b, Ended, Zenon
<1>8. CASE DeliverOperator \/ TimerFires \/ RemoteChange \/ EditOperator
  BY <1>8, <1>a, Zenon DEF DeliverOperator, TimerFires, RemoteChange, EditOperator
<1>9. CASE DeliverSecret
  BY <1>9, Zenon DEF DeliverSecret, SecretInv, Matched, Continues
<1>10. CASE DeleteSecret
  BY <1>10, Zenon DEF DeleteSecret, SecretInv, Matched, Continues
<1>11. CASE Restart
  <2>1. koWork'.pc = "idle" /\ secretSeen' = secret /\ secret' = secret
    BY <1>11, IdleWork, Zenon DEF Restart
  <2>2. QED
    BY <1>0, <2>1, Zenon DEF SecretInv, Matched, Continues
<1>12. QED
  BY <1>1, <1>2, <1>3, <1>4, <1>5, <1>6, <1>7, <1>8, <1>9, <1>10, <1>11, Zenon
     DEF Next, Reconcile

\* What others do to the remote operators: none is added and none gets another key.
LEMMA RemoteStep ==
    ASSUME RegTypes, RemoteChange
    PROVE  /\ Own' \subseteq Own
           /\ \A i \in Own : remotes'[i].key = remotes[i].key
<1>1. remotes \in [Ids -> Remotes \cup {None}]
  BY Zenon DEF RegTypes, TypeOK
<1>2. PICK i \in Own : \/ remotes' = [remotes EXCEPT ![i].exists = FALSE]
                           \/ remotes' = [remotes EXCEPT ![i].expiring = TRUE]
  BY Zenon DEF RemoteChange
<1>3. i \in Ids /\ remotes[i] \in Remotes
  BY <1>1, Zenon DEF Own
<1>4. /\ \A j \in Ids : j # i => remotes'[j] = remotes[j]
      /\ \/ remotes'[i] = [remotes[i] EXCEPT !.exists = FALSE]
         \/ remotes'[i] = [remotes[i] EXCEPT !.expiring = TRUE]
  BY <1>1, <1>2, <1>3, Zenon
<1>5. remotes'[i].key = remotes[i].key
  BY <1>3, <1>4, Zenon DEF Remotes
<1>6. Own' \subseteq Own
  BY <1>4, Zenon DEF Own
<1>7. QED
  BY <1>4, <1>5, <1>6, Zenon DEF Own

LEMMA RegNextOnce ==
    ASSUME RegTypes, SecretInv, OnceInv, Next
    PROVE  OnceInv'
<1> USE DEF Cluster, Caches
<1>a. ASSUME Own' \subseteq Own,
             koWork'.pc \in {"secret", "call"} =>
                (koWork'.id = None => Own = {})
      PROVE  OnceInv'
  BY <1>a, Zenon DEF OnceInv
<1>b. ASSUME remotes' = remotes PROVE Own' = Own
  BY <1>b, Zenon DEF Own
<1>c. ASSUME koWork.pc = "call", MayCall, koWork.id = None \/ koWork.id \in Own,
             remotes' = Called, koWork'.pc \in {"cert", "status"}
      PROVE  OnceInv'
  <2>1. PICK target : /\ Own' = Own \cup {target}
                      /\ koWork.id # None => target = koWork.id
    BY <1>c, CalledStep, Zenon
  <2>2. koWork.id = None => Own = {}
    BY <1>c, Zenon DEF OnceInv
  <2>3. \A i, j \in Own' : i = j
    BY <1>c, <2>1, <2>2, Zenon DEF OnceInv
  <2>4. QED
    BY <1>c, <2>3, Zenon DEF OnceInv
<1>1. CASE StartReconcile
  BY <1>1, <1>a, <1>b, StartWork, Zenon DEF StartReconcile
<1>2. CASE findExisting \/ GetExisting
  BY <1>2, <1>a, <1>b, FindStep, Zenon DEF findExisting, GetExisting
<1>3. CASE findOrCreateTLSSecret
  <2>1. koWork.pc = "secret" /\ koWork'.id = koWork.id /\ remotes' = remotes
    BY <1>3, SecretStep, Zenon DEF findOrCreateTLSSecret
  <2>2. QED
    BY <1>a, <1>b, <2>1, Zenon DEF OnceInv
<1>4. CASE CallAPI
  <2>1. koWork.pc = "call"
    BY <1>4, CallStep, Zenon
  <2>2. CASE koWork'.pc = "status" /\ remotes' = remotes
    BY <1>a, <1>b, <2>2, Zenon
  <2>3. CASE /\ koWork'.pc = "cert" /\ MayCall /\ (koWork.id = None \/ koWork.id \in Own)
             /\ remotes' = Called
    BY <1>c, <2>1, <2>3, Zenon
  <2>4. QED
    BY <1>4, <2>2, <2>3, CallStep, Zenon
<1>5. CASE updateTLSSecretCert
  BY <1>5, <1>a, <1>b, CertStep, Zenon DEF updateTLSSecretCert
<1>6. CASE reconcileBindingCertRenewal
  BY <1>6, <1>a, <1>b, RenewalStep, Zenon
<1>7. CASE AnswerLost
  <2>1. koWork'.pc = "status"
    BY <1>7, FailWork, Zenon DEF AnswerLost, Errors
  <2>2. QED
    BY <1>7, <1>c, <2>1, Zenon DEF AnswerLost
<1>8. CASE CallFails \/ StatusFails \/ updateStatus
  <2>1. koWork'.pc \in {"status", "renew", "idle"}
    BY <1>8, Ended, Zenon
  <2>2. remotes' = remotes
    BY <1>8, Zenon DEF CallFails, StatusFails, updateStatus
  <2>3. QED
    BY <1>a, <1>b, <2>1, <2>2, Zenon
<1>9. CASE \/ DeliverOperator \/ DeliverSecret \/ TimerFires
           \/ EditOperator \/ DeleteSecret
  <2>1. koWork' = koWork /\ remotes' = remotes
    BY <1>9, Zenon DEF DeliverOperator, DeliverSecret, TimerFires, EditOperator,
                       DeleteSecret
  <2>2. QED
    BY <1>a, <1>b, <2>1, Zenon DEF OnceInv
<1>10. CASE RemoteChange
  BY <1>10, <1>a, RemoteStep, Zenon DEF RemoteChange, OnceInv
<1>11. CASE Restart
  BY <1>11, <1>a, <1>b, IdleWork, Zenon DEF Restart
<1>12. QED
  BY <1>1, <1>2, <1>3, <1>4, <1>5, <1>6, <1>7, <1>8, <1>9, <1>10, <1>11, Zenon
     DEF Next, Reconcile

\* What the steps that leave the spec alone keep.
LEMMA RegNextSpec ==
    ASSUME RegTypes, SecretInv, SpecInv, Next
    PROVE  SpecInv'
<1> USE DEF Cluster, Caches
<1>0. /\ ko \in Operators /\ koSeen \in Operators
      /\ ko.gen \in Nat /\ koSeen.gen \in Nat
      /\ koWork.pc # "idle" => koWork.ko \in Operators /\ koWork.ko.gen \in Nat
  BY OperatorTypes, Working, WorkTypes, Zenon DEF RegTypes, TypeOK
<1>a. ASSUME koSeen' = koSeen, ko'.gen = ko.gen, ko'.bindings = ko.bindings,
             koQueued => koQueued',
             koWork'.pc = "idle" \/ (koWork.pc # "idle" /\ koWork'.ko = koWork.ko)
      PROVE  SpecInv'
  BY <1>a, Zenon DEF SpecInv
<1>1. CASE StartReconcile
  <2>1. /\ ko'.gen = ko.gen /\ ko'.bindings = ko.bindings /\ koSeen' = koSeen
        /\ koWork'.ko \in {koSeen, ko'}
    BY <1>1, StartWork, Zenon DEF StartReconcile
  <2>2. ko.gen <= ko.gen
    BY <1>0
  <2>3. QED
    BY <1>0, <2>1, <2>2, Zenon DEF SpecInv
<1>2. CASE findExisting \/ GetExisting
  <2>1. koWork.pc # "idle" /\ koWork'.ko = koWork.ko
    BY <1>2, FindStep, Zenon
  <2>2. koSeen' = koSeen /\ ko' = ko /\ koQueued' = koQueued
    BY <1>2, Zenon DEF findExisting, GetExisting
  <2>3. QED
    BY <1>a, <2>1, <2>2, Zenon
<1>3. CASE findOrCreateTLSSecret
  <2>1. koWork.pc # "idle" /\ koWork'.ko = koWork.ko
    BY <1>3, SecretStep, Zenon
  <2>2. QED
    BY <1>3, <1>a, <2>1, Zenon DEF findOrCreateTLSSecret
<1>4. CASE CallAPI
  <2>1. koWork.pc # "idle" /\ koWork'.ko = koWork.ko
    BY <1>4, CallStep, Zenon
  <2>2. QED
    BY <1>4, <1>a, <2>1, Zenon DEF CallAPI
<1>5. CASE updateTLSSecretCert
  <2>1. koWork.pc # "idle" /\ koWork'.ko = koWork.ko
    BY <1>5, CertStep, Zenon
  <2>2. QED
    BY <1>5, <1>a, <2>1, Zenon DEF updateTLSSecretCert
<1>6. CASE reconcileBindingCertRenewal
  BY <1>6, <1>a, RenewalStep, Zenon
<1>7. CASE CallFails \/ AnswerLost \/ StatusFails \/ updateStatus
  <2>1. koWork.pc # "idle"
    BY <1>7, Zenon DEF CallFails, AnswerLost, StatusFails, updateStatus
  <2>2. koWork'.pc = "idle" \/ koWork'.ko = koWork.ko
    BY <1>7, Ended, Zenon
  <2>3. koQueued => koQueued'
    BY <1>7, Zenon DEF CallFails, AnswerLost, StatusFails, updateStatus
  <2>4. ko'.gen = ko.gen /\ ko'.bindings = ko.bindings
    BY <1>0, <1>7, Zenon DEF CallFails, AnswerLost, StatusFails, updateStatus,
                             Operators
  <2>5. koSeen' = koSeen
    BY <1>7, Ended, Zenon
  <2>6. QED
    BY <1>a, <2>1, <2>2, <2>3, <2>4, <2>5, Zenon
<1>8. CASE DeliverSecret \/ TimerFires \/ RemoteChange \/ DeleteSecret
  <2>1. koWork' = koWork /\ ko' = ko /\ koSeen' = koSeen /\ (koQueued => koQueued')
    <3>1. CASE TimerFires
      BY <3>1, Zenon DEF TimerFires
    <3>2. CASE DeliverSecret
      BY <3>2, Zenon DEF DeliverSecret
    <3>3. CASE RemoteChange
      BY <3>3, Zenon DEF RemoteChange
    <3>4. CASE DeleteSecret
      BY <3>4, Zenon DEF DeleteSecret
    <3>5. QED
      BY <1>8, <3>1, <3>2, <3>3, <3>4, Zenon
  <2>2. QED
    BY <2>1, Zenon DEF SpecInv
<1>9. CASE DeliverOperator
  <2>1. /\ ko' = ko /\ koSeen' = ko /\ koWork' = koWork
        /\ ~koQueued' => ~koQueued /\ koSeen.gen = ko.gen
    BY <1>9, Zenon DEF DeliverOperator
  <2>2. ko.gen <= ko.gen
    BY <1>0
  <2>3. QED
    BY <2>1, <2>2, Zenon DEF SpecInv
<1>10. CASE EditOperator
  <2>1. koSeen' = koSeen /\ koWork' = koWork /\ ko'.gen = ko.gen + 1
    BY <1>0, <1>10, Zenon DEF EditOperator, Operators
  <2>2. /\ koSeen.gen <= ko.gen + 1 /\ koSeen.gen # ko.gen + 1
    BY <1>0 DEF SpecInv
  <2>3. koWork.pc # "idle" => koWork.ko.gen <= ko.gen
    BY Zenon DEF SpecInv
  <2>4. koWork.pc # "idle" => koWork.ko.gen <= ko.gen + 1 /\ koWork.ko.gen # ko.gen + 1
    BY <1>0, <2>3
  <2>5. QED
    BY <2>1, <2>2, <2>4, Zenon DEF SpecInv
<1>11. CASE Restart
  <2>1. koWork'.pc = "idle" /\ koSeen' = ko'
    BY <1>11, IdleWork, Zenon DEF Restart
  <2>2. ko'.gen = ko.gen \/ ko'.gen = ko.gen + 1
    BY <1>0, <1>11, Zenon DEF Restart, Operators
  <2>3. ko'.gen <= ko'.gen
    BY <1>0, <2>2
  <2>4. QED
    BY <2>1, <2>3, Zenon DEF SpecInv
<1>12. QED
  BY <1>1, <1>2, <1>3, <1>4, <1>5, <1>6, <1>7, <1>8, <1>9, <1>10, <1>11, Zenon
     DEF Next, Reconcile

LEMMA RegNextFits ==
    ASSUME RegTypes, SecretInv, SpecInv, FitInv, Next
    PROVE  FitInv'
<1> USE DEF Cluster, Caches
<1>0. ko \in Operators /\ ko.gen \in Nat /\ koSeen.gen \in Nat
  BY OperatorTypes, Zenon DEF RegTypes, TypeOK
<1>a. ASSUME koWork'.pc \in {"find", "get", "secret", "call"}, koWork'.err = "nil"
      PROVE  FitInv'
  BY <1>a, Zenon DEF FitInv
<1>b. ASSUME \/ koWork'.pc = "status" /\ koWork'.err # "nil"
             \/ koWork'.pc = "idle" /\ koQueued'
      PROVE  FitInv'
  BY <1>b, Zenon DEF FitInv
<1>1. CASE StartReconcile
  BY <1>1, <1>a, StartWork, Zenon
<1>2. CASE findExisting \/ GetExisting
  <2>1. koWork.err = "nil"
    BY <1>2, FindStep, Zenon DEF FitInv
  <2>2. QED
    BY <1>2, <1>a, <1>b, <2>1, FindStep, Zenon
<1>3. CASE findOrCreateTLSSecret
  <2>1. koWork.err = "nil"
    BY <1>3, SecretStep, Zenon DEF FitInv
  <2>2. QED
    BY <1>3, <1>a, <1>b, <2>1, SecretStep, Zenon
<1>4. CASE CallAPI
  <2>1. koWork.err = "nil" /\ koWork.pc = "call"
    BY <1>4, CallStep, Zenon DEF FitInv
  <2>2. CASE koWork'.pc = "status" /\ koWork'.err = "notFound"
    BY <1>b, <2>2, Zenon
  <2>3. CASE /\ koWork'.pc = "cert" /\ koWork'.err = koWork.err
             /\ MayCall /\ (koWork.id = None \/ koWork.id \in Own)
             /\ remotes' = Called
             /\ koWork'.id = IF koWork.id = None THEN NewId ELSE koWork.id
    <3>1. koWork.secret # None => remotes'[koWork'.id].key = koWork.secret.csr
      BY <2>1, <2>3, CalledStep, Zenon
    <3>2. koWork'.secret = koWork.secret
      BY <1>4, CallStep, Zenon
    <3>3. QED
      BY <2>1, <2>3, <3>1, <3>2, Zenon DEF FitInv
  <2>4. QED
    BY <1>4, <2>2, <2>3, CallStep, Zenon
<1>5. CASE updateTLSSecretCert
  <2>1. /\ koWork.pc = "cert" /\ koWork'.pc = "status" /\ remotes' = remotes
        /\ koWork'.ko = koWork.ko /\ koWork'.id = koWork.id
    BY <1>5, CertStep, Zenon DEF updateTLSSecretCert
  <2>2. Own' = Own
    BY <2>1, Zenon DEF Own
  <2>3. SUFFICES ASSUME koWork'.err = "nil", koWork.ko.bindings = "on",
                        secret' # None, koWork.id \in Own
                 PROVE  secret'.crt = secret'.key /\ remotes[koWork.id].key = secret'.key
    BY <2>1, <2>2, Zenon DEF FitInv, Fits
  <2>4. /\ koWork.secret # None /\ koWork.secret.csr # None
        /\ koWork.secret.csr = koWork.secret.key
        /\ secret # None => secret.key = koWork.secret.key
        /\ secret # None /\ koWork.secret.crt = koWork.secret.csr => secret.crt = secret.key
    BY <2>1, <2>3, Zenon DEF SecretInv, Matched, Continues
  <2>5. remotes[koWork.id].key = koWork.secret.csr
    BY <2>1, <2>3, <2>4, Zenon DEF FitInv
  <2>6. QED
    BY <1>5, <2>3, <2>4, <2>5, CertStep, Zenon
<1>6. CASE updateStatus
  <2>1. CASE koWork'.pc = "idle"
    BY <1>6, <1>b, <2>1, Ended, Zenon
  <2>2. CASE koWork'.pc # "idle"
    <3>1. koWork.pc = "status" /\ Goto("renew") /\ koWork.err \notin {"retry", "notFound"}
      BY <1>6, <2>2, IdleWork, Zenon DEF updateStatus
    <3>2. /\ koWork'.pc = "renew" /\ koWork'.ko = koWork.ko /\ koWork'.id = koWork.id
          /\ koWork'.err = koWork.err
      BY <3>1, GotoWork, Zenon DEF WorkSteps
    <3>3. remotes' = remotes /\ secret' = secret
      BY <1>6, Zenon DEF updateStatus
    <3>4. koWork'.err = "nil" /\ koWork'.ko.bindings = "on" => Fits(koWork.id)'
      BY <3>1, <3>2, <3>3, Zenon DEF FitInv, Fits, Own
    <3>5. ko'.ready => koWork.id # None /\ koWork.err = "nil"
      BY <1>0, <1>6, Zenon DEF updateStatus, Operators
    <3>6. koWork.id # None /\ koWork.err = "nil" => ko'.id = koWork.id
      BY <1>0, <1>6, Zenon DEF updateStatus, Operators
    <3>7. QED
      BY <3>2, <3>4, <3>5, <3>6, Zenon DEF FitInv
  <2>3. QED
    BY <2>1, <2>2, Zenon
<1>7. CASE reconcileBindingCertRenewal
  <2>1. CASE koQueued'
    BY <1>7, <1>b, <2>1, RenewalStep, Zenon
  <2>2. CASE ~koQueued'
    <3>1. /\ koWork.pc = "renew" /\ koWork'.pc = "idle" /\ ~koQueued /\ secret' = secret
          /\ UNCHANGED <<ko, koSeen, remotes>>
      BY <1>7, <2>2, RenewalStep, Zenon
    <3>2. SUFFICES ASSUME koSeen.gen = ko.gen, ko.ready, ko.bindings = "on"
                   PROVE  Fits(ko.id)
      BY <3>1, Zenon DEF FitInv, Fits, Own
    <3>3. koWork.ko.bindings = "on"
      BY <3>1, <3>2, Zenon DEF SpecInv
    <3>4. koWork.err = "nil" /\ ko.id = koWork.id
      BY <3>1, <3>2, Zenon DEF FitInv
    <3>5. QED
      BY <3>1, <3>3, <3>4, Zenon DEF FitInv
  <2>3. QED
    BY <2>1, <2>2, Zenon
<1>8. CASE CallFails \/ AnswerLost \/ StatusFails
  <2>1. koWork'.pc # "renew"
    BY <1>8, FailWork, IdleWork, Zenon DEF CallFails, AnswerLost, StatusFails, Errors
  <2>2. QED
    BY <1>8, <1>b, <2>1, Ended, Zenon
<1>9. CASE DeliverOperator
  <2>1. /\ ko' = ko /\ koWork' = koWork /\ remotes' = remotes /\ secret' = secret
        /\ ~koQueued' => ~koQueued /\ koSeen.gen = ko.gen
    BY <1>9, Zenon DEF DeliverOperator
  <2>2. QED
    BY <2>1, Zenon DEF FitInv, Fits, Own
<1>10. CASE DeliverSecret
  BY <1>10, Zenon DEF DeliverSecret, FitInv, Fits, Own
<1>11. CASE TimerFires
  <2>1. /\ ko' = ko /\ koWork' = koWork /\ remotes' = remotes /\ secret' = secret
        /\ koQueued'
    BY <1>11, Zenon DEF TimerFires
  <2>2. QED
    BY <2>1, Zenon DEF FitInv, Fits, Own
<1>12. CASE RemoteChange
  <2>1. UNCHANGED <<ko, koSeen, koWork, koQueued, secret>>
    BY <1>12, Zenon DEF RemoteChange
  <2>2. /\ Own' \subseteq Own
        /\ \A i \in Own : remotes'[i].key = remotes[i].key
    BY <1>12, RemoteStep, Zenon
  <2>3. Fits(koWork.id) => Fits(koWork.id)'
    BY <2>1, <2>2, Zenon DEF Fits
  <2>4. Fits(ko.id) => Fits(ko.id)'
    BY <2>1, <2>2, Zenon DEF Fits
  <2>5. QED
    BY <2>1, <2>2, <2>3, <2>4, Zenon DEF FitInv
<1>13. CASE DeleteSecret
  BY <1>13, Zenon DEF DeleteSecret, FitInv, Fits, Own
<1>14. CASE EditOperator
  <2>1. /\ UNCHANGED <<secret, remotes, koWork, koSeen>>
        /\ ko'.gen = ko.gen + 1 /\ ko'.ready = ko.ready /\ ko'.id = ko.id
    BY <1>0, <1>14, Zenon DEF EditOperator, Operators
  <2>2. koSeen.gen <= ko.gen
    BY Zenon DEF SpecInv
  <2>3. koSeen.gen # ko.gen + 1
    BY <1>0, <2>2
  <2>4. QED
    BY <2>1, <2>3, Zenon DEF FitInv, Fits, Own
<1>15. CASE Restart
  <2>1. koWork'.pc = "idle" /\ koQueued'
    BY <1>15, IdleWork, Zenon DEF Restart
  <2>2. QED
    BY <1>b, <2>1, Zenon
<1>16. QED
  BY <1>1, <1>2, <1>3, <1>4, <1>5, <1>6, <1>7, <1>8, <1>9, <1>10, <1>11, <1>12, <1>13, <1>14,
     <1>15, Zenon DEF Next, Reconcile

(***************************************************************************)
(* The theorems.                                                           *)
(***************************************************************************)

\* Steps that change none of the variables of the registration.
LEMMA RegStutter ==
    ASSUME RegInv, UNCHANGED registration
    PROVE  RegInv'
<1>1. UNCHANGED <<ko, koSeen, secret, secretSeen, remotes, koQueued, timer, koWork, lastKey, troubles>>
  BY Zenon DEF registration
<1>2. RegTypes'
  BY <1>1, Zenon DEF RegInv, RegTypes, TypeOK
<1>3. Own' = Own
  BY <1>1, Zenon DEF Own
<1>4. SecretInv'
  BY <1>1, Zenon DEF RegInv, SecretInv, Matched, Continues
<1>5. OnceInv'
  BY <1>1, <1>3, Zenon DEF RegInv, OnceInv
<1>6. SpecInv'
  BY <1>1, Zenon DEF RegInv, SpecInv
<1>7. FitInv'
  BY <1>1, <1>3, Zenon DEF RegInv, FitInv, Fits
<1>8. QED
  BY <1>2, <1>4, <1>5, <1>6, <1>7, Zenon DEF RegInv

LEMMA RegInitInv ==
    ASSUME Init
    PROVE  RegInv
<1>1. RegTypes
  BY RegInitTypes, Zenon
<1>2. koWork.pc = "idle" /\ secret = None /\ secretSeen = None /\ koSeen = ko /\ koQueued
  BY IdleWork, Zenon DEF Init
<1>3. Own = {}
  BY Zenon DEF Init, Own
<1>4. ko.gen \in Nat
  BY <1>1, OperatorTypes, Zenon DEF RegTypes, TypeOK
<1>5. ko.gen <= ko.gen
  BY <1>4
<1>6. SecretInv
  BY <1>2, Zenon DEF SecretInv, Matched
<1>7. OnceInv /\ SpecInv /\ FitInv
  BY <1>2, <1>3, <1>5, Zenon DEF OnceInv, SpecInv, FitInv
<1>8. QED
  BY <1>1, <1>6, <1>7, Zenon DEF RegInv

\* The types and the invariant hold of the registration, whatever fails, expires, is
\* edited or restarted.
THEOREM RegistrationInvariant == Spec => []RegInv
<1>1. Init => RegInv
  BY RegInitInv, Zenon
<1>2. RegInv /\ [Next]_registration => RegInv'
  <2> SUFFICES ASSUME RegInv, [Next]_registration PROVE RegInv'
    OBVIOUS
  <2>1. CASE Next
    BY <2>1, RegNextTypes, RegNextSecrets, RegNextOnce, RegNextSpec, RegNextFits, Zenon DEF RegInv
  <2>2. CASE UNCHANGED registration
    BY <2>2, RegStutter, Zenon
  <2>3. QED
    BY <2>1, <2>2, Zenon
<1>3. QED
  BY <1>1, <1>2, PTL DEF Spec

\* An installation is registered at most once with the ngrok API: findExisting comes
\* before every create, by the one worker, and a lost answer is followed by another look.
THEOREM InstallationRegisteredOnce == Spec => []RegisteredOnce
<1>1. RegInv => RegisteredOnce
  BY Zenon DEF RegInv, OnceInv, RegisteredOnce
<1>2. QED
  BY <1>1, RegistrationInvariant, PTL

\* When the controller is done, the certificate in the Secret of an operator that is
\* Ready with bindings is the one for the key beside it, and ngrok knows this key.
THEOREM BindingsCertificateFits == Spec => []CertificateFitsKey
<1>1. RegInv => CertificateFitsKey
  BY IdleWork, Zenon DEF RegInv, FitInv, Fits, CertificateFitsKey, Settled
<1>2. QED
  BY <1>1, RegistrationInvariant, PTL

(***************************************************************************)
(* AgentEndpoints: the inductive invariant.                                *)
(***************************************************************************)

\* Nothing of endpoint n will call replica r: no request, no event that passes the
\* predicate.
Unasked(r, n) == n \notin aepQueue[r] /\ ~GenerationChanged(aepSeen[r][n], aep[n])

Busy(r, n) == aepWork[r].pc # "idle" /\ aepWork[r].name = n

\* One generation of an endpoint has one spec, and a deletion is not taken back.
Older(o, p) ==
    o # None /\ p # None /\ o.gen = p.gen => o.spec = p.spec /\ (o.deleting => p.deleting)

\* The copy that a reconcile works on is of the latest generation, and what it has
\* fetched is what the cache still holds, unless the replica will be called again.
Current(r, n) ==
    Busy(r, n) /\ Unasked(r, n) =>
       /\ aepWork[r].obj.gen = aep[n].gen
       /\ aepWork[r].obj.spec = aep[n].spec
       /\ aepWork[r].obj.deleting = aep[n].deleting
       /\ aepWork[r].pc = "forward" =>
             \A i \in aep[n].spec.refs : aepWork[r].content[i] = inputSeen[r][i]

\* The generations are drawn from a counter, and the copies are of the same object.
GenInv ==
    /\ \A n \in AepNames : aep[n] # None => aep[n].gen <= aepEvents
    /\ \A r \in Replicas, n \in AepNames :
          /\ aepSeen[r][n] # None => aepSeen[r][n].gen <= aepEvents
          /\ Older(aepSeen[r][n], aep[n])

CurrentInv == \A r \in Replicas, n \in AepNames : Current(r, n)

\* The forwarder of n in r is open, for object o, and has the content that is in the
\* cache of r.
Forwards(r, n, o) ==
    /\ forwarders[r][n] # None
    /\ forwarders[r][n].open
    /\ forwarders[r][n].gen = o.gen
    /\ \A i \in o.spec.refs : forwarders[r][n].content[i] = inputSeen[r][i]

Usable(r, o) == \A i \in o.spec.refs : inputSeen[r][i] \notin {None, "bad"}

\* The reconcile has yet to make the forwarder, or will be repeated.
Pending(r) ==
    \/ aepWork[r].pc \in {"register", "domain", "resolve", "forward"}
    \/ aepWork[r].pc = "status" /\ aepWork[r].after = "again"

Served(r, n) == Forwards(r, n, aep[n]) \/ (Busy(r, n) /\ Pending(r))

\* An endpoint that can be served is served, unless the replica will be called for it
\* or is still at it.
ServeInv ==
    \A r \in Replicas, n \in AepNames :
       Unasked(r, n) /\ ~aep[n].deleting /\ Usable(r, aep[n]) => Served(r, n)

\* What a reconcile is about to do: Forward gets what Resolve has fetched, the status of
\* a public endpoint gets its reference unless the reconcile is repeated, and only a
\* deleted endpoint is closed.
Planned(w) ==
    /\ w.pc = "forward" => w.content \in [Inputs -> Contents \cup {None}]
    /\ w.pc \in {"resolve", "forward", "status"} /\ w.obj.spec.url = "public"
       => w.obj.domainRef \/ (w.pc = "status" /\ w.after = "again")
    /\ w.pc \in {"close", "unregister"} => w.obj.deleting

WorkInv == \A r \in Replicas : Planned(aepWork[r])

\* A Domain that is gone is asked for again, and a public endpoint whose status lacks
\* the reference is reconciled by some replica.
DomainInv ==
    /\ \A r \in Replicas : r \notin domNews => domSeen[r] = dom
    /\ \A r \in Replicas, n \in AepNames :
          /\ dom = None /\ r \notin domNews
          /\ Unasked(r, n) /\ ~aep[n].deleting /\ aep[n].spec.url = "public"
          => Busy(r, n) /\ aepWork[r].pc \in {"register", "domain"}
    /\ \A n \in AepNames :
          aep[n] # None /\ ~aep[n].deleting /\ aep[n].spec.url = "public" /\ ~aep[n].domainRef
          => \E r \in Replicas : Unasked(r, n) =>
                /\ Busy(r, n)
                /\ aepWork[r].pc \in {"register", "domain", "resolve", "forward", "status"}

\* With one replica the finalizer stays as long as there is a forwarder; an object whose
\* deletion the cache has seen is being deleted, or has no finalizer, until it is
\* registered again.
HeldObject(r, n) ==
    /\ forwarders[r][n] # None => aep[n] # None /\ aep[n].finalizer
    /\ aepSeen[r][n] # None /\ aepSeen[r][n].deleting /\ aep[n] # None =>
          aep[n].deleting \/ ~aep[n].finalizer
    /\ aepSeen[r][n] # None /\ ~aepSeen[r][n].deleting /\ aepSeen[r][n].finalizer =>
          aep[n] # None /\ aep[n].finalizer

HeldWork(r, n) ==
    LET pc == aepWork[r].pc IN
    Busy(r, n) =>
       /\ pc \in {"domain", "resolve", "forward", "status"} => aep[n] # None /\ aep[n].finalizer
       /\ pc \in {"close", "unregister"} /\ aep[n] # None => aep[n].deleting \/ ~aep[n].finalizer
       /\ pc = "unregister" => forwarders[r][n] = None
       /\ pc = "register" /\ aepSeen[r][n] # None /\ aepSeen[r][n].deleting =>
             aep[n] # None /\ aep[n].deleting
       /\ pc \in {"close", "unregister"} /\ aepSeen[r][n] # None /\ ~aepSeen[r][n].deleting =>
             ~aepSeen[r][n].finalizer

HeldInv == \A r \in Replicas, n \in AepNames : HeldObject(r, n) /\ HeldWork(r, n)

AgentInv == AgentTypeOK /\ GenInv /\ WorkInv /\ CurrentInv /\ ServeInv /\ DomainInv

(***************************************************************************)
(* Types.                                                                  *)
(***************************************************************************)
AepSteps == {"register", "domain", "resolve", "forward", "status", "close", "unregister"}
Ends == {"done", "again"}
InputContents == [Inputs -> Contents \cup {None}]

LEMMA ObjectTypes ==
    ASSUME NEW o \in Objects
    PROVE  /\ o # None
           /\ o.gen \in 1..MaxAepEvents /\ o.gen \in Nat
           /\ o.spec \in AepSpecs
           /\ o.finalizer \in BOOLEAN /\ o.deleting \in BOOLEAN /\ o.domainRef \in BOOLEAN
           /\ \A b \in BOOLEAN :
                 /\ [o EXCEPT !.finalizer = b] \in Objects
                 /\ [o EXCEPT !.domainRef = b] \in Objects
                 /\ [o EXCEPT !.deleting = b] \in Objects
           /\ \A g \in 1..MaxAepEvents, s \in AepSpecs : [o EXCEPT !.gen = g, !.spec = s] \in Objects
<1>1. o # None /\ o.gen \in 1..MaxAepEvents
  BY AgentAssumption, Zenon DEF Objects
<1>2. o.gen \in Nat
  BY <1>1, AgentAssumption
<1>3. QED
  BY <1>1, <1>2, Zenon DEF Objects

LEMMA NoWorkFacts == NoWork.pc = "idle" /\ NoWork \notin AepWorks
  BY Zenon DEF NoWork, AepWorks

LEMMA AepWorkTypes ==
    ASSUME NEW w \in AepWorks
    PROVE  /\ w.pc \in AepSteps /\ w.pc # "idle"
           /\ w.name \in AepNames /\ w.obj \in Objects
           /\ w.content \in InputContents \cup {None}
           /\ w.after \in Ends
<1>1. w.pc \in AepSteps /\ w.name \in AepNames /\ w.obj \in Objects
      /\ w.content \in InputContents \cup {None} /\ w.after \in Ends
  BY Zenon DEF AepWorks, AepSteps, InputContents, Ends
<1>2. w.pc # "idle"
  BY <1>1 DEF AepSteps
<1>3. QED
  BY <1>1, <1>2, Zenon

\* What the type invariant says of one replica and one endpoint.
LEMMA StateTypes ==
    ASSUME AgentTypeOK
    PROVE  /\ \A n \in AepNames : aep[n] # None => aep[n] \in Objects
           /\ \A r \in Replicas, n \in AepNames : aepSeen[r][n] # None => aepSeen[r][n] \in Objects
           /\ \A r \in Replicas : aepWork[r].pc # "idle" =>
                 aepWork[r] \in AepWorks /\ aepWork[r].name \in AepNames /\ aepWork[r].obj \in Objects
           /\ \A r \in Replicas : aepWork[r].pc = "idle" => aepWork[r] = NoWork
           /\ \A r \in Replicas, n \in AepNames :
                 forwarders[r][n] # None => forwarders[r][n] \in Forwarders
<1>1. \A r \in Replicas : aepWork[r] \in AepWorks \cup {NoWork}
  BY Zenon DEF AgentTypeOK
<1>2. \A r \in Replicas, n \in AepNames :
         /\ aepSeen[r][n] \in Objects \cup {None}
         /\ forwarders[r][n] \in Forwarders \cup {None}
  <2>1. TAKE r \in Replicas, n \in AepNames
  <2>2. aepSeen[r] \in [AepNames -> Objects \cup {None}]
    BY Zenon DEF AgentTypeOK
  <2>3. forwarders[r] \in [AepNames -> Forwarders \cup {None}]
    BY Zenon DEF AgentTypeOK
  <2>4. QED
    BY <2>2, <2>3, Zenon
<1>3. \A n \in AepNames : aep[n] \in Objects \cup {None}
  BY Zenon DEF AgentTypeOK
<1>4. \A r \in Replicas : aepWork[r].pc # "idle" => aepWork[r] \in AepWorks
  BY <1>1, NoWorkFacts, Zenon
<1>5. \A r \in Replicas : aepWork[r].pc = "idle" => aepWork[r] = NoWork
  BY <1>1, AepWorkTypes, Zenon
<1>6. \A w \in AepWorks : w.name \in AepNames /\ w.obj \in Objects
  BY Zenon DEF AepWorks
<1>7. QED
  BY <1>2, <1>3, <1>4, <1>5, <1>6, Zenon

(***************************************************************************)
(* What the pieces of an action make of the state.                         *)
(***************************************************************************)
LEMMA EnqueueStep ==
    ASSUME AgentTypeOK, NEW r \in Replicas, NEW S \in SUBSET AepNames, Enqueue(r, S)
    PROVE  /\ aepQueue' \in [Replicas -> SUBSET AepNames]
           /\ aepQueue'[r] = aepQueue[r] \cup S
           /\ \A q \in Replicas : q # r => aepQueue'[q] = aepQueue[q]
<1>1. aepQueue \in [Replicas -> SUBSET AepNames]
  BY Zenon DEF AgentTypeOK
<1>2. aepQueue[r] \cup S \in SUBSET AepNames
  BY <1>1, Zenon
<1>3. QED
  BY <1>1, <1>2, Zenon DEF Enqueue

LEMMA WorkStep ==
    ASSUME AgentTypeOK, NEW r \in Replicas, NEW w \in AepWorks \cup {NoWork}, Work(r, w)
    PROVE  /\ aepWork' \in [Replicas -> AepWorks \cup {NoWork}]
           /\ aepWork'[r] = w
           /\ \A q \in Replicas : q # r => aepWork'[q] = aepWork[q]
  BY Zenon DEF AgentTypeOK, Work

\* The other replicas' work is left alone.
OthersAtWork(r) == \A q \in Replicas : q # r => aepWork'[q] = aepWork[q]

LEMMA ThenStep ==
    ASSUME AgentTypeOK, NEW r \in Replicas, aepWork[r].pc # "idle",
           NEW pc \in AepSteps, NEW o \in Objects, NEW a \in Ends, Then(r, pc, o, a)
    PROVE  /\ aepWork' \in [Replicas -> AepWorks \cup {NoWork}]
           /\ aepWork'[r].pc = pc /\ aepWork'[r].name = aepWork[r].name
           /\ aepWork'[r].obj = o /\ aepWork'[r].content = aepWork[r].content
           /\ aepWork'[r].after = a
           /\ OthersAtWork(r)
<1>1. PICK w \in AepWorks : aepWork[r] = w
  BY StateTypes, Zenon
<1> DEFINE v == [w EXCEPT !.pc = pc, !.obj = o, !.after = a]
<1>2. /\ v \in AepWorks
      /\ v.pc = pc /\ v.name = w.name /\ v.obj = o /\ v.content = w.content /\ v.after = a
  <2>1. v \in AepWorks
    BY Zenon DEF AepWorks, AepSteps, Ends
  <2>2. v.pc = pc /\ v.name = w.name /\ v.obj = o /\ v.content = w.content /\ v.after = a
    BY Zenon DEF AepWorks
  <2>3. QED
    BY <2>1, <2>2, Zenon
<1>3. Work(r, v)
  BY <1>1, Zenon DEF Then
<1> HIDE DEF v
<1>4. /\ aepWork' \in [Replicas -> AepWorks \cup {NoWork}]
      /\ aepWork'[r] = v
      /\ \A q \in Replicas : q # r => aepWork'[q] = aepWork[q]
  BY <1>2, <1>3, WorkStep, Zenon
<1>5. QED
  BY <1>1, <1>2, <1>4, Zenon DEF OthersAtWork

LEMMA FinishStep ==
    ASSUME AgentTypeOK, NEW r \in Replicas, Finish(r)
    PROVE  /\ aepWork' \in [Replicas -> AepWorks \cup {NoWork}]
           /\ aepWork'[r].pc = "idle"
           /\ \A q \in Replicas : q # r => aepWork'[q] = aepWork[q]
           /\ aepQueue' = aepQueue
<1>1. Work(r, NoWork) /\ aepQueue' = aepQueue
  BY Zenon DEF Finish
<1>2. /\ aepWork' \in [Replicas -> AepWorks \cup {NoWork}]
      /\ aepWork'[r] = NoWork
      /\ \A q \in Replicas : q # r => aepWork'[q] = aepWork[q]
  BY <1>1, WorkStep, Zenon
<1>3. QED
  BY <1>1, <1>2, NoWorkFacts, Zenon

LEMMA RetryStep ==
    ASSUME AgentTypeOK, NEW r \in Replicas, aepWork[r].pc # "idle", Retry(r)
    PROVE  /\ aepWork' \in [Replicas -> AepWorks \cup {NoWork}]
           /\ aepWork'[r].pc = "idle"
           /\ \A q \in Replicas : q # r => aepWork'[q] = aepWork[q]
           /\ aepQueue' \in [Replicas -> SUBSET AepNames]
           /\ aepQueue'[r] = aepQueue[r] \cup {aepWork[r].name}
           /\ \A q \in Replicas : q # r => aepQueue'[q] = aepQueue[q]
<1>1. aepWork[r].name \in AepNames
  BY StateTypes, Zenon
<1>2. Work(r, NoWork) /\ Enqueue(r, {aepWork[r].name})
  BY Zenon DEF Retry
<1>3. /\ aepWork' \in [Replicas -> AepWorks \cup {NoWork}]
      /\ aepWork'[r] = NoWork
      /\ \A q \in Replicas : q # r => aepWork'[q] = aepWork[q]
  BY <1>2, WorkStep, Zenon
<1>4. {aepWork[r].name} \in SUBSET AepNames
  BY <1>1, Zenon
<1>5. /\ aepQueue' \in [Replicas -> SUBSET AepNames]
      /\ aepQueue'[r] = aepQueue[r] \cup {aepWork[r].name}
      /\ \A q \in Replicas : q # r => aepQueue'[q] = aepQueue[q]
  BY <1>2, <1>4, EnqueueStep, Zenon
<1>6. QED
  BY <1>3, <1>5, NoWorkFacts, Zenon

LEMMA ChangeDomainStep ==
    ASSUME AgentTypeOK, NEW d \in Domains \cup {None}, ChangeDomain(d)
    PROVE  /\ dom' = d
           /\ domNews' \in SUBSET Replicas
           /\ domNews \subseteq domNews'
           /\ d # dom => domNews' = Replicas
           /\ \A r \in Replicas : r \notin domNews' => r \notin domNews /\ dom' = dom
  BY Zenon DEF AgentTypeOK, ChangeDomain

LEMMA DomainTypes ==
    ASSUME NEW d \in Domains
    PROVE  /\ d # None
           /\ [d EXCEPT !.deleting = TRUE] \in Domains
           /\ [d EXCEPT !.ready = TRUE] \in Domains
           /\ [ready |-> FALSE, deleting |-> FALSE] \in Domains
  BY AgentAssumption, Zenon DEF Domains

LEMMA EventStep ==
    ASSUME AgentTypeOK, AepEvent
    PROVE  aepEvents' \in 0..MaxAepEvents /\ aepEvents' = aepEvents + 1
           /\ aepEvents' \in 1..MaxAepEvents /\ aepEvents \in Nat
  BY AgentAssumption DEF AgentTypeOK, AepEvent

\* A write of one object.
LEMMA WriteStep ==
    ASSUME AgentTypeOK, NEW n \in AepNames, NEW o \in Objects \cup {None},
           aep' = [aep EXCEPT ![n] = o]
    PROVE  /\ aep' \in [AepNames -> Objects \cup {None}]
           /\ aep'[n] = o
           /\ \A m \in AepNames : m # n => aep'[m] = aep[m]
  BY Zenon DEF AgentTypeOK

\* The other forwarders are left alone.
OthersForwarding(r, n) ==
    \A q \in Replicas, m \in AepNames : q # r \/ m # n => forwarders'[q][m] = forwarders[q][m]

\* A write of one forwarder.
LEMMA ForwarderStep ==
    ASSUME AgentTypeOK, NEW r \in Replicas, NEW n \in AepNames, NEW f \in Forwarders \cup {None},
           forwarders' = [forwarders EXCEPT ![r][n] = f]
    PROVE  /\ forwarders' \in [Replicas -> [AepNames -> Forwarders \cup {None}]]
           /\ forwarders'[r][n] = f
           /\ OthersForwarding(r, n)
<1>1. forwarders \in [Replicas -> [AepNames -> Forwarders \cup {None}]]
  BY Zenon DEF AgentTypeOK
<1>2. forwarders[r] \in [AepNames -> Forwarders \cup {None}]
  BY <1>1, Zenon
<1>3. [forwarders[r] EXCEPT ![n] = f] \in [AepNames -> Forwarders \cup {None}]
  BY <1>2, Zenon
<1>4. forwarders' = [forwarders EXCEPT ![r] = [forwarders[r] EXCEPT ![n] = f]]
  BY <1>1, Zenon
<1>5. forwarders' \in [Replicas -> [AepNames -> Forwarders \cup {None}]]
  BY <1>1, <1>3, <1>4, Zenon
<1>6. forwarders'[r] = [forwarders[r] EXCEPT ![n] = f]
  BY <1>1, <1>4, Zenon
<1>7. \A q \in Replicas : q # r => forwarders'[q] = forwarders[q]
  BY <1>1, <1>4, Zenon
<1>8. forwarders'[r][n] = f /\ \A m \in AepNames : m # n => forwarders'[r][m] = forwarders[r][m]
  BY <1>2, <1>6, Zenon
<1>9. QED
  BY <1>5, <1>7, <1>8, Zenon DEF OthersForwarding

(***************************************************************************)
(* What each action makes of the state.                                    *)
(***************************************************************************)

\* The work and the forwarders of the replicas other than r, and the objects other
\* than n, are left alone.
OthersQueued(r) == \A q \in Replicas : q # r => aepQueue'[q] = aepQueue[q]
OthersWritten(n) == \A m \in AepNames : m # n => aep'[m] = aep[m]

LEMMA DeliverEndpointStep ==
    ASSUME AgentTypeOK, NEW r \in Replicas, NEW n \in AepNames, DeliverEndpoint(r, n)
    PROVE  /\ AgentTypeOK'
           /\ aepSeen'[r][n] = aep[n]
           /\ \A q \in Replicas, m \in AepNames : q # r \/ m # n => aepSeen'[q][m] = aepSeen[q][m]
           /\ GenerationChanged(aepSeen[r][n], aep[n]) => n \in aepQueue'[r]
           /\ \A q \in Replicas : aepQueue[q] \subseteq aepQueue'[q]
           /\ UNCHANGED <<aep, input, dom, domNews, inputSeen, domSeen, aepWork, forwarders, stopping, aepEvents>>
<1>1. UNCHANGED <<aep, input, dom, domNews, inputSeen, domSeen, aepWork, forwarders, stopping, aepEvents>>
  BY Zenon DEF DeliverEndpoint, domVars
<1> DEFINE S == IF GenerationChanged(aepSeen[r][n], aep[n]) THEN {n} ELSE {}
<1>2. S \in SUBSET AepNames /\ Enqueue(r, S)
  BY Zenon DEF DeliverEndpoint
<1>3. GenerationChanged(aepSeen[r][n], aep[n]) => n \in S
  BY Zenon
<1> HIDE DEF S
<1>4. /\ aepQueue' \in [Replicas -> SUBSET AepNames]
      /\ aepQueue'[r] = aepQueue[r] \cup S
      /\ \A q \in Replicas : q # r => aepQueue'[q] = aepQueue[q]
  BY <1>2, EnqueueStep, Zenon
<1>5. aepSeen \in [Replicas -> [AepNames -> Objects \cup {None}]] /\ aep[n] \in Objects \cup {None}
  BY Zenon DEF AgentTypeOK
<1>6. aepSeen[r] \in [AepNames -> Objects \cup {None}]
  BY <1>5, Zenon
<1>7. aepSeen' = [aepSeen EXCEPT ![r] = [aepSeen[r] EXCEPT ![n] = aep[n]]]
  BY Zenon DEF DeliverEndpoint
<1>8. [aepSeen[r] EXCEPT ![n] = aep[n]] \in [AepNames -> Objects \cup {None}]
  BY <1>5, <1>6, Zenon
<1>9. aepSeen' \in [Replicas -> [AepNames -> Objects \cup {None}]]
  BY <1>5, <1>7, <1>8, Zenon
<1>10. aepSeen'[r] = [aepSeen[r] EXCEPT ![n] = aep[n]] /\ \A q \in Replicas : q # r => aepSeen'[q] = aepSeen[q]
  BY <1>5, <1>7, Zenon
<1>11. aepSeen'[r][n] = aep[n] /\ \A m \in AepNames : m # n => aepSeen'[r][m] = aepSeen[r][m]
  BY <1>6, <1>10, Zenon
<1>12. AgentTypeOK'
  BY <1>1, <1>4, <1>9, Zenon DEF AgentTypeOK
<1>13. QED
  BY <1>1, <1>3, <1>4, <1>10, <1>11, <1>12, Zenon

LEMMA DeliverInputStep ==
    ASSUME AgentTypeOK, NEW r \in Replicas, NEW i \in Inputs, DeliverInput(r, i)
    PROVE  /\ AgentTypeOK'
           /\ \A q \in Replicas : q # r => inputSeen'[q] = inputSeen[q]
           /\ \A j \in Inputs : j # i => inputSeen'[r][j] = inputSeen[r][j]
           /\ \A q \in Replicas : aepQueue[q] \subseteq aepQueue'[q]
           /\ Referring(r, i) \subseteq aepQueue'[r]
           /\ UNCHANGED <<aep, input, dom, domNews, aepSeen, domSeen, aepWork, forwarders, stopping, aepEvents>>
<1>1. UNCHANGED <<aep, input, dom, domNews, aepSeen, domSeen, aepWork, forwarders, stopping, aepEvents>>
  BY Zenon DEF DeliverInput, domVars
<1>2. Referring(r, i) \in SUBSET AepNames /\ Enqueue(r, Referring(r, i))
  BY Zenon DEF DeliverInput, Referring
<1>4. /\ aepQueue' \in [Replicas -> SUBSET AepNames]
      /\ aepQueue'[r] = aepQueue[r] \cup Referring(r, i)
      /\ \A q \in Replicas : q # r => aepQueue'[q] = aepQueue[q]
  BY <1>2, EnqueueStep, Zenon
<1>5. inputSeen \in [Replicas -> InputContents] /\ input[i] \in Contents \cup {None}
  BY Zenon DEF AgentTypeOK, InputContents
<1>6. inputSeen[r] \in InputContents
  BY <1>5, Zenon
<1>7. inputSeen' = [inputSeen EXCEPT ![r] = [inputSeen[r] EXCEPT ![i] = input[i]]]
  BY Zenon DEF DeliverInput
<1>8. [inputSeen[r] EXCEPT ![i] = input[i]] \in InputContents
  BY <1>5, <1>6, Zenon DEF InputContents
<1>9. inputSeen' \in [Replicas -> InputContents]
  BY <1>5, <1>7, <1>8, Zenon
<1>10. inputSeen'[r] = [inputSeen[r] EXCEPT ![i] = input[i]] /\ \A q \in Replicas : q # r => inputSeen'[q] = inputSeen[q]
  BY <1>5, <1>7, Zenon
<1>11. \A j \in Inputs : j # i => inputSeen'[r][j] = inputSeen[r][j]
  BY <1>6, <1>10, Zenon DEF InputContents
<1>12. AgentTypeOK'
  BY <1>1, <1>4, <1>9, Zenon DEF AgentTypeOK, InputContents
<1>13. QED
  BY <1>1, <1>4, <1>10, <1>11, <1>12, Zenon

LEMMA DeliverDomainStep ==
    ASSUME AgentTypeOK, NEW r \in Replicas, DeliverDomainTo(r)
    PROVE  /\ AgentTypeOK'
           /\ domSeen'[r] = dom
           /\ \A q \in Replicas : q # r => domSeen'[q] = domSeen[q]
           /\ domNews' = domNews \ {r}
           /\ \A q \in Replicas : aepQueue[q] \subseteq aepQueue'[q]
           /\ findAgentEndpointsForDomain(r) \subseteq aepQueue'[r]
           /\ UNCHANGED <<aep, input, dom, aepSeen, inputSeen, aepWork, forwarders, stopping, aepEvents>>
<1>1. UNCHANGED <<aep, input, dom, aepSeen, inputSeen, aepWork, forwarders, stopping, aepEvents>>
      /\ domNews' = domNews \ {r}
  BY Zenon DEF DeliverDomainTo
<1>2. findAgentEndpointsForDomain(r) \in SUBSET AepNames /\ Enqueue(r, findAgentEndpointsForDomain(r))
  BY Zenon DEF DeliverDomainTo, findAgentEndpointsForDomain
<1>4. /\ aepQueue' \in [Replicas -> SUBSET AepNames]
      /\ aepQueue'[r] = aepQueue[r] \cup findAgentEndpointsForDomain(r)
      /\ \A q \in Replicas : q # r => aepQueue'[q] = aepQueue[q]
  BY <1>2, EnqueueStep, Zenon
<1>5. domSeen \in [Replicas -> Domains \cup {None}] /\ dom \in Domains \cup {None} /\ domNews \subseteq Replicas
  BY Zenon DEF AgentTypeOK
<1>6. /\ domSeen' \in [Replicas -> Domains \cup {None}]
      /\ domSeen'[r] = dom
      /\ \A q \in Replicas : q # r => domSeen'[q] = domSeen[q]
  BY <1>5, Zenon DEF DeliverDomainTo
<1>12. AgentTypeOK'
  BY <1>1, <1>4, <1>5, <1>6, Zenon DEF AgentTypeOK
<1>13. QED
  BY <1>1, <1>4, <1>6, <1>12, Zenon

\* The object n is there and stays what it is, for those who look at its generation.
SameObject(n) ==
    /\ aep[n] # None /\ aep'[n] # None
    /\ aep'[n].gen = aep[n].gen /\ aep'[n].spec = aep[n].spec /\ aep'[n].deleting = aep[n].deleting

LEMMA StartStep ==
    ASSUME AgentTypeOK, NEW r \in Replicas, NEW n \in AepNames, StartEndpoint(r, n)
    PROVE  /\ AgentTypeOK'
           /\ aepWork[r].pc = "idle"
           /\ OthersAtWork(r) /\ OthersQueued(r)
           /\ aepQueue'[r] = aepQueue[r] \ {n}
           /\ \/ aepWork'[r].pc = "idle" /\ (aepSeen[r][n] # None => aepSeen[r][n].deleting)
              \/ /\ aepSeen[r][n] # None
                 /\ aepWork'[r].name = n /\ aepWork'[r].obj = aepSeen[r][n]
                 /\ \/ aepWork'[r].pc = "register" /\ ~aepSeen[r][n].deleting
                    \/ /\ aepWork'[r].pc = "domain"
                       /\ ~aepSeen[r][n].deleting /\ aepSeen[r][n].finalizer
                    \/ aepWork'[r].pc = "close" /\ aepSeen[r][n].deleting
           /\ UNCHANGED <<aep, input, dom, domNews, aepSeen, inputSeen, domSeen, forwarders, stopping, aepEvents>>
<1>1. UNCHANGED <<aep, input, dom, domNews, aepSeen, inputSeen, domSeen, forwarders, stopping, aepEvents>>
  BY Zenon DEF StartEndpoint, domVars, aepCaches
<1>2. aepWork[r].pc = "idle"
  BY NoWorkFacts, Zenon DEF StartEndpoint
<1>3. aepQueue \in [Replicas -> SUBSET AepNames]
  BY Zenon DEF AgentTypeOK
<1>4. aepQueue[r] \ {n} \in SUBSET AepNames
  BY <1>3, Zenon
<1>5. /\ aepQueue' \in [Replicas -> SUBSET AepNames]
      /\ aepQueue'[r] = aepQueue[r] \ {n}
      /\ OthersQueued(r)
  BY <1>3, <1>4, Zenon DEF StartEndpoint, OthersQueued
<1>6. PICK o : o = aepSeen[r][n]
  BY Zenon
<1>7. o # None => o \in Objects
  BY <1>6, StateTypes, Zenon
<1> DEFINE Go(pc) == [NoWork EXCEPT !.pc = pc, !.name = n, !.obj = o]
<1> DEFINE w == CASE o = None -> NoWork
                  [] o # None /\ ~o.deleting -> IF o.finalizer THEN Go("domain") ELSE Go("register")
                  [] OTHER -> IF o.finalizer THEN Go("close") ELSE NoWork
<1>8. Work(r, w)
  BY <1>6, Zenon DEF StartEndpoint
<1>9. o # None => \A pc \in AepSteps :
         /\ Go(pc) \in AepWorks
         /\ Go(pc).pc = pc /\ Go(pc).name = n /\ Go(pc).obj = o
  <2>1. SUFFICES ASSUME o # None, NEW pc \in AepSteps
                 PROVE  Go(pc) \in AepWorks /\ Go(pc).pc = pc /\ Go(pc).name = n /\ Go(pc).obj = o
    BY Zenon
  <2>2. Go(pc) \in AepWorks
    BY <1>7, <2>1, Zenon DEF NoWork, AepWorks, AepSteps
  <2>3. Go(pc).pc = pc /\ Go(pc).name = n /\ Go(pc).obj = o
    BY Zenon DEF NoWork
  <2>4. QED
    BY <2>2, <2>3, Zenon
<1>10. /\ w \in AepWorks \cup {NoWork}
       /\ \/ w.pc = "idle" /\ (o # None => o.deleting)
          \/ /\ o # None
             /\ w.name = n /\ w.obj = o
             /\ \/ w.pc = "register" /\ ~o.deleting
                \/ w.pc = "domain" /\ ~o.deleting /\ o.finalizer
                \/ w.pc = "close" /\ o.deleting
  <2>1. CASE o = None
    <3>1. w = NoWork
      BY <2>1, Zenon
    <3>2. QED
      BY <2>1, <3>1, NoWorkFacts, Zenon
  <2>2. CASE o # None /\ ~o.deleting
    <3>1. w = IF o.finalizer THEN Go("domain") ELSE Go("register")
      BY <2>2, Zenon
    <3>2. QED
      BY <1>9, <2>2, <3>1, Zenon DEF AepSteps
  <2>3. CASE o # None /\ o.deleting
    <3>1. w = IF o.finalizer THEN Go("close") ELSE NoWork
      BY <2>3, Zenon
    <3>2. QED
      BY <1>9, <2>3, <3>1, NoWorkFacts, Zenon DEF AepSteps
  <2>4. QED
    BY <2>1, <2>2, <2>3, Zenon
<1> HIDE DEF w, Go
<1>11. /\ aepWork' \in [Replicas -> AepWorks \cup {NoWork}]
       /\ aepWork'[r] = w
       /\ OthersAtWork(r)
  BY <1>8, <1>10, WorkStep, Zenon DEF OthersAtWork
<1>12. AgentTypeOK'
  BY <1>1, <1>5, <1>11, Zenon DEF AgentTypeOK
<1>13. QED
  BY <1>1, <1>2, <1>5, <1>6, <1>10, <1>11, <1>12, Zenon

\* The object is gone, or has the finalizer and is what the reconcile works on.
GivenUp(r, n) ==
    /\ aep[n] = None /\ aep' = aep
    /\ aepWork'[r].pc = "idle"
    /\ aepQueue'[r] = aepQueue[r] \cup {n}
Registered(r, n) ==
    /\ SameObject(n)
    /\ aep'[n].finalizer /\ aep'[n].domainRef = aep[n].domainRef
    /\ aepWork'[r].pc = "domain" /\ aepWork'[r].name = n /\ aepWork'[r].obj = aep'[n]
    /\ aepQueue'[r] = aepQueue[r]

LEMMA RegisterStep ==
    ASSUME AgentTypeOK, NEW r \in Replicas, RegisterEndpoint(r), NEW n, n = aepWork[r].name
    PROVE  /\ AgentTypeOK'
           /\ aepWork[r].pc = "register" /\ n \in AepNames
           /\ OthersAtWork(r) /\ OthersQueued(r) /\ OthersWritten(n)
           /\ GivenUp(r, n) \/ Registered(r, n)
           /\ UNCHANGED <<input, dom, domNews, aepSeen, inputSeen, domSeen, forwarders, stopping, aepEvents>>
<1>1. UNCHANGED <<input, dom, domNews, aepSeen, inputSeen, domSeen, forwarders, stopping, aepEvents>>
  BY Zenon DEF RegisterEndpoint, domVars, aepCaches
<1>2. aepWork[r].pc = "register"
  BY Zenon DEF RegisterEndpoint
<1>3. aepWork[r].pc # "idle"
  BY <1>2
<1>4. PICK w \in AepWorks : aepWork[r] = w
  BY <1>3, StateTypes, Zenon
<1>5. n \in AepNames /\ w.name = n
  BY <1>3, <1>4, StateTypes, Zenon
<1>6. CASE aep[n] = None
  <2>1. Retry(r) /\ aep' = aep
    BY <1>6, Zenon DEF RegisterEndpoint
  <2>2. /\ aepWork' \in [Replicas -> AepWorks \cup {NoWork}]
        /\ aepWork'[r].pc = "idle"
        /\ OthersAtWork(r)
        /\ aepQueue' \in [Replicas -> SUBSET AepNames]
        /\ aepQueue'[r] = aepQueue[r] \cup {n}
        /\ OthersQueued(r)
    BY <1>3, <2>1, RetryStep, Zenon DEF OthersAtWork, OthersQueued
  <2>3. AgentTypeOK'
    BY <1>1, <2>1, <2>2, Zenon DEF AgentTypeOK
  <2>4. QED
    BY <1>1, <1>2, <1>5, <1>6, <2>1, <2>2, <2>3, Zenon DEF OthersWritten, GivenUp
<1>7. CASE aep[n] # None
  <2>1. PICK a \in Objects : aep[n] = a
    BY <1>5, <1>7, StateTypes, Zenon
  <2> DEFINE o == [a EXCEPT !.finalizer = TRUE]
             v == [w EXCEPT !.pc = "domain", !.obj = o]
  <2>2. /\ aep' = [aep EXCEPT ![n] = o]
        /\ Work(r, v)
        /\ aepQueue' = aepQueue
    BY <1>4, <1>7, <2>1, Zenon DEF RegisterEndpoint
  <2>3. o \in Objects
    BY Zenon DEF Objects
  <2>4. o.gen = a.gen /\ o.spec = a.spec /\ o.deleting = a.deleting /\ o.finalizer /\ o.domainRef = a.domainRef
    BY Zenon DEF Objects
  <2>5. v \in AepWorks
    BY <2>3, Zenon DEF AepWorks
  <2>6. v.pc = "domain" /\ v.name = w.name /\ v.obj = o
    BY Zenon DEF AepWorks
  <2>7. o # None
    BY <2>3, AgentAssumption, Zenon
  <2> HIDE DEF o, v
  <2>8. /\ aep' \in [AepNames -> Objects \cup {None}]
        /\ aep'[n] = o
        /\ OthersWritten(n)
    BY <1>5, <2>2, <2>3, WriteStep, Zenon DEF OthersWritten
  <2>9. /\ aepWork' \in [Replicas -> AepWorks \cup {NoWork}]
        /\ aepWork'[r] = v
        /\ OthersAtWork(r)
    BY <2>2, <2>5, WorkStep, Zenon DEF OthersAtWork
  <2>10. AgentTypeOK'
    BY <1>1, <2>2, <2>8, <2>9, Zenon DEF AgentTypeOK
  <2>11. SameObject(n)
    BY <1>7, <2>1, <2>4, <2>7, <2>8, Zenon DEF SameObject
  <2>12. QED
    BY <1>1, <1>2, <1>5, <2>1, <2>2, <2>4, <2>6, <2>8, <2>9, <2>10, <2>11, Zenon DEF OthersQueued, Registered
<1>8. QED
  BY <1>6, <1>7, Zenon

\* The reconcile of r goes on with the same endpoint and the same spec.
GoesOn(r) ==
    /\ aepWork'[r].name = aepWork[r].name
    /\ aepWork'[r].obj.gen = aepWork[r].obj.gen
    /\ aepWork'[r].obj.spec = aepWork[r].obj.spec
    /\ aepWork'[r].obj.deleting = aepWork[r].obj.deleting

\* The Domain changes only with news for every replica.
DomainNews == \A q \in Replicas : q \notin domNews' => q \notin domNews /\ dom' = dom

LEMMA EnsureDomainStep ==
    ASSUME AgentTypeOK, NEW r \in Replicas, EnsureDomainExists(r)
    PROVE  /\ AgentTypeOK'
           /\ aepWork[r].pc = "domain"
           /\ OthersAtWork(r) /\ GoesOn(r) /\ DomainNews
           /\ \/ /\ aepWork'[r].pc = "resolve"
                 /\ aepWork[r].obj.spec.url = "public" => aepWork'[r].obj.domainRef
              \/ aepWork'[r].pc = "status" /\ aepWork'[r].after = "again"
           /\ aepWork[r].obj.spec.url = "public" => domSeen[r] # None \/ dom' # None
           /\ UNCHANGED <<aep, input, aepSeen, inputSeen, domSeen, aepQueue, forwarders, stopping, aepEvents>>
<1>1. UNCHANGED <<aep, input, aepSeen, inputSeen, domSeen, aepQueue, forwarders, stopping, aepEvents>>
  BY Zenon DEF EnsureDomainExists, aepCaches
<1>2. aepWork[r].pc = "domain"
  BY Zenon DEF EnsureDomainExists
<1>3. aepWork[r].pc # "idle"
  BY <1>2
<1>4. PICK w \in AepWorks : aepWork[r] = w
  BY <1>3, StateTypes, Zenon
<1>5. PICK o \in Objects : o = w.obj
  BY <1>4, AepWorkTypes, Zenon
<1> DEFINE Ref(b) == [o EXCEPT !.domainRef = b]
           t == Ref(TRUE)
           f == Ref(FALSE)
<1>6. t \in Objects
  BY Zenon DEF Objects
<1>7. t.gen = o.gen /\ t.spec = o.spec /\ t.deleting = o.deleting /\ t.domainRef
  BY Zenon DEF Objects
<1>8. f \in Objects
  BY Zenon DEF Objects
<1>9. f.gen = o.gen /\ f.spec = o.spec /\ f.deleting = o.deleting
  BY Zenon DEF Objects
<1>10. dom \in Domains \cup {None} /\ domSeen[r] \in Domains \cup {None} /\ domNews \subseteq Replicas
  BY Zenon DEF AgentTypeOK
<1>11. \/ /\ checkSkippedDomains(o)
          /\ IF o.spec.url = "kubernetes" THEN deleteStaleBindingDomain(o) ELSE UNCHANGED domVars
          /\ Then(r, "resolve", f, "done")
       \/ getOrCreateDomain(r, t)
  BY <1>4, <1>5, Zenon DEF EnsureDomainExists
<1> HIDE DEF t, f, Ref
<1>12. "resolve" \in AepSteps /\ "status" \in AepSteps /\ "done" \in Ends /\ "again" \in Ends
  BY Zenon DEF AepSteps, Ends
<1>13. UNCHANGED domVars => dom' \in Domains \cup {None} /\ domNews' \subseteq Replicas /\ DomainNews
  BY <1>10, Zenon DEF domVars, DomainNews
<1>14. CASE /\ checkSkippedDomains(o)
            /\ IF o.spec.url = "kubernetes" THEN deleteStaleBindingDomain(o) ELSE UNCHANGED domVars
            /\ Then(r, "resolve", f, "done")
  <2>0. Then(r, "resolve", f, "done")
    BY <1>14
  <2>1. /\ aepWork' \in [Replicas -> AepWorks \cup {NoWork}]
        /\ aepWork'[r].pc = "resolve" /\ aepWork'[r].name = aepWork[r].name
        /\ aepWork'[r].obj = f /\ aepWork'[r].content = aepWork[r].content
        /\ aepWork'[r].after = "done"
        /\ OthersAtWork(r)
    BY <1>3, <1>8, <1>12, <2>0, ThenStep, Zenon
  <2>2. o.spec.url # "public"
    BY <1>14 DEF checkSkippedDomains
  <2>3. dom' \in Domains \cup {None} /\ domNews' \subseteq Replicas /\ DomainNews
    <3>1. CASE o.spec.url = "kubernetes"
      <4> DEFINE d == IF o.domainRef /\ dom # None THEN [dom EXCEPT !.deleting = TRUE] ELSE dom
      <4>1. ChangeDomain(d)
        BY <1>14, <3>1, Zenon DEF deleteStaleBindingDomain
      <4>2. d \in Domains \cup {None}
        BY <1>10, DomainTypes, Zenon
      <4> HIDE DEF d
      <4>3. QED
        BY <4>1, <4>2, ChangeDomainStep, Zenon DEF DomainNews
    <3>2. CASE o.spec.url # "kubernetes"
      BY <1>13, <1>14, <3>2, Zenon
    <3>3. QED
      BY <3>1, <3>2, Zenon
  <2>4. AgentTypeOK'
    BY <1>1, <2>1, <2>3, Zenon DEF AgentTypeOK
  <2>5. GoesOn(r)
    BY <1>4, <1>5, <1>9, <2>1, Zenon DEF GoesOn
  <2>6. QED
    BY <1>1, <1>2, <1>4, <1>5, <2>1, <2>2, <2>3, <2>4, <2>5, Zenon
<1>15. CASE getOrCreateDomain(r, t)
  <2>1. CASE /\ domSeen[r] # None
             /\ Then(r, "resolve", t, checkExistingDomain(domSeen[r]))
             /\ UNCHANGED domVars
    <3>0. PICK a \in Ends : Then(r, "resolve", t, a)
      BY <2>1, Zenon DEF checkExistingDomain, Ends
    <3>2. /\ aepWork' \in [Replicas -> AepWorks \cup {NoWork}]
          /\ aepWork'[r].pc = "resolve" /\ aepWork'[r].name = aepWork[r].name
          /\ aepWork'[r].obj = t /\ aepWork'[r].content = aepWork[r].content
          /\ aepWork'[r].after = a
          /\ OthersAtWork(r)
      BY <1>3, <1>6, <1>12, <3>0, ThenStep, Zenon
    <3>3. AgentTypeOK'
      BY <1>1, <1>13, <2>1, <3>2, Zenon DEF AgentTypeOK
    <3>4. GoesOn(r)
      BY <1>4, <1>5, <1>7, <3>2, Zenon DEF GoesOn
    <3>5. QED
      BY <1>1, <1>2, <1>7, <1>13, <2>1, <3>2, <3>3, <3>4, Zenon
  <2>2. CASE /\ domSeen[r] = None
             /\ createNewDomain
             /\ Then(r, "resolve", t, "again")
    <3>1. Then(r, "resolve", t, "again")
      BY <2>2
    <3>2. /\ aepWork' \in [Replicas -> AepWorks \cup {NoWork}]
          /\ aepWork'[r].pc = "resolve" /\ aepWork'[r].name = aepWork[r].name
          /\ aepWork'[r].obj = t /\ aepWork'[r].content = aepWork[r].content
          /\ aepWork'[r].after = "again"
          /\ OthersAtWork(r)
      BY <1>3, <1>6, <1>12, <3>1, ThenStep, Zenon
    <3> DEFINE d == [ready |-> FALSE, deleting |-> FALSE]
    <3>3. ChangeDomain(d)
      BY <2>2, Zenon DEF createNewDomain
    <3>4. d \in Domains /\ d # None
      <4>1. d \in Domains
        BY Zenon DEF Domains
      <4>2. QED
        BY <4>1, DomainTypes, Zenon
    <3> HIDE DEF d
    <3>5. dom' = d /\ domNews' \subseteq Replicas /\ DomainNews
      BY <3>3, <3>4, ChangeDomainStep, Zenon DEF DomainNews
    <3>6. AgentTypeOK'
      BY <1>1, <3>2, <3>4, <3>5, Zenon DEF AgentTypeOK
    <3>7. GoesOn(r)
      BY <1>4, <1>5, <1>7, <3>2, Zenon DEF GoesOn
    <3>8. QED
      BY <1>1, <1>2, <1>7, <3>2, <3>4, <3>5, <3>6, <3>7, Zenon
  <2>3. CASE /\ domSeen[r] = None /\ dom # None
             /\ Then(r, "status", aepWork[r].obj, "again")
             /\ UNCHANGED domVars
    <3>0. Then(r, "status", aepWork[r].obj, "again")
      BY <2>3
    <3>1. aepWork[r].obj \in Objects
      BY <1>4, <1>5, Zenon
    <3>2. /\ aepWork' \in [Replicas -> AepWorks \cup {NoWork}]
          /\ aepWork'[r].pc = "status" /\ aepWork'[r].name = aepWork[r].name
          /\ aepWork'[r].obj = aepWork[r].obj /\ aepWork'[r].content = aepWork[r].content
          /\ aepWork'[r].after = "again"
          /\ OthersAtWork(r)
      BY <1>3, <1>12, <3>0, <3>1, ThenStep, Zenon
    <3>3. AgentTypeOK'
      BY <1>1, <1>13, <2>3, <3>2, Zenon DEF AgentTypeOK
    <3>4. GoesOn(r)
      BY <3>2, Zenon DEF GoesOn
    <3>5. dom' = dom
      BY <2>3, Zenon DEF domVars
    <3>6. QED
      BY <1>1, <1>2, <1>13, <2>3, <3>2, <3>3, <3>4, <3>5, Zenon
  <2>4. QED
    BY <1>15, <2>1, <2>2, <2>3, Zenon DEF getOrCreateDomain
<1>16. QED
  BY <1>11, <1>14, <1>15, Zenon

LEMMA ResolveStep ==
    ASSUME AgentTypeOK, NEW r \in Replicas, Resolve(r)
    PROVE  /\ AgentTypeOK'
           /\ aepWork[r].pc = "resolve"
           /\ OthersAtWork(r) /\ GoesOn(r)
           /\ aepWork'[r].obj = aepWork[r].obj
           /\ \/ aepWork'[r].pc = "status" /\ aepWork'[r].after = "again"
              \/ /\ aepWork'[r].pc = "status"
                 /\ "policy" \in aepWork[r].obj.spec.refs /\ inputSeen[r]["policy"] = None
              \/ /\ aepWork'[r].pc = "forward"
                 /\ aepWork'[r].content \in InputContents
                 /\ \A i \in aepWork[r].obj.spec.refs : aepWork'[r].content[i] = inputSeen[r][i]
           /\ UNCHANGED <<aep, input, dom, domNews, aepSeen, inputSeen, domSeen, aepQueue, forwarders, stopping, aepEvents>>
<1>1. UNCHANGED <<aep, input, dom, domNews, aepSeen, inputSeen, domSeen, aepQueue, forwarders, stopping, aepEvents>>
  BY Zenon DEF Resolve, aepCaches, domVars
<1>2. aepWork[r].pc = "resolve"
  BY Zenon DEF Resolve
<1>3. aepWork[r].pc # "idle"
  BY <1>2
<1>4. PICK w \in AepWorks : aepWork[r] = w
  BY <1>3, StateTypes, Zenon
<1>5. w.obj \in Objects
  BY AepWorkTypes, Zenon
<1>6. w.obj.spec.refs \subseteq Inputs
  BY <1>5, ObjectTypes, AgentAssumption, Zenon
<1>7. PICK c : c = Fetched(r, w.obj)
  BY Zenon
<1>8. c \in InputContents
  <2>1. inputSeen[r] \in InputContents
    BY Zenon DEF AgentTypeOK, InputContents
  <2>2. QED
    BY <1>7, <2>1, Zenon DEF Fetched, InputContents
<1>9. \A i \in w.obj.spec.refs : c[i] = inputSeen[r][i]
  BY <1>6, <1>7, Zenon DEF Fetched
<1>10. \/ PolicyMissing(w.obj, c) /\ Then(r, "status", w.obj, "done")
       \/ Then(r, "status", w.obj, "again")
       \/ Work(r, [w EXCEPT !.pc = "forward", !.content = c])
  BY <1>4, <1>7, Zenon DEF Resolve
<1>11. "status" \in AepSteps /\ "done" \in Ends /\ "again" \in Ends
  BY Zenon DEF AepSteps, Ends
<1>12. CASE PolicyMissing(w.obj, c) /\ Then(r, "status", w.obj, "done")
  <2>0. Then(r, "status", w.obj, "done")
    BY <1>12
  <2>1. /\ aepWork' \in [Replicas -> AepWorks \cup {NoWork}]
        /\ aepWork'[r].pc = "status" /\ aepWork'[r].name = aepWork[r].name
        /\ aepWork'[r].obj = w.obj /\ aepWork'[r].content = aepWork[r].content
        /\ aepWork'[r].after = "done"
        /\ OthersAtWork(r)
    BY <1>3, <1>5, <1>11, <2>0, ThenStep, Zenon
  <2>2. "policy" \in w.obj.spec.refs /\ inputSeen[r]["policy"] = None
    BY <1>9, <1>12, Zenon DEF PolicyMissing
  <2>3. AgentTypeOK'
    BY <1>1, <2>1, Zenon DEF AgentTypeOK
  <2>4. QED
    BY <1>1, <1>2, <1>4, <2>1, <2>2, <2>3, Zenon DEF GoesOn
<1>13. CASE Then(r, "status", w.obj, "again")
  <2>1. /\ aepWork' \in [Replicas -> AepWorks \cup {NoWork}]
        /\ aepWork'[r].pc = "status" /\ aepWork'[r].name = aepWork[r].name
        /\ aepWork'[r].obj = w.obj /\ aepWork'[r].content = aepWork[r].content
        /\ aepWork'[r].after = "again"
        /\ OthersAtWork(r)
    BY <1>3, <1>5, <1>11, <1>13, ThenStep, Zenon
  <2>3. AgentTypeOK'
    BY <1>1, <2>1, Zenon DEF AgentTypeOK
  <2>4. QED
    BY <1>1, <1>2, <1>4, <2>1, <2>3, Zenon DEF GoesOn
<1>14. CASE Work(r, [w EXCEPT !.pc = "forward", !.content = c])
  <2> DEFINE v == [w EXCEPT !.pc = "forward", !.content = c]
  <2>1. v \in AepWorks
    BY <1>8, Zenon DEF AepWorks, InputContents
  <2>2. v.pc = "forward" /\ v.name = w.name /\ v.obj = w.obj /\ v.content = c
    BY Zenon DEF AepWorks
  <2>3. Work(r, v)
    BY <1>14
  <2> HIDE DEF v
  <2>4. /\ aepWork' \in [Replicas -> AepWorks \cup {NoWork}]
        /\ aepWork'[r] = v
        /\ OthersAtWork(r)
    BY <2>1, <2>3, WorkStep, Zenon DEF OthersAtWork
  <2>5. AgentTypeOK'
    BY <1>1, <2>4, Zenon DEF AgentTypeOK
  <2>6. QED
    BY <1>1, <1>2, <1>4, <1>8, <1>9, <2>2, <2>4, <2>5, Zenon DEF GoesOn
<1>15. QED
  BY <1>10, <1>12, <1>13, <1>14, Zenon

\* An old forwarder that is closed is still one.
LEMMA ClosedForwarder ==
    ASSUME NEW f \in Forwarders
    PROVE  /\ [f EXCEPT !.open = FALSE] \in Forwarders
           /\ [f EXCEPT !.open = FALSE] # None
<1>1. [f EXCEPT !.open = FALSE] \in Forwarders
  BY Zenon DEF Forwarders
<1>2. QED
  BY <1>1, AgentAssumption, Zenon

LEMMA CreateStep ==
    ASSUME AgentTypeOK, NEW r \in Replicas, CreateAgentEndpoint(r),
           aepWork[r].content \in InputContents, NEW n, n = aepWork[r].name
    PROVE  /\ AgentTypeOK'
           /\ aepWork[r].pc = "forward" /\ n \in AepNames
           /\ OthersAtWork(r) /\ GoesOn(r) /\ OthersForwarding(r, n)
           /\ aepWork'[r].pc = "status" /\ aepWork'[r].obj = aepWork[r].obj
           /\ \/ aepWork'[r].after = "again" /\ forwarders' = forwarders
              \/ "policy" \in aepWork[r].obj.spec.refs /\ aepWork[r].content["policy"] = "bad"
              \/ /\ forwarders'[r][n] # None
                 /\ forwarders'[r][n].open
                 /\ forwarders'[r][n].gen = aepWork[r].obj.gen
                 /\ forwarders'[r][n].content = aepWork[r].content
           /\ UNCHANGED <<aep, input, dom, domNews, aepSeen, inputSeen, domSeen, aepQueue, stopping, aepEvents>>
<1>1. UNCHANGED <<aep, input, dom, domNews, aepSeen, inputSeen, domSeen, aepQueue, stopping, aepEvents>>
  BY Zenon DEF CreateAgentEndpoint, aepCaches, domVars
<1>2. aepWork[r].pc = "forward"
  BY Zenon DEF CreateAgentEndpoint
<1>3. aepWork[r].pc # "idle"
  BY <1>2
<1>4. PICK w \in AepWorks : aepWork[r] = w
  BY <1>3, StateTypes, Zenon
<1>5. w.obj \in Objects /\ w.after \in Ends /\ w.name = n /\ n \in AepNames /\ w.content \in InputContents
  BY <1>4, AepWorkTypes, Zenon
<1>6. PICK old : old = forwarders[r][n]
  BY Zenon
<1>7. old # None => old \in Forwarders
  BY <1>5, <1>6, StateTypes, Zenon
<1> DEFINE closed == IF old = None THEN None ELSE [old EXCEPT !.open = FALSE]
           Keep(f) == forwarders' = [forwarders EXCEPT ![r][n] = f]
           Bad == "policy" \in w.obj.spec.refs /\ w.content["policy"] = "bad"
           New(p) == [gen |-> w.obj.gen, content |-> w.content, open |-> TRUE, pooled |-> p]
<1>8. closed \in Forwarders \cup {None}
  BY <1>7, ClosedForwarder, Zenon
<1>9. (CASE r \in stopping ->
              Then(r, "status", w.obj, "again") /\ UNCHANGED forwarders
         [] r \notin stopping /\ Bad -> Keep(closed) /\ Then(r, "status", w.obj, "done")
         [] OTHER -> \E p \in Pooling : Keep(New(p)) /\ Then(r, "status", w.obj, w.after))
  BY <1>4, <1>5, <1>6, Zenon DEF CreateAgentEndpoint
<1>10. "status" \in AepSteps /\ "done" \in Ends /\ "again" \in Ends
  BY Zenon DEF AepSteps, Ends
<1> HIDE DEF closed, New
<1>11. CASE r \in stopping
  <2>1. Then(r, "status", w.obj, "again") /\ forwarders' = forwarders
    BY <1>9, <1>11, Zenon
  <2>2. /\ aepWork' \in [Replicas -> AepWorks \cup {NoWork}]
        /\ aepWork'[r].pc = "status" /\ aepWork'[r].name = aepWork[r].name
        /\ aepWork'[r].obj = w.obj /\ aepWork'[r].content = aepWork[r].content
        /\ aepWork'[r].after = "again"
        /\ OthersAtWork(r)
    BY <1>3, <1>5, <1>10, <2>1, ThenStep, Zenon
  <2>3. AgentTypeOK'
    BY <1>1, <2>1, <2>2, Zenon DEF AgentTypeOK
  <2>4. QED
    BY <1>1, <1>2, <1>4, <1>5, <2>1, <2>2, <2>3, Zenon DEF GoesOn, OthersForwarding
<1>12. CASE r \notin stopping /\ Bad
  <2>1. Keep(closed)
    BY <1>9, <1>12, Zenon
  <2>2. Then(r, "status", w.obj, "done")
    BY <1>9, <1>12, Zenon
  <2>3. /\ aepWork' \in [Replicas -> AepWorks \cup {NoWork}]
        /\ aepWork'[r].pc = "status" /\ aepWork'[r].name = aepWork[r].name
        /\ aepWork'[r].obj = w.obj /\ aepWork'[r].content = aepWork[r].content
        /\ aepWork'[r].after = "done"
        /\ OthersAtWork(r)
    BY <1>3, <1>5, <1>10, <2>2, ThenStep, Zenon
  <2>4. /\ forwarders' \in [Replicas -> [AepNames -> Forwarders \cup {None}]]
        /\ forwarders'[r][n] = closed
        /\ OthersForwarding(r, n)
    BY <1>5, <1>8, <2>1, ForwarderStep, Zenon
  <2>5. AgentTypeOK'
    BY <1>1, <2>3, <2>4, Zenon DEF AgentTypeOK
  <2>6. QED
    BY <1>1, <1>2, <1>4, <1>5, <1>12, <2>3, <2>4, <2>5, Zenon DEF GoesOn
<1>13. CASE ~(r \in stopping) /\ ~Bad
  <2>1. PICK p \in Pooling : Keep(New(p)) /\ Then(r, "status", w.obj, w.after)
    BY <1>9, <1>13, Zenon
  <2>2. New(p) \in Forwarders
    <3>1. w.obj.gen \in 1..MaxAepEvents /\ p \in BOOLEAN
      BY <1>5, ObjectTypes, AgentAssumption, Zenon
    <3>2. QED
      BY <1>5, <3>1, Zenon DEF New, Forwarders, InputContents
  <2>3. New(p).open /\ New(p).gen = w.obj.gen /\ New(p).content = w.content
    BY Zenon DEF New
  <2>4. New(p) # None
    BY <2>2, AgentAssumption, Zenon
  <2>5. PICK f : f = New(p)
    BY Zenon
  <2>6. f \in Forwarders \cup {None} /\ Keep(f)
    BY <2>1, <2>2, <2>5, Zenon
  <2>7. Then(r, "status", w.obj, w.after)
    BY <2>1
  <2>8. /\ aepWork' \in [Replicas -> AepWorks \cup {NoWork}]
        /\ aepWork'[r].pc = "status" /\ aepWork'[r].name = aepWork[r].name
        /\ aepWork'[r].obj = w.obj /\ aepWork'[r].content = aepWork[r].content
        /\ aepWork'[r].after = w.after
        /\ OthersAtWork(r)
    BY <1>3, <1>5, <1>10, <2>7, ThenStep, Zenon
  <2>9. /\ forwarders' \in [Replicas -> [AepNames -> Forwarders \cup {None}]]
        /\ forwarders'[r][n] = f
        /\ OthersForwarding(r, n)
    BY <1>5, <2>6, ForwarderStep, Zenon
  <2>10. AgentTypeOK'
    BY <1>1, <2>8, <2>9, Zenon DEF AgentTypeOK
  <2>11. f # None /\ f.open /\ f.gen = w.obj.gen /\ f.content = w.content
    BY <2>3, <2>4, <2>5, Zenon
  <2>12. QED
    BY <1>1, <1>2, <1>4, <1>5, <2>8, <2>9, <2>10, <2>11, Zenon DEF GoesOn
<1>14. QED
  BY <1>11, <1>12, <1>13, Zenon

LEMMA ForwardFailsStep ==
    ASSUME AgentTypeOK, NEW r \in Replicas, ForwardFails(r), NEW n, n = aepWork[r].name
    PROVE  /\ AgentTypeOK'
           /\ aepWork[r].pc = "forward" /\ n \in AepNames
           /\ OthersAtWork(r) /\ GoesOn(r) /\ OthersForwarding(r, n)
           /\ aepWork'[r].pc = "status" /\ aepWork'[r].obj = aepWork[r].obj
           /\ aepWork'[r].after = "again"
           /\ aepEvents' = aepEvents + 1 /\ aepEvents \in Nat
           /\ UNCHANGED <<aep, input, dom, domNews, aepSeen, inputSeen, domSeen, aepQueue, stopping>>
<1>1. UNCHANGED <<aep, input, dom, domNews, aepSeen, inputSeen, domSeen, aepQueue, stopping>>
  BY Zenon DEF ForwardFails, aepCaches, domVars
<1>2. aepWork[r].pc = "forward"
  BY Zenon DEF ForwardFails
<1>3. aepWork[r].pc # "idle"
  BY <1>2
<1>4. PICK w \in AepWorks : aepWork[r] = w
  BY <1>3, StateTypes, Zenon
<1>5. w.obj \in Objects /\ w.name = n /\ n \in AepNames
  BY <1>4, AepWorkTypes, Zenon
<1>6. Then(r, "status", w.obj, "again")
  BY <1>4, Zenon DEF ForwardFails
<1>7. "status" \in AepSteps /\ "again" \in Ends
  BY Zenon DEF AepSteps, Ends
<1>8. /\ aepWork' \in [Replicas -> AepWorks \cup {NoWork}]
      /\ aepWork'[r].pc = "status" /\ aepWork'[r].name = aepWork[r].name
      /\ aepWork'[r].obj = w.obj /\ aepWork'[r].content = aepWork[r].content
      /\ aepWork'[r].after = "again"
      /\ OthersAtWork(r)
  BY <1>3, <1>5, <1>6, <1>7, ThenStep, Zenon
<1>9. aepEvents' \in 0..MaxAepEvents /\ aepEvents' = aepEvents + 1 /\ aepEvents \in Nat
  BY EventStep, Zenon DEF ForwardFails
<1>10. forwarders' \in [Replicas -> [AepNames -> Forwarders \cup {None}]] /\ OthersForwarding(r, n)
  <2>1. CASE forwarders' = forwarders
    BY <2>1, Zenon DEF AgentTypeOK, OthersForwarding
  <2>2. CASE /\ forwarders[r][n] # None
             /\ forwarders' = [forwarders EXCEPT ![r][n].open = FALSE]
    <3>1. PICK old \in Forwarders : forwarders[r][n] = old
      BY <1>5, <2>2, StateTypes, Zenon
    <3>2. PICK f : f = [old EXCEPT !.open = FALSE]
      BY Zenon
    <3>3. f \in Forwarders \cup {None}
      BY <3>2, ClosedForwarder, Zenon
    <3>4. forwarders' = [forwarders EXCEPT ![r][n] = f]
      BY <2>2, <3>1, <3>2, Zenon
    <3>5. /\ forwarders' \in [Replicas -> [AepNames -> Forwarders \cup {None}]]
          /\ forwarders'[r][n] = f
          /\ OthersForwarding(r, n)
      BY <1>5, <3>3, <3>4, ForwarderStep, Zenon
    <3>6. QED
      BY <3>5
  <2>3. QED
    BY <1>4, <1>5, <2>1, <2>2, Zenon DEF ForwardFails
<1>11. AgentTypeOK'
  BY <1>1, <1>8, <1>9, <1>10, Zenon DEF AgentTypeOK
<1>12. QED
  BY <1>1, <1>2, <1>4, <1>5, <1>8, <1>9, <1>10, <1>11, Zenon DEF GoesOn

LEMMA StatusStep ==
    ASSUME AgentTypeOK, NEW r \in Replicas, updateEndpointStatus(r), NEW n, n = aepWork[r].name
    PROVE  /\ AgentTypeOK'
           /\ aepWork[r].pc = "status" /\ n \in AepNames
           /\ OthersAtWork(r) /\ OthersQueued(r) /\ OthersWritten(n)
           /\ aepWork'[r].pc = "idle"
           /\ aepQueue[r] \subseteq aepQueue'[r]
           /\ \/ aep' = aep /\ n \in aepQueue'[r]
              \/ /\ SameObject(n)
                 /\ aep'[n].finalizer = aep[n].finalizer
                 /\ aep'[n].domainRef = aepWork[r].obj.domainRef
                 /\ aepWork[r].after = "again" => n \in aepQueue'[r]
           /\ UNCHANGED <<input, dom, domNews, aepSeen, inputSeen, domSeen, forwarders, stopping, aepEvents>>
<1>1. UNCHANGED <<input, dom, domNews, aepSeen, inputSeen, domSeen, forwarders, stopping, aepEvents>>
  BY Zenon DEF updateEndpointStatus, domVars, aepCaches
<1>2. aepWork[r].pc = "status"
  BY Zenon DEF updateEndpointStatus
<1>3. aepWork[r].pc # "idle"
  BY <1>2
<1>4. PICK w \in AepWorks : aepWork[r] = w
  BY <1>3, StateTypes, Zenon
<1>5. n \in AepNames /\ w.name = n /\ w.obj \in Objects
  BY <1>4, AepWorkTypes, Zenon
<1>6. aepQueue \in [Replicas -> SUBSET AepNames]
  BY Zenon DEF AgentTypeOK
<1>7. Retry(r) => /\ aepWork' \in [Replicas -> AepWorks \cup {NoWork}]
                  /\ aepWork'[r].pc = "idle"
                  /\ OthersAtWork(r)
                  /\ aepQueue' \in [Replicas -> SUBSET AepNames]
                  /\ aepQueue'[r] = aepQueue[r] \cup {n}
                  /\ OthersQueued(r)
  BY <1>3, RetryStep, Zenon DEF OthersAtWork, OthersQueued
<1>8. Finish(r) => /\ aepWork' \in [Replicas -> AepWorks \cup {NoWork}]
                   /\ aepWork'[r].pc = "idle"
                   /\ OthersAtWork(r)
                   /\ aepQueue' \in [Replicas -> SUBSET AepNames]
                   /\ aepQueue'[r] = aepQueue[r]
                   /\ OthersQueued(r)
  BY <1>6, FinishStep, Zenon DEF OthersAtWork, OthersQueued
<1>9. CASE aep' = aep /\ Retry(r)
  <2>1. AgentTypeOK'
    BY <1>1, <1>7, <1>9, Zenon DEF AgentTypeOK
  <2>2. QED
    BY <1>1, <1>2, <1>5, <1>7, <1>9, <2>1, Zenon DEF OthersWritten
<1>10. CASE /\ aep[n] # None
            /\ aep' = [aep EXCEPT ![n].domainRef = w.obj.domainRef]
            /\ IF w.after = "again" THEN Retry(r) ELSE Finish(r)
  <2>1. PICK a \in Objects : aep[n] = a
    BY <1>5, <1>10, StateTypes, Zenon
  <2>2. PICK b \in BOOLEAN : b = w.obj.domainRef
    BY <1>5, ObjectTypes, Zenon
  <2> DEFINE o == [a EXCEPT !.domainRef = b]
  <2>3. o \in Objects
    BY Zenon DEF Objects
  <2>4. o.gen = a.gen /\ o.spec = a.spec /\ o.deleting = a.deleting /\ o.finalizer = a.finalizer /\ o.domainRef = b
    BY Zenon DEF Objects
  <2>5. aep' = [aep EXCEPT ![n] = o]
    BY <1>10, <2>1, <2>2, Zenon
  <2>6. o # None
    BY <2>3, AgentAssumption, Zenon
  <2> HIDE DEF o
  <2>7. /\ aep' \in [AepNames -> Objects \cup {None}]
        /\ aep'[n] = o
        /\ OthersWritten(n)
    BY <1>5, <2>3, <2>5, WriteStep, Zenon DEF OthersWritten
  <2>8. SameObject(n)
    BY <1>10, <2>1, <2>4, <2>6, <2>7, Zenon DEF SameObject
  <2>9. /\ aepWork' \in [Replicas -> AepWorks \cup {NoWork}]
        /\ aepWork'[r].pc = "idle"
        /\ OthersAtWork(r)
        /\ aepQueue' \in [Replicas -> SUBSET AepNames]
        /\ aepQueue[r] \subseteq aepQueue'[r]
        /\ OthersQueued(r)
        /\ w.after = "again" => n \in aepQueue'[r]
    BY <1>7, <1>8, <1>10, Zenon
  <2>10. AgentTypeOK'
    BY <1>1, <2>7, <2>9, Zenon DEF AgentTypeOK
  <2>11. aep'[n].finalizer = aep[n].finalizer /\ aep'[n].domainRef = w.obj.domainRef
    BY <2>1, <2>2, <2>4, <2>7, Zenon
  <2>12. QED
    BY <1>1, <1>2, <1>4, <1>5, <2>7, <2>8, <2>9, <2>10, <2>11, Zenon
<1>11. QED
  BY <1>4, <1>5, <1>9, <1>10, Zenon DEF updateEndpointStatus

LEMMA CloseStep ==
    ASSUME AgentTypeOK, NEW r \in Replicas, DeleteAgentEndpoint(r), NEW n, n = aepWork[r].name
    PROVE  /\ AgentTypeOK'
           /\ aepWork[r].pc = "close" /\ n \in AepNames
           /\ OthersAtWork(r) /\ GoesOn(r) /\ OthersForwarding(r, n)
           /\ aepWork'[r].pc = "unregister"
           /\ forwarders'[r][n] = None
           /\ UNCHANGED <<aep, input, dom, domNews, aepSeen, inputSeen, domSeen, aepQueue, stopping, aepEvents>>
<1>1. UNCHANGED <<aep, input, dom, domNews, aepSeen, inputSeen, domSeen, aepQueue, stopping, aepEvents>>
  BY Zenon DEF DeleteAgentEndpoint, domVars, aepCaches
<1>2. aepWork[r].pc = "close"
  BY Zenon DEF DeleteAgentEndpoint
<1>3. aepWork[r].pc # "idle"
  BY <1>2
<1>4. PICK w \in AepWorks : aepWork[r] = w
  BY <1>3, StateTypes, Zenon
<1>5. n \in AepNames /\ w.name = n
  BY <1>4, AepWorkTypes, Zenon
<1> DEFINE v == [w EXCEPT !.pc = "unregister"]
<1>6. v \in AepWorks
  BY Zenon DEF AepWorks
<1>7. v.pc = "unregister" /\ v.name = w.name /\ v.obj = w.obj
  BY Zenon DEF AepWorks
<1>8. Work(r, v)
  BY <1>4, Zenon DEF DeleteAgentEndpoint
<1> HIDE DEF v
<1>9. /\ aepWork' \in [Replicas -> AepWorks \cup {NoWork}]
      /\ aepWork'[r] = v
      /\ OthersAtWork(r)
  BY <1>6, <1>8, WorkStep, Zenon DEF OthersAtWork
<1>10. forwarders' = [forwarders EXCEPT ![r][n] = None]
  BY Zenon DEF DeleteAgentEndpoint
<1>11. None \in Forwarders \cup {None}
  BY Zenon
<1>12. /\ forwarders' \in [Replicas -> [AepNames -> Forwarders \cup {None}]]
       /\ forwarders'[r][n] = None
       /\ OthersForwarding(r, n)
  BY <1>5, <1>10, <1>11, ForwarderStep, Zenon
<1>13. AgentTypeOK'
  BY <1>1, <1>9, <1>12, Zenon DEF AgentTypeOK
<1>14. QED
  BY <1>1, <1>2, <1>4, <1>5, <1>7, <1>9, <1>12, <1>13, Zenon DEF GoesOn

LEMMA CloseFailsStep ==
    ASSUME AgentTypeOK, NEW r \in Replicas, CloseFails(r), NEW n, n = aepWork[r].name
    PROVE  /\ AgentTypeOK'
           /\ aepWork[r].pc = "close" /\ n \in AepNames
           /\ OthersAtWork(r) /\ OthersQueued(r)
           /\ aepWork'[r].pc = "idle"
           /\ aepQueue'[r] = aepQueue[r] \cup {n}
           /\ aepEvents' = aepEvents + 1 /\ aepEvents \in Nat
           /\ UNCHANGED <<aep, input, dom, domNews, aepSeen, inputSeen, domSeen, forwarders, stopping>>
<1>1. UNCHANGED <<aep, input, dom, domNews, aepSeen, inputSeen, domSeen, forwarders, stopping>>
  BY Zenon DEF CloseFails, domVars, aepCaches
<1>2. aepWork[r].pc = "close"
  BY Zenon DEF CloseFails
<1>3. aepWork[r].pc # "idle"
  BY <1>2
<1>4. n \in AepNames
  BY <1>3, StateTypes, Zenon
<1>5. /\ aepWork' \in [Replicas -> AepWorks \cup {NoWork}]
      /\ aepWork'[r].pc = "idle"
      /\ OthersAtWork(r)
      /\ aepQueue' \in [Replicas -> SUBSET AepNames]
      /\ aepQueue'[r] = aepQueue[r] \cup {n}
      /\ OthersQueued(r)
  BY <1>3, RetryStep, Zenon DEF CloseFails, OthersAtWork, OthersQueued
<1>6. aepEvents' \in 0..MaxAepEvents /\ aepEvents' = aepEvents + 1 /\ aepEvents \in Nat
  BY EventStep, Zenon DEF CloseFails
<1>7. AgentTypeOK'
  BY <1>1, <1>5, <1>6, Zenon DEF AgentTypeOK
<1>8. QED
  BY <1>1, <1>2, <1>4, <1>5, <1>6, <1>7, Zenon

LEMMA UnregisterStep ==
    ASSUME AgentTypeOK, NEW r \in Replicas, Unregister(r), NEW n, n = aepWork[r].name
    PROVE  /\ AgentTypeOK'
           /\ aepWork[r].pc = "unregister" /\ n \in AepNames
           /\ OthersAtWork(r) /\ OthersQueued(r) /\ OthersWritten(n)
           /\ aepWork'[r].pc = "idle"
           /\ \/ aep[n] = None /\ aep' = aep /\ aepQueue'[r] = aepQueue[r] \cup {n}
              \/ aep[n] # None /\ aep[n].deleting /\ aep'[n] = None /\ aepQueue'[r] = aepQueue[r]
              \/ /\ SameObject(n) /\ ~aep[n].deleting
                 /\ ~aep'[n].finalizer /\ aep'[n].domainRef = aep[n].domainRef
                 /\ aepQueue'[r] = aepQueue[r]
           /\ UNCHANGED <<input, dom, domNews, aepSeen, inputSeen, domSeen, forwarders, stopping, aepEvents>>
<1>1. UNCHANGED <<input, dom, domNews, aepSeen, inputSeen, domSeen, forwarders, stopping, aepEvents>>
  BY Zenon DEF Unregister, domVars, aepCaches
<1>2. aepWork[r].pc = "unregister"
  BY Zenon DEF Unregister
<1>3. aepWork[r].pc # "idle"
  BY <1>2
<1>4. n \in AepNames
  BY <1>3, StateTypes, Zenon
<1>5. CASE aep[n] = None
  <2>1. Retry(r) /\ aep' = aep
    BY <1>5, Zenon DEF Unregister
  <2>2. /\ aepWork' \in [Replicas -> AepWorks \cup {NoWork}]
        /\ aepWork'[r].pc = "idle"
        /\ OthersAtWork(r)
        /\ aepQueue' \in [Replicas -> SUBSET AepNames]
        /\ aepQueue'[r] = aepQueue[r] \cup {n}
        /\ OthersQueued(r)
    BY <1>3, <2>1, RetryStep, Zenon DEF OthersAtWork, OthersQueued
  <2>3. AgentTypeOK'
    BY <1>1, <2>1, <2>2, Zenon DEF AgentTypeOK
  <2>4. QED
    BY <1>1, <1>2, <1>4, <1>5, <2>1, <2>2, <2>3, Zenon DEF OthersWritten
<1>6. CASE aep[n] # None
  <2>1. PICK a \in Objects : aep[n] = a
    BY <1>4, <1>6, StateTypes, Zenon
  <2> DEFINE o == [a EXCEPT !.finalizer = FALSE]
             x == IF a.deleting THEN None ELSE o
  <2>2. aep' = [aep EXCEPT ![n] = x] /\ Finish(r)
    BY <1>6, <2>1, Zenon DEF Unregister
  <2>3. o \in Objects
    BY Zenon DEF Objects
  <2>4. o.gen = a.gen /\ o.spec = a.spec /\ o.deleting = a.deleting /\ ~o.finalizer /\ o.domainRef = a.domainRef
    BY Zenon DEF Objects
  <2>5. x \in Objects \cup {None} /\ (a.deleting => x = None) /\ (~a.deleting => x = o)
    BY <2>3, Zenon
  <2>6. o # None
    BY <2>3, AgentAssumption, Zenon
  <2> HIDE DEF o, x
  <2>7. /\ aep' \in [AepNames -> Objects \cup {None}]
        /\ aep'[n] = x
        /\ OthersWritten(n)
    BY <1>4, <2>2, <2>5, WriteStep, Zenon DEF OthersWritten
  <2>8. ~a.deleting => SameObject(n)
    BY <1>6, <2>1, <2>4, <2>5, <2>6, <2>7, Zenon DEF SameObject
  <2>9. /\ aepWork' \in [Replicas -> AepWorks \cup {NoWork}]
        /\ aepWork'[r].pc = "idle"
        /\ OthersAtWork(r)
        /\ aepQueue' = aepQueue
    BY <2>2, FinishStep, Zenon DEF OthersAtWork
  <2>10. AgentTypeOK'
    BY <1>1, <2>7, <2>9, Zenon DEF AgentTypeOK
  <2>11. ~a.deleting => ~aep'[n].finalizer /\ aep'[n].domainRef = aep[n].domainRef
    BY <2>1, <2>4, <2>5, <2>7, Zenon
  <2>12. QED
    BY <1>1, <1>2, <1>4, <1>6, <2>1, <2>5, <2>7, <2>8, <2>9, <2>10, <2>11, Zenon DEF OthersQueued
<1>7. QED
  BY <1>5, <1>6, Zenon

LEMMA WriteObjectStep ==
    ASSUME AgentTypeOK, NEW n \in AepNames, WriteObject(n)
    PROVE  /\ AgentTypeOK'
           /\ OthersWritten(n)
           /\ aep'[n] # None /\ aep'[n].gen = aepEvents + 1 /\ ~aep'[n].deleting
           /\ aep[n] # None => ~aep[n].deleting /\ aep'[n].finalizer = aep[n].finalizer
           /\ aep[n] = None => ~aep'[n].finalizer
           /\ aepEvents' = aepEvents + 1 /\ aepEvents \in Nat
           /\ UNCHANGED <<input, dom, domNews, aepSeen, inputSeen, domSeen, aepQueue, aepWork, forwarders, stopping>>
<1>1. UNCHANGED <<input, dom, domNews, aepSeen, inputSeen, domSeen, aepQueue, aepWork, forwarders, stopping>>
  BY Zenon DEF WriteObject, domVars, aepCaches
<1>2. aepEvents' \in 0..MaxAepEvents /\ aepEvents' = aepEvents + 1
      /\ aepEvents' \in 1..MaxAepEvents /\ aepEvents \in Nat
  BY EventStep, Zenon DEF WriteObject
<1>3. PICK g \in 1..MaxAepEvents : g = aepEvents + 1
  BY <1>2, Zenon
<1>4. PICK s \in AepSpecs :
        aep' = [aep EXCEPT ![n] =
             IF aep[n] = None
             THEN [gen |-> g, spec |-> s, finalizer |-> FALSE, deleting |-> FALSE,
                   domainRef |-> FALSE]
             ELSE [aep[n] EXCEPT !.gen = g, !.spec = s]]
  BY <1>3, Zenon DEF WriteObject
<1>5. aep[n] # None => ~aep[n].deleting
  BY Zenon DEF WriteObject
<1>6. PICK o \in Objects :
         /\ aep' = [aep EXCEPT ![n] = o]
         /\ o.gen = g /\ ~o.deleting
         /\ aep[n] # None => o.finalizer = aep[n].finalizer
         /\ aep[n] = None => ~o.finalizer
  <2>1. CASE aep[n] = None
    <3> DEFINE o == [gen |-> g, spec |-> s, finalizer |-> FALSE, deleting |-> FALSE,
                     domainRef |-> FALSE]
    <3>1. o \in Objects
      BY Zenon DEF Objects
    <3>2. o.gen = g /\ ~o.deleting /\ ~o.finalizer
      BY Zenon
    <3>3. aep' = [aep EXCEPT ![n] = o]
      BY <1>4, <2>1, Zenon
    <3> HIDE DEF o
    <3>4. QED
      BY <2>1, <3>1, <3>2, <3>3, Zenon
  <2>2. CASE aep[n] # None
    <3>1. PICK a \in Objects : aep[n] = a
      BY <2>2, StateTypes, Zenon
    <3> DEFINE o == [a EXCEPT !.gen = g, !.spec = s]
    <3>2. o \in Objects
      BY Zenon DEF Objects
    <3>3. o.gen = g /\ o.deleting = a.deleting /\ o.finalizer = a.finalizer
      BY Zenon DEF Objects
    <3>4. aep' = [aep EXCEPT ![n] = o]
      BY <1>4, <2>2, <3>1, Zenon
    <3> HIDE DEF o
    <3>5. QED
      BY <1>5, <2>2, <3>1, <3>2, <3>3, <3>4, Zenon
  <2>3. QED
    BY <2>1, <2>2, Zenon
<1>7. /\ aep' \in [AepNames -> Objects \cup {None}]
      /\ aep'[n] = o
      /\ OthersWritten(n)
  BY <1>6, WriteStep, Zenon DEF OthersWritten
<1>8. AgentTypeOK'
  BY <1>1, <1>2, <1>7, Zenon DEF AgentTypeOK
<1>9. o # None
  BY <1>6, AgentAssumption, Zenon
<1>10. QED
  BY <1>1, <1>2, <1>3, <1>5, <1>6, <1>7, <1>8, <1>9, Zenon

LEMMA DeleteObjectStep ==
    ASSUME AgentTypeOK, NEW n \in AepNames, DeleteObject(n)
    PROVE  /\ AgentTypeOK'
           /\ OthersWritten(n)
           /\ aep[n] # None /\ ~aep[n].deleting
           /\ \/ ~aep[n].finalizer /\ aep'[n] = None
              \/ /\ aep[n].finalizer
                 /\ aep'[n] # None /\ aep'[n].deleting /\ aep'[n].finalizer
                 /\ aep'[n].gen = aep[n].gen /\ aep'[n].spec = aep[n].spec
           /\ aepEvents' = aepEvents + 1 /\ aepEvents \in Nat
           /\ UNCHANGED <<input, dom, domNews, aepSeen, inputSeen, domSeen, aepQueue, aepWork, forwarders, stopping>>
<1>1. UNCHANGED <<input, dom, domNews, aepSeen, inputSeen, domSeen, aepQueue, aepWork, forwarders, stopping>>
  BY Zenon DEF DeleteObject, domVars, aepCaches
<1>2. aepEvents' \in 0..MaxAepEvents /\ aepEvents' = aepEvents + 1 /\ aepEvents \in Nat
  BY EventStep, Zenon DEF DeleteObject
<1>3. aep[n] # None /\ ~aep[n].deleting
  BY Zenon DEF DeleteObject
<1>4. PICK a \in Objects : aep[n] = a
  BY <1>3, StateTypes, Zenon
<1> DEFINE o == [a EXCEPT !.deleting = TRUE]
           x == IF a.finalizer THEN o ELSE None
<1>5. aep' = [aep EXCEPT ![n] = x]
  BY <1>4, Zenon DEF DeleteObject
<1>6. o \in Objects
  BY Zenon DEF Objects
<1>7. o.gen = a.gen /\ o.spec = a.spec /\ o.deleting /\ o.finalizer = a.finalizer
  BY Zenon DEF Objects
<1>8. x \in Objects \cup {None} /\ (a.finalizer => x = o) /\ (~a.finalizer => x = None)
  BY <1>6, Zenon
<1>9. o # None
  BY <1>6, AgentAssumption, Zenon
<1> HIDE DEF o, x
<1>10. /\ aep' \in [AepNames -> Objects \cup {None}]
       /\ aep'[n] = x
       /\ OthersWritten(n)
  BY <1>5, <1>8, WriteStep, Zenon DEF OthersWritten
<1>11. AgentTypeOK'
  BY <1>1, <1>2, <1>10, Zenon DEF AgentTypeOK
<1>12. a.finalizer \in BOOLEAN
  BY Zenon DEF Objects
<1>13. QED
  BY <1>1, <1>2, <1>3, <1>4, <1>7, <1>8, <1>9, <1>10, <1>11, <1>12, Zenon

LEMMA WriteInputStep ==
    ASSUME AgentTypeOK, NEW i \in Inputs, WriteInput(i)
    PROVE  /\ AgentTypeOK'
           /\ aepEvents' = aepEvents + 1 /\ aepEvents \in Nat
           /\ UNCHANGED <<aep, dom, domNews, aepSeen, inputSeen, domSeen, aepQueue, aepWork, forwarders, stopping>>
<1>1. UNCHANGED <<aep, dom, domNews, aepSeen, inputSeen, domSeen, aepQueue, aepWork, forwarders, stopping>>
  BY Zenon DEF WriteInput, domVars, aepCaches
<1>2. aepEvents' \in 0..MaxAepEvents /\ aepEvents' = aepEvents + 1 /\ aepEvents \in Nat
  BY EventStep, Zenon DEF WriteInput
<1>3. input' \in [Inputs -> Contents \cup {None}]
  BY Zenon DEF WriteInput, AgentTypeOK
<1>4. AgentTypeOK'
  BY <1>1, <1>2, <1>3, Zenon DEF AgentTypeOK
<1>5. QED
  BY <1>1, <1>2, <1>4, Zenon

LEMMA DomainChangeStep ==
    ASSUME AgentTypeOK, DomainStep \/ DeleteDomain
    PROVE  /\ AgentTypeOK'
           /\ DomainNews
           /\ aepEvents' = aepEvents \/ aepEvents' = aepEvents + 1
           /\ aepEvents \in Nat
           /\ UNCHANGED <<aep, input, aepSeen, inputSeen, domSeen, aepQueue, aepWork, forwarders, stopping>>
<1>1. UNCHANGED <<aep, input, aepSeen, inputSeen, domSeen, aepQueue, aepWork, forwarders, stopping>>
  BY Zenon DEF DomainStep, DeleteDomain, aepCaches
<1>2. /\ aepEvents' \in 0..MaxAepEvents /\ aepEvents \in Nat
      /\ aepEvents' = aepEvents \/ aepEvents' = aepEvents + 1
  <2>1. aepEvents \in 0..MaxAepEvents /\ aepEvents \in Nat
    BY AgentAssumption DEF AgentTypeOK
  <2>2. CASE aepEvents' = aepEvents
    BY <2>1, <2>2, Zenon
  <2>3. CASE AepEvent
    BY <2>3, EventStep, Zenon
  <2>4. QED
    BY <2>2, <2>3, Zenon DEF DomainStep, DeleteDomain
<1>3. PICK d \in Domains \cup {None} : ChangeDomain(d)
  <2>1. PICK e \in Domains : dom = e
    BY Zenon DEF DomainStep, DeleteDomain, AgentTypeOK
  <2>2. ChangeDomain([e EXCEPT !.ready = TRUE]) \/ ChangeDomain(None) \/ ChangeDomain([e EXCEPT !.deleting = TRUE])
    BY <2>1, Zenon DEF DomainStep, DeleteDomain
  <2>3. QED
    BY <2>2, DomainTypes, Zenon
<1>4. /\ dom' = d
      /\ domNews' \in SUBSET Replicas
      /\ DomainNews
  BY <1>3, ChangeDomainStep, Zenon DEF DomainNews
<1>5. AgentTypeOK'
  BY <1>1, <1>2, <1>3, <1>4, Zenon DEF AgentTypeOK
<1>6. QED
  BY <1>1, <1>2, <1>4, <1>5, Zenon

LEMMA StopAgentStep ==
    ASSUME AgentTypeOK, NEW r \in Replicas, StopAgent(r)
    PROVE  /\ AgentTypeOK'
           /\ aepEvents' = aepEvents + 1 /\ aepEvents \in Nat
           /\ UNCHANGED <<aep, input, dom, domNews, aepSeen, inputSeen, domSeen, aepQueue, aepWork, forwarders>>
<1>1. UNCHANGED <<aep, input, dom, domNews, aepSeen, inputSeen, domSeen, aepQueue, aepWork, forwarders>>
  BY Zenon DEF StopAgent, domVars, aepCaches
<1>2. aepEvents' \in 0..MaxAepEvents /\ aepEvents' = aepEvents + 1 /\ aepEvents \in Nat
  BY EventStep, Zenon DEF StopAgent
<1>3. stopping' \subseteq Replicas
  BY Zenon DEF StopAgent, AgentTypeOK
<1>4. AgentTypeOK'
  BY <1>1, <1>2, <1>3, Zenon DEF AgentTypeOK
<1>5. QED
  BY <1>1, <1>2, <1>4, Zenon

LEMMA ResetStep ==
    ASSUME AgentTypeOK, NEW r \in Replicas, RestartAgent(r) \/ Crash(r)
    PROVE  /\ AgentTypeOK'
           /\ aepSeen'[r] = aep /\ domSeen'[r] = dom
           /\ \A q \in Replicas : q # r => aepSeen'[q] = aepSeen[q] /\ inputSeen'[q] = inputSeen[q]
                                           /\ domSeen'[q] = domSeen[q]
           /\ domNews' = domNews \ {r}
           /\ \A n \in AepNames : aep[n] # None => n \in aepQueue'[r]
           /\ OthersQueued(r) /\ OthersAtWork(r)
           /\ aepWork'[r].pc = "idle"
           /\ \A n \in AepNames : forwarders'[r][n] = None
           /\ \A q \in Replicas : q # r => forwarders'[q] = forwarders[q]
           /\ aepEvents' = aepEvents \/ aepEvents' = aepEvents + 1
           /\ aepEvents \in Nat
           /\ UNCHANGED <<aep, input, dom>>
<1>1. Reset(r)
  BY Zenon DEF RestartAgent, Crash
<1>2. /\ aepEvents' \in 0..MaxAepEvents /\ aepEvents \in Nat
      /\ aepEvents' = aepEvents \/ aepEvents' = aepEvents + 1
  <2>1. aepEvents \in 0..MaxAepEvents /\ aepEvents \in Nat
    BY AgentAssumption DEF AgentTypeOK
  <2>2. CASE aepEvents' = aepEvents
    BY <2>1, <2>2, Zenon
  <2>3. CASE AepEvent
    BY <2>3, EventStep, Zenon
  <2>4. QED
    BY <2>2, <2>3, Zenon DEF RestartAgent, Crash
<1>3. UNCHANGED <<aep, input, dom>> /\ domNews' = domNews \ {r} /\ stopping' = stopping \ {r}
  BY <1>1, Zenon DEF Reset
<1>4. /\ aepSeen' \in [Replicas -> [AepNames -> Objects \cup {None}]]
      /\ aepSeen'[r] = aep
      /\ \A q \in Replicas : q # r => aepSeen'[q] = aepSeen[q]
  BY <1>1, Zenon DEF Reset, AgentTypeOK
<1>5. /\ inputSeen' \in [Replicas -> [Inputs -> Contents \cup {None}]]
      /\ \A q \in Replicas : q # r => inputSeen'[q] = inputSeen[q]
  BY <1>1, Zenon DEF Reset, AgentTypeOK
<1>6. /\ domSeen' \in [Replicas -> Domains \cup {None}]
      /\ domSeen'[r] = dom
      /\ \A q \in Replicas : q # r => domSeen'[q] = domSeen[q]
  BY <1>1, Zenon DEF Reset, AgentTypeOK
<1>7. /\ aepQueue' \in [Replicas -> SUBSET AepNames]
      /\ aepQueue'[r] = {n \in AepNames : aep[n] # None}
      /\ OthersQueued(r)
  <2>1. {n \in AepNames : aep[n] # None} \in SUBSET AepNames
    BY Zenon
  <2>2. aepQueue \in [Replicas -> SUBSET AepNames]
    BY Zenon DEF AgentTypeOK
  <2>3. aepQueue' = [aepQueue EXCEPT ![r] = {n \in AepNames : aep[n] # None}]
    BY <1>1, Zenon DEF Reset
  <2>4. QED
    BY <2>1, <2>2, <2>3, Zenon DEF OthersQueued
<1>8. /\ aepWork' \in [Replicas -> AepWorks \cup {NoWork}]
      /\ aepWork'[r] = NoWork
      /\ OthersAtWork(r)
  BY <1>1, Zenon DEF Reset, AgentTypeOK, OthersAtWork
<1>9. /\ forwarders' \in [Replicas -> [AepNames -> Forwarders \cup {None}]]
      /\ \A n \in AepNames : forwarders'[r][n] = None
      /\ \A q \in Replicas : q # r => forwarders'[q] = forwarders[q]
  <2>1. forwarders \in [Replicas -> [AepNames -> Forwarders \cup {None}]]
    BY Zenon DEF AgentTypeOK
  <2>2. [n \in AepNames |-> None] \in [AepNames -> Forwarders \cup {None}]
    BY Zenon
  <2>3. forwarders' = [forwarders EXCEPT ![r] = [n \in AepNames |-> None]]
    BY <1>1, Zenon DEF Reset
  <2>4. forwarders'[r] = [n \in AepNames |-> None]
    BY <2>1, <2>3, Zenon
  <2>5. QED
    BY <2>1, <2>2, <2>3, <2>4, Zenon
<1>10. domNews' \subseteq Replicas /\ stopping' \subseteq Replicas
  BY <1>3, Zenon DEF AgentTypeOK
<1>11. AgentTypeOK'
  BY <1>2, <1>3, <1>4, <1>5, <1>6, <1>7, <1>8, <1>9, <1>10, Zenon DEF AgentTypeOK
<1>12. QED
  BY <1>2, <1>3, <1>4, <1>5, <1>6, <1>7, <1>8, <1>9, <1>11, NoWorkFacts, Zenon

(***************************************************************************)
(* What a step makes of the objects, the caches, the queues and the work,  *)
(* whichever action it is.                                                 *)
(***************************************************************************)
Kept(n) == aep'[n] = aep[n] \/ SameObject(n)
Renewed(n) ==
    /\ aepEvents' = aepEvents + 1
    /\ aep'[n] # None /\ aep'[n].gen = aepEvents + 1 /\ ~aep'[n].deleting
Condemned(n) ==
    /\ aep[n] # None /\ ~aep[n].deleting
    /\ aep'[n] # None /\ aep'[n].deleting /\ aep'[n].gen = aep[n].gen /\ aep'[n].spec = aep[n].spec

EventMoves == aepEvents \in Nat /\ (aepEvents' = aepEvents \/ aepEvents' = aepEvents + 1)
ObjectMoves == \A n \in AepNames : Kept(n) \/ aep'[n] = None \/ Renewed(n) \/ Condemned(n)
CacheMoves ==
    \A r \in Replicas, n \in AepNames :
       \/ aepSeen'[r][n] = aepSeen[r][n]
       \/ /\ aepSeen'[r][n] = aep[n] /\ aep'[n] = aep[n]
          /\ n \in aepQueue'[r] \/ ~GenerationChanged(aepSeen[r][n], aep[n]) \/ aep[n] = None
QueueMoves ==
    \A r \in Replicas, n \in AepNames : n \notin aepQueue'[r] =>
       n \notin aepQueue[r] \/ StartEndpoint(r, n) \/ aep'[n] = None
\* The work of r stays, goes on, ends or begins with a copy of the cache or the server.
WorkMoves ==
    \A r \in Replicas :
       \/ aepWork'[r] = aepWork[r]
       \/ aepWork[r].pc # "idle" /\ GoesOn(r)
       \/ aepWork'[r].pc = "idle"
       \/ \E n \in AepNames : StartEndpoint(r, n)
       \/ aepWork'[r].obj = aep'[aepWork'[r].name]

Moves == EventMoves /\ ObjectMoves /\ CacheMoves /\ QueueMoves /\ WorkMoves

\* A step of the work that leaves the objects, the caches and the queues alone.
LEMMA QuietMoves ==
    ASSUME AgentTypeOK, UNCHANGED <<aep, aepSeen>>,
           \A q \in Replicas : aepQueue[q] \subseteq aepQueue'[q],
           aepEvents' = aepEvents \/ aepEvents' = aepEvents + 1
    PROVE  EventMoves /\ ObjectMoves /\ CacheMoves /\ QueueMoves
<1>1. aepEvents \in Nat
  BY AgentAssumption DEF AgentTypeOK
<1>2. ObjectMoves
  BY Zenon DEF ObjectMoves, Kept
<1>3. CacheMoves
  BY Zenon DEF CacheMoves
<1>4. QueueMoves
  BY Zenon DEF QueueMoves
<1>5. QED
  BY <1>1, <1>2, <1>3, <1>4, Zenon DEF EventMoves

\* A write of one object by the controller, which leaves the caches alone.
LEMMA WriteMoves ==
    ASSUME AgentTypeOK, NEW n \in AepNames, OthersWritten(n),
           Kept(n) \/ aep'[n] = None,
           UNCHANGED <<aepSeen, aepEvents>>,
           \A q \in Replicas : aepQueue[q] \subseteq aepQueue'[q]
    PROVE  EventMoves /\ ObjectMoves /\ CacheMoves /\ QueueMoves
<1>1. aepEvents \in Nat
  BY AgentAssumption DEF AgentTypeOK
<1>2. ObjectMoves
  BY Zenon DEF ObjectMoves, Kept, OthersWritten
<1>3. CacheMoves
  BY Zenon DEF CacheMoves
<1>4. QueueMoves
  BY Zenon DEF QueueMoves
<1>5. QED
  BY <1>1, <1>2, <1>3, <1>4, Zenon DEF EventMoves

LEMMA DeliveryMoves ==
    ASSUME AgentTypeOK, NEW r \in Replicas,
           \/ \E n \in AepNames : DeliverEndpoint(r, n)
           \/ \E i \in Inputs : DeliverInput(r, i)
           \/ DeliverDomainTo(r)
    PROVE  AgentTypeOK' /\ Moves
<1>1. CASE \E n \in AepNames : DeliverEndpoint(r, n)
  <2>1. PICK n \in AepNames : DeliverEndpoint(r, n)
    BY <1>1
  <2>2. /\ AgentTypeOK'
        /\ aepSeen'[r][n] = aep[n]
        /\ \A q \in Replicas, m \in AepNames : q # r \/ m # n => aepSeen'[q][m] = aepSeen[q][m]
        /\ GenerationChanged(aepSeen[r][n], aep[n]) => n \in aepQueue'[r]
        /\ \A q \in Replicas : aepQueue[q] \subseteq aepQueue'[q]
        /\ UNCHANGED <<aep, aepWork, aepEvents>>
    BY <2>1, DeliverEndpointStep, Zenon
  <2>3. aepEvents \in Nat
    BY AgentAssumption DEF AgentTypeOK
  <2>4. CacheMoves
    BY <2>2, Zenon DEF CacheMoves
  <2>5. QED
    BY <2>2, <2>3, <2>4, Zenon DEF Moves, EventMoves, ObjectMoves, Kept, QueueMoves, WorkMoves
<1>2. CASE \E i \in Inputs : DeliverInput(r, i)
  <2>1. PICK i \in Inputs : DeliverInput(r, i)
    BY <1>2
  <2>2. /\ AgentTypeOK'
        /\ \A q \in Replicas : aepQueue[q] \subseteq aepQueue'[q]
        /\ UNCHANGED <<aep, aepSeen, aepWork, aepEvents>>
    BY <2>1, DeliverInputStep, Zenon
  <2>3. QED
    BY <2>2, QuietMoves, Zenon DEF Moves, WorkMoves
<1>3. CASE DeliverDomainTo(r)
  <2>2. /\ AgentTypeOK'
        /\ \A q \in Replicas : aepQueue[q] \subseteq aepQueue'[q]
        /\ UNCHANGED <<aep, aepSeen, aepWork, aepEvents>>
    BY <1>3, DeliverDomainStep, Zenon
  <2>3. QED
    BY <2>2, QuietMoves, Zenon DEF Moves, WorkMoves
<1>4. QED
  BY <1>1, <1>2, <1>3, Zenon

LEMMA ClusterMoves ==
    ASSUME AgentTypeOK,
           \/ \E n \in AepNames : WriteObject(n) \/ DeleteObject(n)
           \/ \E i \in Inputs : WriteInput(i)
           \/ DomainStep \/ DeleteDomain
           \/ \E r \in Replicas : StopAgent(r)
    PROVE  AgentTypeOK' /\ Moves
<1>1. CASE \E n \in AepNames : WriteObject(n)
  <2>1. PICK n \in AepNames : WriteObject(n)
    BY <1>1
  <2>2. /\ AgentTypeOK' /\ OthersWritten(n) /\ Renewed(n)
        /\ aepEvents' = aepEvents + 1 /\ aepEvents \in Nat
        /\ UNCHANGED <<aepSeen, aepQueue, aepWork>>
    BY <2>1, WriteObjectStep, Zenon DEF Renewed
  <2>3. ObjectMoves
    BY <2>2, Zenon DEF ObjectMoves, Kept, OthersWritten
  <2>4. CacheMoves /\ QueueMoves /\ WorkMoves
    BY <2>2, Zenon DEF CacheMoves, QueueMoves, WorkMoves
  <2>5. QED
    BY <2>2, <2>3, <2>4, Zenon DEF Moves, EventMoves
<1>2. CASE \E n \in AepNames : DeleteObject(n)
  <2>1. PICK n \in AepNames : DeleteObject(n)
    BY <1>2
  <2>2. /\ AgentTypeOK' /\ OthersWritten(n) /\ (aep'[n] = None \/ Condemned(n))
        /\ aepEvents' = aepEvents + 1 /\ aepEvents \in Nat
        /\ UNCHANGED <<aepSeen, aepQueue, aepWork>>
    BY <2>1, DeleteObjectStep, Zenon DEF Condemned
  <2>3. ObjectMoves
    BY <2>2, Zenon DEF ObjectMoves, Kept, OthersWritten
  <2>4. CacheMoves /\ QueueMoves /\ WorkMoves
    BY <2>2, Zenon DEF CacheMoves, QueueMoves, WorkMoves
  <2>5. QED
    BY <2>2, <2>3, <2>4, Zenon DEF Moves, EventMoves
<1>3. CASE \/ \E i \in Inputs : WriteInput(i)
           \/ DomainStep \/ DeleteDomain
           \/ \E r \in Replicas : StopAgent(r)
  <2>1. /\ AgentTypeOK'
        /\ aepEvents' = aepEvents \/ aepEvents' = aepEvents + 1
        /\ UNCHANGED <<aep, aepSeen, aepQueue, aepWork>>
    BY <1>3, WriteInputStep, DomainChangeStep, StopAgentStep, Zenon
  <2>2. QED
    BY <2>1, QuietMoves, Zenon DEF Moves, WorkMoves
<1>4. QED
  BY <1>1, <1>2, <1>3, Zenon

LEMMA ResetMoves ==
    ASSUME AgentTypeOK, NEW r \in Replicas, RestartAgent(r) \/ Crash(r)
    PROVE  AgentTypeOK' /\ Moves
<1>1. /\ AgentTypeOK'
      /\ aepSeen'[r] = aep
      /\ \A q \in Replicas : q # r => aepSeen'[q] = aepSeen[q]
      /\ \A n \in AepNames : aep[n] # None => n \in aepQueue'[r]
      /\ OthersQueued(r) /\ OthersAtWork(r)
      /\ aepWork'[r].pc = "idle"
      /\ aepEvents' = aepEvents \/ aepEvents' = aepEvents + 1
      /\ aepEvents \in Nat
      /\ aep' = aep
  BY ResetStep, Zenon
<1>2. CacheMoves
  BY <1>1, Zenon DEF CacheMoves
<1>3. QueueMoves
  BY <1>1, Zenon DEF QueueMoves, OthersQueued
<1>4. WorkMoves
  BY <1>1, Zenon DEF WorkMoves, OthersAtWork
<1>5. QED
  BY <1>1, <1>2, <1>3, <1>4, Zenon DEF Moves, EventMoves, ObjectMoves, Kept

\* The reconciles go on, in the first half of an update and on the way to a deletion.
LEMMA GoingMoves ==
    ASSUME AgentTypeOK, WorkInv, NEW r \in Replicas,
           EnsureDomainExists(r) \/ Resolve(r) \/ CreateAgentEndpoint(r) \/ ForwardFails(r)
           \/ DeleteAgentEndpoint(r)
    PROVE  AgentTypeOK' /\ Moves
<1>1. PICK n : n = aepWork[r].name
  BY Zenon
<1>2. CreateAgentEndpoint(r) => aepWork[r].content \in InputContents
  BY Zenon DEF WorkInv, Planned, CreateAgentEndpoint, InputContents
<1>3. /\ AgentTypeOK' /\ OthersAtWork(r) /\ GoesOn(r)
      /\ aepWork[r].pc # "idle"
      /\ aepEvents' = aepEvents \/ aepEvents' = aepEvents + 1
      /\ UNCHANGED <<aep, aepSeen, aepQueue>>
  <2>1. CASE EnsureDomainExists(r)
    BY <2>1, EnsureDomainStep, Zenon
  <2>2. CASE Resolve(r)
    BY <2>2, ResolveStep, Zenon
  <2>3. CASE CreateAgentEndpoint(r)
    BY <1>1, <1>2, <2>3, CreateStep, Zenon
  <2>4. CASE ForwardFails(r)
    BY <1>1, <2>4, ForwardFailsStep, Zenon
  <2>5. CASE DeleteAgentEndpoint(r)
    BY <1>1, <2>5, CloseStep, Zenon
  <2>6. QED
    BY <2>1, <2>2, <2>3, <2>4, <2>5, Zenon
<1>4. WorkMoves
  BY <1>3, Zenon DEF WorkMoves, OthersAtWork
<1>5. QED
  BY <1>3, <1>4, QuietMoves, Zenon DEF Moves

LEMMA RegisterMoves ==
    ASSUME AgentTypeOK, NEW r \in Replicas, RegisterEndpoint(r)
    PROVE  AgentTypeOK' /\ Moves
<1>1. PICK n : n = aepWork[r].name
  BY Zenon
<1>2. /\ AgentTypeOK' /\ n \in AepNames
      /\ OthersAtWork(r) /\ OthersQueued(r) /\ OthersWritten(n)
      /\ Kept(n)
      /\ aepQueue[r] \subseteq aepQueue'[r]
      /\ aepWork'[r].pc = "idle" \/ aepWork'[r].obj = aep'[aepWork'[r].name]
      /\ UNCHANGED <<aepSeen, aepEvents>>
  <2>1. /\ AgentTypeOK' /\ n \in AepNames
        /\ OthersAtWork(r) /\ OthersQueued(r) /\ OthersWritten(n)
        /\ GivenUp(r, n) \/ Registered(r, n)
        /\ UNCHANGED <<aepSeen, aepEvents>>
    BY <1>1, RegisterStep, Zenon
  <2>3. aepQueue[r] \subseteq aepQueue'[r]
    BY <2>1, Zenon DEF GivenUp, Registered
  <2>4. Kept(n) /\ (aepWork'[r].pc = "idle" \/ aepWork'[r].obj = aep'[aepWork'[r].name])
    BY <2>1, Zenon DEF Kept, GivenUp, Registered
  <2>5. QED
    BY <2>1, <2>3, <2>4, Zenon
<1>3. WorkMoves
  BY <1>2, Zenon DEF WorkMoves, OthersAtWork
<1>4. \A q \in Replicas : aepQueue[q] \subseteq aepQueue'[q]
  BY <1>2, Zenon DEF OthersQueued
<1>5. EventMoves /\ ObjectMoves /\ CacheMoves /\ QueueMoves
  BY <1>2, <1>4, WriteMoves, Zenon
<1>6. QED
  BY <1>2, <1>3, <1>5, Zenon DEF Moves

LEMMA EndMoves ==
    ASSUME AgentTypeOK, NEW r \in Replicas,
           updateEndpointStatus(r) \/ CloseFails(r) \/ Unregister(r)
    PROVE  AgentTypeOK' /\ Moves
<1>1. PICK n : n = aepWork[r].name
  BY Zenon
<1>2. CASE updateEndpointStatus(r) \/ Unregister(r)
  <2>1. /\ AgentTypeOK' /\ n \in AepNames
        /\ OthersAtWork(r) /\ OthersQueued(r) /\ OthersWritten(n)
        /\ Kept(n) \/ aep'[n] = None
        /\ aepQueue[r] \subseteq aepQueue'[r]
        /\ aepWork'[r].pc = "idle"
        /\ UNCHANGED <<aepSeen, aepEvents>>
    <3>1. CASE updateEndpointStatus(r)
      BY <1>1, <3>1, StatusStep, Zenon DEF Kept
    <3>2. CASE Unregister(r)
      BY <1>1, <3>2, UnregisterStep, Zenon DEF Kept
    <3>3. QED
      BY <1>2, <3>1, <3>2, Zenon
  <2>2. WorkMoves
    BY <2>1, Zenon DEF WorkMoves, OthersAtWork
  <2>3. \A q \in Replicas : aepQueue[q] \subseteq aepQueue'[q]
    BY <2>1, Zenon DEF OthersQueued
  <2>4. EventMoves /\ ObjectMoves /\ CacheMoves /\ QueueMoves
    BY <2>1, <2>3, WriteMoves, Zenon
  <2>5. QED
    BY <2>1, <2>2, <2>4, Zenon DEF Moves
<1>3. CASE CloseFails(r)
  <2>1. /\ AgentTypeOK'
        /\ OthersAtWork(r) /\ OthersQueued(r)
        /\ aepWork'[r].pc = "idle"
        /\ aepQueue'[r] = aepQueue[r] \cup {n}
        /\ aepEvents' = aepEvents + 1
        /\ UNCHANGED <<aep, aepSeen>>
    BY <1>1, <1>3, CloseFailsStep, Zenon
  <2>2. \A q \in Replicas : aepQueue[q] \subseteq aepQueue'[q]
    BY <2>1, Zenon DEF OthersQueued
  <2>3. WorkMoves
    BY <2>1, Zenon DEF WorkMoves, OthersAtWork
  <2>4. QED
    BY <2>1, <2>2, <2>3, QuietMoves, Zenon DEF Moves
<1>4. QED
  BY <1>2, <1>3, Zenon

LEMMA StartMoves ==
    ASSUME AgentTypeOK, NEW r \in Replicas, NEW n \in AepNames, StartEndpoint(r, n)
    PROVE  AgentTypeOK' /\ Moves
<1>1. /\ AgentTypeOK'
      /\ OthersAtWork(r) /\ OthersQueued(r)
      /\ aepQueue'[r] = aepQueue[r] \ {n}
      /\ UNCHANGED <<aep, aepSeen, aepEvents>>
  BY StartStep, Zenon
<1>2. aepEvents \in Nat
  BY AgentAssumption DEF AgentTypeOK
<1>3. QueueMoves
  BY <1>1, Zenon DEF QueueMoves, OthersQueued
<1>4. WorkMoves
  BY <1>1, Zenon DEF WorkMoves, OthersAtWork
<1>5. QED
  BY <1>1, <1>2, <1>3, <1>4, Zenon DEF Moves, EventMoves, ObjectMoves, CacheMoves, Kept

\* Every step is one of these.
LEMMA NextMoves ==
    ASSUME AgentTypeOK, WorkInv, AgentNext
    PROVE  AgentTypeOK' /\ Moves
<1>1. CASE \E r \in Replicas : \E n \in AepNames : StartEndpoint(r, n)
  BY <1>1, StartMoves, Zenon
<1>2. CASE \E r \in Replicas : RegisterEndpoint(r)
  BY <1>2, RegisterMoves, Zenon
<1>3. CASE \E r \in Replicas :
              EnsureDomainExists(r) \/ Resolve(r) \/ CreateAgentEndpoint(r) \/ ForwardFails(r)
              \/ DeleteAgentEndpoint(r)
  BY <1>3, GoingMoves, Zenon
<1>4. CASE \E r \in Replicas : updateEndpointStatus(r) \/ CloseFails(r) \/ Unregister(r)
  BY <1>4, EndMoves, Zenon
<1>5. CASE \E r \in Replicas : RestartAgent(r) \/ Crash(r)
  BY <1>5, ResetMoves, Zenon
<1>6. CASE \E r \in Replicas :
              \/ \E n \in AepNames : DeliverEndpoint(r, n)
              \/ \E i \in Inputs : DeliverInput(r, i)
              \/ DeliverDomainTo(r)
  BY <1>6, DeliveryMoves, Zenon
<1>7. CASE \/ \E n \in AepNames : WriteObject(n) \/ DeleteObject(n)
           \/ \E i \in Inputs : WriteInput(i)
           \/ DomainStep \/ DeleteDomain
           \/ \E r \in Replicas : StopAgent(r)
  BY <1>7, ClusterMoves, Zenon
<1>8. QED
  BY <1>1, <1>2, <1>3, <1>4, <1>5, <1>6, <1>7, Zenon DEF AgentNext, ReconcileEndpoint

(***************************************************************************)
(* The invariant, part by part.                                            *)
(***************************************************************************)
LEMMA GenKept ==
    ASSUME AgentTypeOK, AgentTypeOK', GenInv, Moves
    PROVE  GenInv'
<1>1. /\ aepEvents \in Nat /\ aepEvents' \in Nat /\ aepEvents <= aepEvents'
  BY DEF Moves, EventMoves
<1>2. \A g \in Nat : g <= aepEvents => g <= aepEvents'
  BY <1>1
<1>3. \A n \in AepNames : aep[n] # None => aep[n].gen \in Nat
  BY StateTypes, ObjectTypes, Zenon
<1>4. \A n \in AepNames : aep'[n] # None => aep'[n].gen <= aepEvents'
  <2>1. SUFFICES ASSUME NEW n \in AepNames, aep'[n] # None PROVE aep'[n].gen <= aepEvents'
    BY Zenon
  <2>2. CASE Renewed(n)
    BY <1>1, <2>2 DEF Renewed
  <2>3. CASE Kept(n) \/ Condemned(n)
    <3>1. aep[n] # None /\ aep'[n].gen = aep[n].gen
      BY <2>1, <2>3, Zenon DEF Kept, SameObject, Condemned
    <3>2. QED
      BY <1>2, <1>3, <3>1, Zenon DEF GenInv
  <2>4. QED
    BY <2>1, <2>2, <2>3, Zenon DEF Moves, ObjectMoves
<1>5. ASSUME NEW r \in Replicas, NEW n \in AepNames
      PROVE  /\ aepSeen'[r][n] # None => aepSeen'[r][n].gen <= aepEvents'
             /\ Older(aepSeen'[r][n], aep'[n])
  <2>1. CASE aepSeen'[r][n] = aepSeen[r][n]
    <3>1. aepSeen[r][n] # None => aepSeen[r][n].gen \in Nat
      BY StateTypes, ObjectTypes, Zenon
    <3>2. aepSeen[r][n] # None => aepSeen[r][n].gen <= aepEvents
      BY Zenon DEF GenInv
    <3>3. Older(aepSeen[r][n], aep[n])
      BY Zenon DEF GenInv
    <3>4. Older(aepSeen[r][n], aep'[n])
      <4>1. CASE Renewed(n)
        <5>1. aepSeen[r][n] # None => aepSeen[r][n].gen # aep'[n].gen
          BY <1>1, <3>1, <3>2, <4>1 DEF Renewed
        <5>2. QED
          BY <5>1, Zenon DEF Older
      <4>2. CASE Kept(n) \/ Condemned(n)
        BY <3>3, <4>2, Zenon DEF Kept, SameObject, Condemned, Older
      <4>3. CASE aep'[n] = None
        BY <4>3, Zenon DEF Older
      <4>4. QED
        BY <4>1, <4>2, <4>3, Zenon DEF Moves, ObjectMoves
    <3>5. QED
      BY <1>2, <2>1, <3>1, <3>2, <3>4, Zenon
  <2>2. CASE aepSeen'[r][n] = aep[n] /\ aep'[n] = aep[n]
    BY <1>4, <2>2, Zenon DEF Older
  <2>3. QED
    BY <2>1, <2>2, Zenon DEF Moves, CacheMoves
<1>6. QED
  BY <1>4, <1>5, Zenon DEF GenInv, Older

\* What no event will call the replica for after a step is the same object as before,
\* and called for by no event before, except by the request that is taken up.
LEMMA CallsKept ==
    ASSUME AgentTypeOK, GenInv, Moves, NEW r \in Replicas, NEW n \in AepNames, Unasked(r, n)'
    PROVE  /\ SameObject(n)
           /\ ~GenerationChanged(aepSeen[r][n], aep[n])
           /\ Unasked(r, n) \/ StartEndpoint(r, n)
           /\ aepSeen[r][n] # None /\ aepSeen[r][n].spec = aep[n].spec
           /\ aepSeen[r][n].gen = aep[n].gen /\ aepSeen[r][n].deleting = aep[n].deleting
<1>1. /\ n \notin aepQueue'[r]
      /\ aepSeen'[r][n] # None /\ aep'[n] # None
      /\ aepSeen'[r][n].gen = aep'[n].gen /\ aepSeen'[r][n].deleting = aep'[n].deleting
  BY Zenon DEF Unasked, GenerationChanged
<1>2. /\ SameObject(n)
      /\ ~GenerationChanged(aepSeen[r][n], aep[n])
  <2>1. CASE aepSeen'[r][n] = aepSeen[r][n]
    <3>1. ~Renewed(n)
      <4>1. aepSeen[r][n].gen \in Nat /\ aepSeen[r][n].gen <= aepEvents
        BY <1>1, <2>1, StateTypes, ObjectTypes, Zenon DEF GenInv
      <4>2. aepEvents \in Nat
        BY Zenon DEF Moves, EventMoves
      <4>3. aepSeen[r][n].gen # aepEvents + 1
        BY <4>1, <4>2
      <4>4. QED
        BY <1>1, <2>1, <4>3, Zenon DEF Renewed
    <3>2. ~Condemned(n)
      <4>1. Older(aepSeen[r][n], aep[n])
        BY Zenon DEF GenInv
      <4>2. QED
        BY <1>1, <2>1, <4>1, Zenon DEF Condemned, Older
    <3>3. SameObject(n)
      BY <1>1, <3>1, <3>2, Zenon DEF Moves, ObjectMoves, Kept, SameObject
    <3>4. QED
      BY <1>1, <2>1, <3>3, Zenon DEF SameObject, GenerationChanged
  <2>2. CASE /\ aepSeen'[r][n] = aep[n] /\ aep'[n] = aep[n]
             /\ n \in aepQueue'[r] \/ ~GenerationChanged(aepSeen[r][n], aep[n]) \/ aep[n] = None
    BY <1>1, <2>2, Zenon DEF SameObject
  <2>3. QED
    BY <2>1, <2>2, Zenon DEF Moves, CacheMoves
<1>3. n \notin aepQueue[r] \/ StartEndpoint(r, n)
  BY <1>1, Zenon DEF Moves, QueueMoves
<1>4. Unasked(r, n) \/ StartEndpoint(r, n)
  BY <1>2, <1>3, Zenon DEF Unasked
<1>5. /\ aepSeen[r][n] # None /\ aep[n] # None
      /\ aepSeen[r][n].gen = aep[n].gen /\ aepSeen[r][n].deleting = aep[n].deleting
  BY <1>2, Zenon DEF GenerationChanged
<1>6. Older(aepSeen[r][n], aep[n])
  BY Zenon DEF GenInv
<1>7. QED
  BY <1>2, <1>4, <1>5, <1>6, Zenon DEF Older

\* Nothing is asked of the work before an update has seen to the Domain.
LEMMA PlannedEarly ==
    ASSUME NEW w, w.pc \in {"idle", "register", "domain"}
    PROVE  Planned(w)
<1>1. w.pc \notin {"resolve", "forward", "status"} /\ w.pc \notin {"close", "unregister"} /\ w.pc # "forward"
  OBVIOUS
<1>2. QED
  BY <1>1, Zenon DEF Planned

LEMMA PlannedStatus ==
    ASSUME NEW w, w.pc = "status",
           w.obj.spec.url = "public" => w.obj.domainRef \/ w.after = "again"
    PROVE  Planned(w)
<1>1. w.pc \notin {"close", "unregister"} /\ w.pc # "forward"
  OBVIOUS
<1>2. QED
  BY <1>1, Zenon DEF Planned

LEMMA WorkKept ==
    ASSUME AgentTypeOK, WorkInv, AgentNext
    PROVE  WorkInv'
<1> DEFINE P == \A q \in Replicas : aepWork'[q] = aepWork[q] \/ Planned(aepWork'[q])
<1>0. SUFFICES P
  BY Zenon DEF WorkInv
<1>1. ASSUME NEW r \in Replicas, NEW n \in AepNames, StartEndpoint(r, n) PROVE P
  <2>1. /\ OthersAtWork(r)
        /\ \/ aepWork'[r].pc = "idle"
           \/ aepWork'[r].pc = "register"
           \/ aepWork'[r].pc = "domain"
           \/ aepWork'[r].pc = "close" /\ aepWork'[r].obj.deleting
    BY <1>1, StartStep, Zenon
  <2>2. CASE aepWork'[r].pc = "close" /\ aepWork'[r].obj.deleting
    <3>1. aepWork'[r].pc \notin {"resolve", "forward", "status"} /\ aepWork'[r].pc # "forward"
      BY <2>2
    <3>2. Planned(aepWork'[r])
      BY <2>2, <3>1, Zenon DEF Planned
    <3>3. QED
      BY <2>1, <3>2, Zenon DEF OthersAtWork
  <2>3. CASE aepWork'[r].pc \in {"idle", "register", "domain"}
    <3>1. Planned(aepWork'[r])
      BY <2>3, PlannedEarly, SMT
    <3>2. QED
      BY <2>1, <3>1, Zenon DEF OthersAtWork
  <2>4. QED
    BY <2>1, <2>2, <2>3, Zenon
<1>2. ASSUME NEW r \in Replicas, RegisterEndpoint(r) PROVE P
  <2>1. PICK n : n = aepWork[r].name
    BY Zenon
  <2>2. OthersAtWork(r) /\ (GivenUp(r, n) \/ Registered(r, n))
    BY <1>2, <2>1, RegisterStep, Zenon
  <2>3. aepWork'[r].pc \in {"idle", "register", "domain"}
    BY <2>2, Zenon DEF GivenUp, Registered
  <2>4. Planned(aepWork'[r])
    BY <2>3, PlannedEarly, SMT
  <2>5. QED
    BY <2>2, <2>4, Zenon DEF OthersAtWork
<1>3. ASSUME NEW r \in Replicas, EnsureDomainExists(r) PROVE P
  <2>1. /\ OthersAtWork(r) /\ GoesOn(r)
        /\ \/ /\ aepWork'[r].pc = "resolve"
              /\ aepWork[r].obj.spec.url = "public" => aepWork'[r].obj.domainRef
           \/ aepWork'[r].pc = "status" /\ aepWork'[r].after = "again"
    BY <1>3, EnsureDomainStep, Zenon
  <2>2. CASE /\ aepWork'[r].pc = "resolve"
             /\ aepWork[r].obj.spec.url = "public" => aepWork'[r].obj.domainRef
    <3>1. aepWork'[r].pc \notin {"close", "unregister"} /\ aepWork'[r].pc # "forward"
      BY <2>2
    <3>2. Planned(aepWork'[r])
      BY <2>1, <2>2, <3>1, Zenon DEF Planned, GoesOn
    <3>3. QED
      BY <2>1, <3>2, Zenon DEF OthersAtWork
  <2>3. CASE aepWork'[r].pc = "status" /\ aepWork'[r].after = "again"
    BY <2>1, <2>3, PlannedStatus, Zenon DEF OthersAtWork
  <2>4. QED
    BY <2>1, <2>2, <2>3, Zenon
<1>4. ASSUME NEW r \in Replicas, Resolve(r) PROVE P
  <2>1. /\ aepWork[r].pc = "resolve"
        /\ OthersAtWork(r)
        /\ aepWork'[r].obj = aepWork[r].obj
        /\ \/ aepWork'[r].pc = "status"
           \/ /\ aepWork'[r].pc = "forward"
              /\ aepWork'[r].content \in InputContents
    BY <1>4, ResolveStep, Zenon
  <2>2. aepWork[r].pc # "status"
    BY <2>1
  <2>3. aepWork[r].obj.spec.url = "public" => aepWork[r].obj.domainRef
    BY <2>1, <2>2, Zenon DEF WorkInv, Planned
  <2>4. CASE aepWork'[r].pc = "forward" /\ aepWork'[r].content \in InputContents
    <3>1. aepWork'[r].pc \notin {"close", "unregister"}
      BY <2>4
    <3>2. Planned(aepWork'[r])
      BY <2>1, <2>3, <2>4, <3>1, Zenon DEF Planned, InputContents
    <3>3. QED
      BY <2>1, <3>2, Zenon DEF OthersAtWork
  <2>5. CASE aepWork'[r].pc = "status"
    BY <2>1, <2>3, <2>5, PlannedStatus, Zenon DEF OthersAtWork
  <2>6. QED
    BY <2>1, <2>4, <2>5, Zenon
<1>5. ASSUME NEW r \in Replicas, CreateAgentEndpoint(r) \/ ForwardFails(r) PROVE P
  <2>1. PICK n : n = aepWork[r].name
    BY Zenon
  <2>2. aepWork[r].pc = "forward"
    BY <1>5, Zenon DEF CreateAgentEndpoint, ForwardFails
  <2>3. aepWork[r].pc # "status"
    BY <2>2
  <2>4. aepWork[r].content \in InputContents
    BY <2>2, Zenon DEF WorkInv, Planned, InputContents
  <2>5. aepWork[r].obj.spec.url = "public" => aepWork[r].obj.domainRef
    BY <2>2, <2>3, Zenon DEF WorkInv, Planned
  <2>6. OthersAtWork(r) /\ aepWork'[r].pc = "status" /\ aepWork'[r].obj = aepWork[r].obj
    <3>1. CASE CreateAgentEndpoint(r)
      BY <2>1, <2>4, <3>1, CreateStep, Zenon
    <3>2. CASE ForwardFails(r)
      BY <2>1, <3>2, ForwardFailsStep, Zenon
    <3>3. QED
      BY <1>5, <3>1, <3>2, Zenon
  <2>7. QED
    BY <2>5, <2>6, PlannedStatus, Zenon DEF OthersAtWork
<1>6. ASSUME NEW r \in Replicas, DeleteAgentEndpoint(r) PROVE P
  <2>1. PICK n : n = aepWork[r].name
    BY Zenon
  <2>2. aepWork[r].pc = "close" /\ OthersAtWork(r) /\ GoesOn(r) /\ aepWork'[r].pc = "unregister"
    BY <1>6, <2>1, CloseStep, Zenon
  <2>3. aepWork'[r].obj.deleting
    BY <2>2, Zenon DEF WorkInv, Planned, GoesOn
  <2>4. aepWork'[r].pc \notin {"resolve", "forward", "status"} /\ aepWork'[r].pc # "forward"
    BY <2>2
  <2>5. Planned(aepWork'[r])
    BY <2>3, <2>4, Zenon DEF Planned
  <2>6. QED
    BY <2>2, <2>5, Zenon DEF OthersAtWork
<1>7. ASSUME NEW r \in Replicas,
             updateEndpointStatus(r) \/ CloseFails(r) \/ Unregister(r) \/ RestartAgent(r) \/ Crash(r)
      PROVE P
  <2>1. PICK n : n = aepWork[r].name
    BY Zenon
  <2>2. OthersAtWork(r) /\ aepWork'[r].pc = "idle"
    <3>1. CASE updateEndpointStatus(r)
      BY <2>1, <3>1, StatusStep, Zenon
    <3>2. CASE CloseFails(r)
      BY <2>1, <3>2, CloseFailsStep, Zenon
    <3>3. CASE Unregister(r)
      BY <2>1, <3>3, UnregisterStep, Zenon
    <3>4. CASE RestartAgent(r) \/ Crash(r)
      BY <3>4, ResetStep, Zenon
    <3>5. QED
      BY <1>7, <3>1, <3>2, <3>3, <3>4, Zenon
  <2>3. aepWork'[r].pc \in {"idle", "register", "domain"}
    BY <2>2, Zenon
  <2>4. Planned(aepWork'[r])
    BY <2>3, PlannedEarly, SMT
  <2>5. QED
    BY <2>2, <2>4, Zenon DEF OthersAtWork
<1>8. CASE aepWork' = aepWork
  BY <1>8, Zenon
<1>9. ASSUME NEW r \in Replicas,
             \/ StopAgent(r) \/ DeliverDomainTo(r)
             \/ \E n \in AepNames : DeliverEndpoint(r, n)
             \/ \E i \in Inputs : DeliverInput(r, i)
      PROVE aepWork' = aepWork
  BY <1>9, Zenon DEF StopAgent, DeliverDomainTo, DeliverEndpoint, DeliverInput
<1>10. ASSUME \/ \E n \in AepNames : WriteObject(n) \/ DeleteObject(n)
              \/ \E i \in Inputs : WriteInput(i)
              \/ DomainStep \/ DeleteDomain
       PROVE aepWork' = aepWork
  BY <1>10, Zenon DEF WriteObject, DeleteObject, WriteInput, DomainStep, DeleteDomain
<1> HIDE DEF P
<1>11. QED
  BY <1>1, <1>2, <1>3, <1>4, <1>5, <1>6, <1>7, <1>8, <1>9, <1>10, Zenon
     DEF AgentNext, ReconcileEndpoint

\* Only Resolve sends a reconcile to the forwarder.
LEMMA ForwardComes ==
    ASSUME AgentTypeOK, WorkInv, AgentNext, NEW q \in Replicas, aepWork'[q].pc = "forward"
    PROVE  aepWork'[q] = aepWork[q] \/ Resolve(q)
<1>1. ASSUME NEW r \in Replicas, OthersAtWork(r), aepWork'[r].pc # "forward"
      PROVE  aepWork'[q] = aepWork[q]
  BY <1>1, Zenon DEF OthersAtWork
<1>2. ASSUME NEW r \in Replicas, NEW n \in AepNames, StartEndpoint(r, n)
      PROVE  OthersAtWork(r) /\ aepWork'[r].pc # "forward"
  <2>1. OthersAtWork(r)
    BY <1>2, StartStep, Zenon
  <2>2. aepWork'[r].pc = "idle" \/ aepWork'[r].pc = "register" \/ aepWork'[r].pc = "domain" \/ aepWork'[r].pc = "close"
    BY <1>2, StartStep, Zenon
  <2>3. aepWork'[r].pc # "forward"
    BY <2>2
  <2>4. QED
    BY <2>1, <2>3
<1>3. ASSUME NEW r \in Replicas, RegisterEndpoint(r) PROVE OthersAtWork(r) /\ aepWork'[r].pc # "forward"
  <2>1. PICK n : n = aepWork[r].name
    BY Zenon
  <2>2. OthersAtWork(r) /\ (GivenUp(r, n) \/ Registered(r, n))
    BY <1>3, <2>1, RegisterStep, Zenon
  <2>3. aepWork'[r].pc = "idle" \/ aepWork'[r].pc = "domain"
    BY <2>2, Zenon DEF GivenUp, Registered
  <2>4. aepWork'[r].pc # "forward"
    BY <2>3
  <2>5. QED
    BY <2>2, <2>4
<1>4. ASSUME NEW r \in Replicas, EnsureDomainExists(r) PROVE OthersAtWork(r) /\ aepWork'[r].pc # "forward"
  <2>1. OthersAtWork(r) /\ (aepWork'[r].pc = "resolve" \/ aepWork'[r].pc = "status")
    BY <1>4, EnsureDomainStep, Zenon
  <2>2. aepWork'[r].pc # "forward"
    BY <2>1
  <2>3. QED
    BY <2>1, <2>2
<1>5. ASSUME NEW r \in Replicas, CreateAgentEndpoint(r) \/ ForwardFails(r)
      PROVE OthersAtWork(r) /\ aepWork'[r].pc # "forward"
  <2>1. PICK n : n = aepWork[r].name
    BY Zenon
  <2>2. aepWork[r].content \in InputContents
    BY <1>5, Zenon DEF WorkInv, Planned, InputContents, CreateAgentEndpoint, ForwardFails
  <2>3. OthersAtWork(r) /\ aepWork'[r].pc = "status"
    BY <1>5, <2>1, <2>2, CreateStep, ForwardFailsStep, Zenon
  <2>4. aepWork'[r].pc # "forward"
    BY <2>3
  <2>5. QED
    BY <2>3, <2>4
<1>6. ASSUME NEW r \in Replicas,
             \/ DeleteAgentEndpoint(r) \/ updateEndpointStatus(r) \/ CloseFails(r) \/ Unregister(r)
             \/ RestartAgent(r) \/ Crash(r)
      PROVE OthersAtWork(r) /\ aepWork'[r].pc # "forward"
  <2>1. PICK n : n = aepWork[r].name
    BY Zenon
  <2>2. OthersAtWork(r) /\ (aepWork'[r].pc = "idle" \/ aepWork'[r].pc = "unregister")
    <3>1. CASE updateEndpointStatus(r)
      BY <2>1, <3>1, StatusStep, Zenon
    <3>2. CASE CloseFails(r)
      BY <2>1, <3>2, CloseFailsStep, Zenon
    <3>3. CASE Unregister(r)
      BY <2>1, <3>3, UnregisterStep, Zenon
    <3>4. CASE RestartAgent(r) \/ Crash(r)
      BY <3>4, ResetStep, Zenon
    <3>5. CASE DeleteAgentEndpoint(r)
      BY <2>1, <3>5, CloseStep, Zenon
    <3>6. QED
      BY <1>6, <3>1, <3>2, <3>3, <3>4, <3>5, Zenon
  <2>3. aepWork'[r].pc # "forward"
    BY <2>2
  <2>4. QED
    BY <2>2, <2>3
<1>7. ASSUME NEW r \in Replicas, Resolve(r), q # r PROVE aepWork'[q] = aepWork[q]
  BY <1>7, ResolveStep, Zenon DEF OthersAtWork
<1>8. ASSUME NEW r \in Replicas,
             \/ StopAgent(r) \/ DeliverDomainTo(r)
             \/ \E n \in AepNames : DeliverEndpoint(r, n)
             \/ \E i \in Inputs : DeliverInput(r, i)
      PROVE aepWork' = aepWork
  BY <1>8, Zenon DEF StopAgent, DeliverDomainTo, DeliverEndpoint, DeliverInput
<1>9. ASSUME \/ \E n \in AepNames : WriteObject(n) \/ DeleteObject(n)
             \/ \E i \in Inputs : WriteInput(i)
             \/ DomainStep \/ DeleteDomain
      PROVE aepWork' = aepWork
  BY <1>9, Zenon DEF WriteObject, DeleteObject, WriteInput, DomainStep, DeleteDomain
<1>10. QED
  BY <1>1, <1>2, <1>3, <1>4, <1>5, <1>6, <1>7, <1>8, <1>9, Zenon
     DEF AgentNext, ReconcileEndpoint

\* A change of what the cache holds calls the replica for those that refer to it.
LEMMA InputComes ==
    ASSUME AgentTypeOK, GenInv, Moves, AgentNext, NEW r \in Replicas, NEW n \in AepNames, Unasked(r, n)'
    PROVE  \A i \in aep[n].spec.refs : inputSeen'[r][i] = inputSeen[r][i]
<1>1. /\ SameObject(n) /\ aepSeen[r][n] # None /\ aepSeen[r][n].spec = aep[n].spec
      /\ n \notin aepQueue'[r]
  BY CallsKept, Zenon DEF Unasked
<1>2. aep[n].spec.refs \subseteq Inputs
  BY <1>1, StateTypes, ObjectTypes, AgentAssumption, Zenon DEF SameObject
<1>3. ASSUME NEW q \in Replicas, NEW i \in Inputs, DeliverInput(q, i)
      PROVE  \A j \in aep[n].spec.refs : inputSeen'[r][j] = inputSeen[r][j]
  <2>1. /\ \A p \in Replicas : p # q => inputSeen'[p] = inputSeen[p]
        /\ \A j \in Inputs : j # i => inputSeen'[q][j] = inputSeen[q][j]
        /\ Referring(q, i) \subseteq aepQueue'[q]
    BY <1>3, DeliverInputStep, Zenon
  <2>2. CASE r = q /\ i \in aep[n].spec.refs
    <3>1. n \in Referring(q, i)
      BY <1>1, <2>2, Zenon DEF Referring
    <3>2. QED
      BY <1>1, <2>1, <2>2, <3>1, Zenon
  <2>3. CASE r # q \/ i \notin aep[n].spec.refs
    BY <1>2, <2>1, <2>3, Zenon
  <2>4. QED
    BY <2>2, <2>3, Zenon
<1>4. ASSUME NEW q \in Replicas, RestartAgent(q) \/ Crash(q)
      PROVE  inputSeen'[r] = inputSeen[r]
  <2>1. /\ \A p \in Replicas : p # q => inputSeen'[p] = inputSeen[p]
        /\ \A m \in AepNames : aep[m] # None => m \in aepQueue'[q]
    BY <1>4, ResetStep, Zenon
  <2>2. QED
    BY <1>1, <2>1, Zenon DEF SameObject
<1>5. ASSUME NEW q \in Replicas,
             \/ \E m \in AepNames : StartEndpoint(q, m)
             \/ RegisterEndpoint(q) \/ EnsureDomainExists(q) \/ Resolve(q) \/ CreateAgentEndpoint(q)
      PROVE  inputSeen' = inputSeen
  BY <1>5, Zenon DEF StartEndpoint, RegisterEndpoint, EnsureDomainExists, Resolve, CreateAgentEndpoint, aepCaches
<1>6. ASSUME NEW q \in Replicas,
             \/ updateEndpointStatus(q) \/ DeleteAgentEndpoint(q) \/ Unregister(q)
             \/ ForwardFails(q) \/ CloseFails(q) \/ StopAgent(q) \/ DeliverDomainTo(q)
             \/ \E m \in AepNames : DeliverEndpoint(q, m)
      PROVE  inputSeen' = inputSeen
  BY <1>6, Zenon DEF updateEndpointStatus, DeleteAgentEndpoint, Unregister, ForwardFails, CloseFails,
                     StopAgent, DeliverDomainTo, DeliverEndpoint, aepCaches
<1>7. ASSUME \/ \E m \in AepNames : WriteObject(m) \/ DeleteObject(m)
             \/ \E i \in Inputs : WriteInput(i)
             \/ DomainStep \/ DeleteDomain
      PROVE  inputSeen' = inputSeen
  BY <1>7, Zenon DEF WriteObject, DeleteObject, WriteInput, DomainStep, DeleteDomain, aepCaches
<1>8. QED
  BY <1>3, <1>4, <1>5, <1>6, <1>7, Zenon DEF AgentNext, ReconcileEndpoint

LEMMA CurrentKept ==
    ASSUME AgentTypeOK, GenInv, WorkInv, CurrentInv, Moves, AgentNext
    PROVE  CurrentInv'
<1>1. SUFFICES ASSUME NEW r \in Replicas, NEW n \in AepNames, Busy(r, n)', Unasked(r, n)'
               PROVE  /\ aepWork'[r].obj.gen = aep'[n].gen
                      /\ aepWork'[r].obj.spec = aep'[n].spec
                      /\ aepWork'[r].obj.deleting = aep'[n].deleting
                      /\ aepWork'[r].pc = "forward" =>
                            \A i \in aep'[n].spec.refs : aepWork'[r].content[i] = inputSeen'[r][i]
  BY Zenon DEF CurrentInv, Current
<1>2. /\ SameObject(n)
      /\ Unasked(r, n) \/ StartEndpoint(r, n)
      /\ aepSeen[r][n].spec = aep[n].spec
      /\ aepSeen[r][n].gen = aep[n].gen /\ aepSeen[r][n].deleting = aep[n].deleting
  BY <1>1, CallsKept, Zenon
<1>3. aepWork'[r].pc # "idle" /\ aepWork'[r].name = n
  BY <1>1, Zenon DEF Busy
<1>4. Busy(r, n) => Current(r, n) /\ Unasked(r, n)
  <2>1. StartEndpoint(r, n) => aepWork[r].pc = "idle"
    BY StartStep, Zenon
  <2>2. QED
    BY <1>2, <2>1, Zenon DEF Busy, CurrentInv
<1>5. /\ aepWork'[r].obj.gen = aep'[n].gen
      /\ aepWork'[r].obj.spec = aep'[n].spec
      /\ aepWork'[r].obj.deleting = aep'[n].deleting
  <2>1. CASE aepWork'[r] = aepWork[r] \/ (aepWork[r].pc # "idle" /\ GoesOn(r))
    <3>1. Busy(r, n)
      <4>1. CASE aepWork'[r] = aepWork[r]
        BY <1>3, <4>1, SMT DEF Busy
      <4>2. CASE aepWork[r].pc # "idle" /\ GoesOn(r)
        BY <1>3, <4>2, Zenon DEF Busy, GoesOn
      <4>3. QED
        BY <2>1, <4>1, <4>2, Zenon
    <3>2. aepWork[r].obj.gen = aep[n].gen /\ aepWork[r].obj.spec = aep[n].spec
          /\ aepWork[r].obj.deleting = aep[n].deleting
      BY <1>4, <3>1, Zenon DEF Current
    <3>3. /\ aepWork'[r].obj.gen = aepWork[r].obj.gen
          /\ aepWork'[r].obj.spec = aepWork[r].obj.spec
          /\ aepWork'[r].obj.deleting = aepWork[r].obj.deleting
      BY <2>1, Zenon DEF GoesOn
    <3>4. QED
      BY <1>2, <3>2, <3>3, Zenon DEF SameObject
  <2>2. ASSUME NEW m \in AepNames, StartEndpoint(r, m)
        PROVE  aepWork'[r].obj = aepSeen[r][n]
    <3>1. aepWork'[r].pc = "idle" \/ (aepWork'[r].name = m /\ aepWork'[r].obj = aepSeen[r][m])
      BY <2>2, StartStep, Zenon
    <3>2. QED
      BY <1>3, <3>1, Zenon
  <2>3. CASE aepWork'[r].obj = aepSeen[r][n]
    BY <1>2, <2>3, Zenon DEF SameObject
  <2>4. CASE aepWork'[r].obj = aep'[aepWork'[r].name]
    BY <1>3, <2>4, Zenon
  <2>5. QED
    BY <1>3, <2>1, <2>2, <2>3, <2>4, Zenon DEF Moves, WorkMoves
<1>6. ASSUME aepWork'[r].pc = "forward"
      PROVE  \A i \in aep'[n].spec.refs : aepWork'[r].content[i] = inputSeen'[r][i]
  <2>1. \A i \in aep[n].spec.refs : inputSeen'[r][i] = inputSeen[r][i]
    BY <1>1, InputComes, Zenon
  <2>2. aep'[n].spec = aep[n].spec
    BY <1>2, Zenon DEF SameObject
  <2>3. CASE aepWork'[r] = aepWork[r]
    <3>1. \A i \in aep[n].spec.refs : aepWork[r].content[i] = inputSeen[r][i]
      BY <1>1, <1>4, <1>6, <2>3, Zenon DEF Current, Busy
    <3>2. QED
      BY <2>1, <2>2, <2>3, <3>1, Zenon
  <2>4. CASE Resolve(r)
    <3>1. /\ aepWork[r].pc = "resolve"
          /\ GoesOn(r)
          /\ aepWork'[r].pc # "status"
      BY <1>6, <2>4, ResolveStep, SMT
    <3>2. \A i \in aepWork[r].obj.spec.refs : aepWork'[r].content[i] = inputSeen[r][i]
      BY <2>4, <3>1, ResolveStep, Zenon
    <3>3. aepWork[r].obj.spec = aep'[n].spec
      BY <1>5, <3>1, Zenon DEF GoesOn
    <3>4. QED
      BY <2>1, <2>2, <3>2, <3>3, Zenon
  <2>5. QED
    BY <1>6, <2>3, <2>4, ForwardComes, Zenon
<1>7. QED
  BY <1>5, <1>6, Zenon

\* The steps that change the work or the forwarders of replica r are its own.
OwnStep(r) ==
    \/ ReconcileEndpoint(r) \/ ForwardFails(r) \/ CloseFails(r) \/ RestartAgent(r) \/ Crash(r)

Untouched(r) ==
    /\ aepWork'[r] = aepWork[r]
    /\ \A n \in AepNames : forwarders'[r][n] = forwarders[r][n]

LEMMA OwnSteps ==
    ASSUME AgentTypeOK, WorkInv, AgentNext, NEW r \in Replicas
    PROVE  Untouched(r) \/ OwnStep(r)
<1>1. ASSUME NEW q \in Replicas, q # r, OwnStep(q) PROVE Untouched(r)
  <2>1. PICK n : n = aepWork[q].name
    BY Zenon
  <2>2. CreateAgentEndpoint(q) => aepWork[q].content \in InputContents
    BY Zenon DEF WorkInv, Planned, CreateAgentEndpoint, InputContents
  <2>3. CASE CreateAgentEndpoint(q)
    <3>1. OthersAtWork(q) /\ OthersForwarding(q, n)
      BY <2>1, <2>2, <2>3, CreateStep, Zenon
    <3>2. QED
      BY <1>1, <3>1, Zenon DEF OthersAtWork, OthersForwarding, Untouched
  <2>4. CASE ForwardFails(q)
    <3>1. OthersAtWork(q) /\ OthersForwarding(q, n)
      BY <2>1, <2>4, ForwardFailsStep, Zenon
    <3>2. QED
      BY <1>1, <3>1, Zenon DEF OthersAtWork, OthersForwarding, Untouched
  <2>5. CASE DeleteAgentEndpoint(q)
    <3>1. OthersAtWork(q) /\ OthersForwarding(q, n)
      BY <2>1, <2>5, CloseStep, Zenon
    <3>2. QED
      BY <1>1, <3>1, Zenon DEF OthersAtWork, OthersForwarding, Untouched
  <2>6. CASE RestartAgent(q) \/ Crash(q)
    <3>1. OthersAtWork(q) /\ \A p \in Replicas : p # q => forwarders'[p] = forwarders[p]
      BY <2>6, ResetStep, Zenon
    <3>2. QED
      BY <1>1, <3>1, Zenon DEF OthersAtWork, Untouched
  <2>7. CASE \E m \in AepNames : StartEndpoint(q, m)
    <3>1. OthersAtWork(q) /\ forwarders' = forwarders
      BY <2>7, StartStep, Zenon
    <3>2. QED
      BY <1>1, <3>1, Zenon DEF OthersAtWork, Untouched
  <2>8. CASE RegisterEndpoint(q) \/ EnsureDomainExists(q) \/ Resolve(q)
    <3>1. OthersAtWork(q) /\ forwarders' = forwarders
      BY <2>1, <2>8, RegisterStep, EnsureDomainStep, ResolveStep, Zenon
    <3>2. QED
      BY <1>1, <3>1, Zenon DEF OthersAtWork, Untouched
  <2>9. CASE updateEndpointStatus(q) \/ CloseFails(q) \/ Unregister(q)
    <3>1. OthersAtWork(q) /\ forwarders' = forwarders
      BY <2>1, <2>9, StatusStep, CloseFailsStep, UnregisterStep, Zenon
    <3>2. QED
      BY <1>1, <3>1, Zenon DEF OthersAtWork, Untouched
  <2>10. QED
    BY <1>1, <2>3, <2>4, <2>5, <2>6, <2>7, <2>8, <2>9, Zenon DEF OwnStep, ReconcileEndpoint
<1>2. ASSUME NEW q \in Replicas,
             \/ StopAgent(q) \/ DeliverDomainTo(q)
             \/ \E n \in AepNames : DeliverEndpoint(q, n)
             \/ \E i \in Inputs : DeliverInput(q, i)
      PROVE Untouched(r)
  BY <1>2, Zenon DEF StopAgent, DeliverDomainTo, DeliverEndpoint, DeliverInput, Untouched
<1>3. ASSUME \/ \E n \in AepNames : WriteObject(n) \/ DeleteObject(n)
             \/ \E i \in Inputs : WriteInput(i)
             \/ DomainStep \/ DeleteDomain
      PROVE Untouched(r)
  BY <1>3, Zenon DEF WriteObject, DeleteObject, WriteInput, DomainStep, DeleteDomain, Untouched
<1>4. QED
  BY <1>1, <1>2, <1>3, Zenon DEF AgentNext, OwnStep

\* A forwarder that stays, or a reconcile that is still to make it.
LEMMA ServedStays ==
    ASSUME NEW r \in Replicas, NEW n \in AepNames, SameObject(n),
           \A i \in aep[n].spec.refs : inputSeen'[r][i] = inputSeen[r][i],
           Forwards(r, n, aep[n]),
           forwarders'[r][n] = forwarders[r][n]
    PROVE  Served(r, n)'
<1>1. aep'[n].gen = aep[n].gen /\ aep'[n].spec = aep[n].spec
  BY Zenon DEF SameObject
<1>2. PICK f : f = forwarders[r][n]
  BY Zenon
<1>3. f # None /\ f.open /\ f.gen = aep[n].gen /\ \A i \in aep[n].spec.refs : f.content[i] = inputSeen[r][i]
  BY <1>2, Zenon DEF Forwards
<1>4. f # None /\ f.open /\ f.gen = aep'[n].gen /\ \A i \in aep'[n].spec.refs : f.content[i] = inputSeen'[r][i]
  BY <1>1, <1>3, Zenon
<1>5. QED
  BY <1>2, <1>4, Zenon DEF Served, Forwards

LEMMA ServeKept ==
    ASSUME AgentTypeOK, GenInv, WorkInv, CurrentInv, ServeInv, Moves, AgentNext
    PROVE  ServeInv'
<1>1. SUFFICES ASSUME NEW r \in Replicas, NEW n \in AepNames,
                      Unasked(r, n)', ~aep'[n].deleting, Usable(r, aep[n])'
               PROVE  Served(r, n)'
  BY Zenon DEF ServeInv
<1>2. /\ SameObject(n)
      /\ Unasked(r, n) \/ StartEndpoint(r, n)
      /\ aepSeen[r][n] # None
      /\ aepSeen[r][n].gen = aep[n].gen /\ aepSeen[r][n].deleting = aep[n].deleting
  BY <1>1, CallsKept, Zenon
<1>3. n \notin aepQueue'[r]
  BY <1>1, Zenon DEF Unasked
<1>4. /\ aep[n] # None /\ ~aep[n].deleting
      /\ aep'[n].spec = aep[n].spec /\ aep'[n].gen = aep[n].gen
  BY <1>1, <1>2, Zenon DEF SameObject
<1>5. \A i \in aep[n].spec.refs : inputSeen'[r][i] = inputSeen[r][i]
  BY <1>1, InputComes, Zenon
<1>6. \A i \in aep[n].spec.refs : inputSeen[r][i] # None /\ inputSeen[r][i] # "bad"
  BY <1>1, <1>4, <1>5, Zenon DEF Usable
<1>7. CASE StartEndpoint(r, n)
  <2>1. \/ aepWork'[r].pc = "idle" /\ (aepSeen[r][n] # None => aepSeen[r][n].deleting)
        \/ /\ aepWork'[r].name = n
           /\ \/ aepWork'[r].pc = "register"
              \/ aepWork'[r].pc = "domain"
              \/ aepSeen[r][n].deleting
    BY <1>7, StartStep, Zenon
  <2>2. aepWork'[r].name = n /\ (aepWork'[r].pc = "register" \/ aepWork'[r].pc = "domain")
    BY <1>2, <1>4, <2>1, Zenon
  <2>3. Busy(r, n)' /\ Pending(r)'
    BY <2>2, SMT DEF Busy, Pending
  <2>4. QED
    BY <2>3, Zenon DEF Served
<1>8. CASE ~StartEndpoint(r, n)
  <2>1. Unasked(r, n)
    BY <1>2, <1>8, Zenon
  <2>2. Served(r, n)
    <3>1. Usable(r, aep[n])
      BY <1>6, Zenon DEF Usable
    <3>2. QED
      BY <1>4, <2>1, <3>1, Zenon DEF ServeInv
  <2>3. ASSUME Forwards(r, n, aep[n]), forwarders'[r][n] = forwarders[r][n]
        PROVE  Served(r, n)'
    BY <1>2, <1>5, <2>3, ServedStays, Zenon
  <2>4. ASSUME ~Busy(r, n), forwarders'[r][n] = forwarders[r][n]
        PROVE  Served(r, n)'
    BY <2>2, <2>3, <2>4, Zenon DEF Served
  <2>5. ASSUME aepWork'[r].name = n,
               \/ aepWork'[r].pc = "domain" \/ aepWork'[r].pc = "resolve" \/ aepWork'[r].pc = "forward"
               \/ aepWork'[r].pc = "status" /\ aepWork'[r].after = "again"
        PROVE  Served(r, n)'
    <3>1. Busy(r, n)' /\ Pending(r)'
      BY <2>5, SMT DEF Busy, Pending
    <3>2. QED
      BY <3>1, Zenon DEF Served
  <2>6. CASE Untouched(r)
    <3>1. CASE Forwards(r, n, aep[n])
      BY <2>3, <2>6, <3>1, Zenon DEF Untouched
    <3>2. CASE Busy(r, n) /\ Pending(r)
      <4>1. aepWork'[r] = aepWork[r]
        BY <2>6, Zenon DEF Untouched
      <4>2. Busy(r, n)' /\ Pending(r)'
        BY <3>2, <4>1, SMT DEF Busy, Pending
      <4>3. QED
        BY <4>2, Zenon DEF Served
    <3>3. QED
      BY <2>2, <3>1, <3>2, Zenon DEF Served
  <2>7. ASSUME NEW m \in AepNames, StartEndpoint(r, m) PROVE Served(r, n)'
    <3>1. aepWork[r].pc = "idle" /\ forwarders' = forwarders
      BY <2>7, StartStep, Zenon
    <3>2. QED
      BY <2>4, <3>1, Zenon DEF Busy
  <2>8. CASE RestartAgent(r) \/ Crash(r)
    <3>1. n \in aepQueue'[r]
      BY <1>4, <2>8, ResetStep, Zenon
    <3>2. QED
      BY <1>3, <3>1, Zenon
  <2>9. PICK x : x = aepWork[r].name
    BY Zenon
  <2>10. aepWork[r].pc # "idle" /\ x = n =>
           /\ Busy(r, n)
           /\ aepWork[r].obj.gen = aep[n].gen
           /\ aepWork[r].obj.spec = aep[n].spec
           /\ ~aepWork[r].obj.deleting
           /\ aepWork[r].pc = "forward" =>
                 \A i \in aep[n].spec.refs : aepWork[r].content[i] = inputSeen[r][i]
    BY <1>4, <2>1, <2>9, Zenon DEF CurrentInv, Current, Busy
  <2>11. x # n => ~Busy(r, n)
    BY <2>9, Zenon DEF Busy
  <2>12. CASE RegisterEndpoint(r)
    <3>1. forwarders' = forwarders /\ (GivenUp(r, x) \/ Registered(r, x))
      BY <2>9, <2>12, RegisterStep, Zenon
    <3>2. CASE x = n
      BY <1>3, <1>4, <2>5, <3>1, <3>2, Zenon DEF GivenUp, Registered
    <3>3. QED
      BY <2>4, <2>11, <3>1, <3>2, Zenon
  <2>13. CASE EnsureDomainExists(r)
    <3>1. /\ forwarders' = forwarders
          /\ GoesOn(r)
          /\ \/ aepWork'[r].pc = "resolve"
             \/ aepWork'[r].pc = "status" /\ aepWork'[r].after = "again"
      BY <2>13, EnsureDomainStep, Zenon
    <3>2. CASE x = n
      BY <2>5, <2>9, <3>1, <3>2, Zenon DEF GoesOn
    <3>3. QED
      BY <2>4, <2>11, <3>1, <3>2, Zenon
  <2>14. CASE Resolve(r)
    <3>1. /\ aepWork[r].pc = "resolve"
          /\ forwarders' = forwarders
          /\ GoesOn(r)
          /\ \/ aepWork'[r].pc = "status" /\ aepWork'[r].after = "again"
             \/ "policy" \in aepWork[r].obj.spec.refs /\ inputSeen[r]["policy"] = None
             \/ aepWork'[r].pc = "forward"
      BY <2>14, ResolveStep, Zenon
    <3>2. aepWork[r].pc # "idle"
      BY <3>1
    <3>3. CASE x = n
      <4>1. ~("policy" \in aepWork[r].obj.spec.refs /\ inputSeen[r]["policy"] = None)
        BY <1>6, <2>10, <3>2, <3>3, Zenon
      <4>2. QED
        BY <2>5, <2>9, <3>1, <3>3, <4>1, Zenon DEF GoesOn
    <3>4. QED
      BY <2>4, <2>11, <3>1, <3>3, Zenon
  <2>15. CASE CreateAgentEndpoint(r)
    <3>1. aepWork[r].pc = "forward"
      BY <2>15, Zenon DEF CreateAgentEndpoint
    <3>2. aepWork[r].pc # "idle"
      BY <3>1
    <3>3. aepWork[r].content \in InputContents
      BY <3>1, Zenon DEF WorkInv, Planned, InputContents
    <3>4. /\ OthersForwarding(r, x) /\ GoesOn(r)
          /\ aepWork'[r].pc = "status"
          /\ \/ aepWork'[r].after = "again" /\ forwarders' = forwarders
             \/ "policy" \in aepWork[r].obj.spec.refs /\ aepWork[r].content["policy"] = "bad"
             \/ /\ forwarders'[r][x] # None
                /\ forwarders'[r][x].open
                /\ forwarders'[r][x].gen = aepWork[r].obj.gen
                /\ forwarders'[r][x].content = aepWork[r].content
      BY <2>9, <2>15, <3>3, CreateStep, Zenon
    <3>5. CASE x # n
      BY <2>4, <2>11, <3>4, <3>5, Zenon DEF OthersForwarding
    <3>6. CASE x = n
      <4>1. CASE aepWork'[r].after = "again"
        BY <2>5, <2>9, <3>4, <3>6, <4>1, Zenon DEF GoesOn
      <4>2. CASE "policy" \in aepWork[r].obj.spec.refs /\ aepWork[r].content["policy"] = "bad"
        BY <1>6, <2>10, <3>1, <3>2, <3>6, <4>2, Zenon
      <4>3. CASE /\ forwarders'[r][x] # None
                 /\ forwarders'[r][x].open
                 /\ forwarders'[r][x].gen = aepWork[r].obj.gen
                 /\ forwarders'[r][x].content = aepWork[r].content
        <5>1. \A i \in aep'[n].spec.refs : forwarders'[r][n].content[i] = inputSeen'[r][i]
          BY <1>4, <1>5, <2>10, <3>1, <3>2, <3>6, <4>3, Zenon
        <5>2. forwarders'[r][n].gen = aep'[n].gen
          BY <1>4, <2>10, <3>2, <3>6, <4>3, Zenon
        <5>3. QED
          BY <3>6, <4>3, <5>1, <5>2, Zenon DEF Served, Forwards
      <4>4. QED
        BY <3>4, <4>1, <4>2, <4>3, Zenon
    <3>7. QED
      BY <3>5, <3>6, Zenon
  <2>16. CASE ForwardFails(r)
    <3>1. /\ OthersForwarding(r, x) /\ GoesOn(r)
          /\ aepWork'[r].pc = "status" /\ aepWork'[r].after = "again"
      BY <2>9, <2>16, ForwardFailsStep, Zenon
    <3>2. CASE x # n
      BY <2>4, <2>11, <3>1, <3>2, Zenon DEF OthersForwarding
    <3>3. CASE x = n
      BY <2>5, <2>9, <3>1, <3>3, Zenon DEF GoesOn
    <3>4. QED
      BY <3>2, <3>3, Zenon
  <2>17. CASE updateEndpointStatus(r)
    <3>1. /\ aepWork[r].pc = "status"
          /\ forwarders' = forwarders
          /\ \/ x \in aepQueue'[r]
             \/ aepWork[r].after = "again" => x \in aepQueue'[r]
      BY <2>9, <2>17, StatusStep, Zenon
    <3>2. CASE x = n
      <4>1. aepWork[r].after # "again"
        BY <1>3, <3>1, <3>2, Zenon
      <4>2. ~Pending(r)
        BY <3>1, <4>1, SMT DEF Pending
      <4>3. QED
        BY <2>2, <2>3, <3>1, <4>2, Zenon DEF Served
    <3>3. QED
      BY <2>4, <2>11, <3>1, <3>2, Zenon
  <2>18. CASE DeleteAgentEndpoint(r) \/ CloseFails(r) \/ Unregister(r)
    <3>1. aepWork[r].pc = "close" \/ aepWork[r].pc = "unregister"
      BY <2>18, Zenon DEF DeleteAgentEndpoint, CloseFails, Unregister
    <3>2. aepWork[r].pc # "idle" /\ aepWork[r].pc \in {"close", "unregister"}
      BY <3>1
    <3>3. aepWork[r].obj.deleting
      BY <3>2, Zenon DEF WorkInv, Planned
    <3>4. x # n
      BY <2>10, <3>2, <3>3, Zenon
    <3>5. forwarders'[r][n] = forwarders[r][n]
      <4>1. CASE DeleteAgentEndpoint(r)
        <5>1. OthersForwarding(r, x)
          BY <2>9, <4>1, CloseStep, Zenon
        <5>2. QED
          BY <3>4, <5>1, Zenon DEF OthersForwarding
      <4>2. CASE CloseFails(r) \/ Unregister(r)
        BY <4>2, Zenon DEF CloseFails, Unregister
      <4>3. QED
        BY <2>18, <4>1, <4>2, Zenon
    <3>6. QED
      BY <2>4, <2>11, <3>4, <3>5, Zenon
  <2>19. QED
    BY <2>6, <2>7, <2>8, <2>12, <2>13, <2>14, <2>15, <2>16, <2>17, <2>18, OwnSteps, Zenon
       DEF OwnStep, ReconcileEndpoint
<1>9. QED
  BY <1>7, <1>8, Zenon

\* What the cache has of the Domain changes by a delivery or a restart, and the Domain
\* changes with news for all.
LEMMA DomainComes ==
    ASSUME AgentTypeOK, AgentNext, NEW r \in Replicas, r \notin domNews'
    PROVE  \/ r \notin domNews /\ dom' = dom /\ domSeen'[r] = domSeen[r]
           \/ dom' = dom /\ domSeen'[r] = dom /\ (DeliverDomainTo(r) \/ RestartAgent(r) \/ Crash(r))
<1>1. ASSUME NEW q \in Replicas, DeliverDomainTo(q)
      PROVE  \/ r \notin domNews /\ dom' = dom /\ domSeen'[r] = domSeen[r]
             \/ q = r /\ dom' = dom /\ domSeen'[r] = dom
  BY <1>1, DeliverDomainStep, Zenon
<1>2. ASSUME NEW q \in Replicas, RestartAgent(q) \/ Crash(q)
      PROVE  \/ r \notin domNews /\ dom' = dom /\ domSeen'[r] = domSeen[r]
             \/ q = r /\ dom' = dom /\ domSeen'[r] = dom
  <2>1. /\ domSeen'[q] = dom /\ domNews' = domNews \ {q} /\ dom' = dom
        /\ \A p \in Replicas : p # q => domSeen'[p] = domSeen[p]
    BY <1>2, ResetStep, Zenon
  <2>2. QED
    BY <2>1, Zenon
<1>3. ASSUME NEW q \in Replicas, EnsureDomainExists(q)
      PROVE  r \notin domNews /\ dom' = dom /\ domSeen'[r] = domSeen[r]
  BY <1>3, EnsureDomainStep, Zenon DEF DomainNews
<1>4. ASSUME DomainStep \/ DeleteDomain
      PROVE  r \notin domNews /\ dom' = dom /\ domSeen'[r] = domSeen[r]
  BY <1>4, DomainChangeStep, Zenon DEF DomainNews
<1>5. ASSUME NEW q \in Replicas,
             \/ \E m \in AepNames : StartEndpoint(q, m)
             \/ RegisterEndpoint(q) \/ Resolve(q) \/ CreateAgentEndpoint(q)
      PROVE  UNCHANGED <<dom, domNews, domSeen>>
  BY <1>5, Zenon DEF StartEndpoint, RegisterEndpoint, Resolve, CreateAgentEndpoint, aepCaches, domVars
<1>6. ASSUME NEW q \in Replicas,
             \/ updateEndpointStatus(q) \/ DeleteAgentEndpoint(q) \/ Unregister(q)
             \/ ForwardFails(q) \/ CloseFails(q) \/ StopAgent(q)
             \/ \E m \in AepNames : DeliverEndpoint(q, m)
             \/ \E i \in Inputs : DeliverInput(q, i)
      PROVE  UNCHANGED <<dom, domNews, domSeen>>
  BY <1>6, Zenon DEF updateEndpointStatus, DeleteAgentEndpoint, Unregister, ForwardFails, CloseFails,
                     StopAgent, DeliverEndpoint, DeliverInput, aepCaches, domVars
<1>7. ASSUME \/ \E m \in AepNames : WriteObject(m) \/ DeleteObject(m)
             \/ \E i \in Inputs : WriteInput(i)
      PROVE  UNCHANGED <<dom, domNews, domSeen>>
  BY <1>7, Zenon DEF WriteObject, DeleteObject, WriteInput, aepCaches, domVars
<1>8. QED
  BY <1>1, <1>2, <1>3, <1>4, <1>5, <1>6, <1>7, Zenon DEF AgentNext, ReconcileEndpoint

\* Only a status write takes the reference to the Domain from an object.
LEMMA RefGoes ==
    ASSUME AgentTypeOK, GenInv, AgentNext, NEW n \in AepNames, SameObject(n),
           aep[n].domainRef, ~aep'[n].domainRef
    PROVE  \E q \in Replicas : updateEndpointStatus(q) /\ aepWork[q].name = n
<1>0. aep'[n] # aep[n]
  BY Zenon
<1>1. ASSUME NEW q \in Replicas, RegisterEndpoint(q) PROVE FALSE
  <2>1. PICK x : x = aepWork[q].name
    BY Zenon
  <2>2. OthersWritten(x) /\ (GivenUp(q, x) \/ Registered(q, x))
    BY <1>1, <2>1, RegisterStep, Zenon
  <2>3. QED
    BY <1>0, <2>2, Zenon DEF OthersWritten, GivenUp, Registered
<1>2. ASSUME NEW q \in Replicas, Unregister(q) PROVE FALSE
  <2>1. PICK x : x = aepWork[q].name
    BY Zenon
  <2>2. OthersWritten(x) /\ (aep' = aep \/ aep'[x] = None \/ aep'[x].domainRef = aep[x].domainRef)
    BY <1>2, <2>1, UnregisterStep, Zenon
  <2>3. QED
    BY <1>0, <2>2, Zenon DEF OthersWritten, SameObject
<1>3. ASSUME NEW q \in Replicas, updateEndpointStatus(q) PROVE aepWork[q].name = n
  <2>1. PICK x : x = aepWork[q].name
    BY Zenon
  <2>2. OthersWritten(x)
    BY <1>3, <2>1, StatusStep, Zenon
  <2>3. QED
    BY <1>0, <2>1, <2>2, Zenon DEF OthersWritten
<1>4. ASSUME NEW x \in AepNames, WriteObject(x) PROVE FALSE
  <2>1. OthersWritten(x) /\ aep'[x].gen = aepEvents + 1 /\ aepEvents \in Nat
    BY <1>4, WriteObjectStep, Zenon
  <2>2. x = n
    BY <1>0, <2>1, Zenon DEF OthersWritten
  <2>3. aep[n].gen = aepEvents + 1
    BY <2>1, <2>2, Zenon DEF SameObject
  <2>4. aep[n].gen <= aepEvents
    BY Zenon DEF GenInv, SameObject
  <2>5. QED
    BY <2>1, <2>3, <2>4
<1>5. ASSUME NEW x \in AepNames, DeleteObject(x) PROVE FALSE
  <2>1. OthersWritten(x) /\ ~aep[x].deleting /\ (aep'[x] = None \/ aep'[x].deleting)
    BY <1>5, DeleteObjectStep, Zenon
  <2>2. QED
    BY <1>0, <2>1, Zenon DEF OthersWritten, SameObject
<1>6. ASSUME NEW q \in Replicas,
             \/ \E m \in AepNames : StartEndpoint(q, m)
             \/ EnsureDomainExists(q) \/ Resolve(q) \/ CreateAgentEndpoint(q)
             \/ DeleteAgentEndpoint(q) \/ ForwardFails(q) \/ CloseFails(q) \/ StopAgent(q)
      PROVE  FALSE
  BY <1>0, <1>6, Zenon DEF StartEndpoint, EnsureDomainExists, Resolve, CreateAgentEndpoint,
                           DeleteAgentEndpoint, ForwardFails, CloseFails, StopAgent
<1>7. ASSUME NEW q \in Replicas,
             \/ DeliverDomainTo(q) \/ RestartAgent(q) \/ Crash(q)
             \/ \E m \in AepNames : DeliverEndpoint(q, m)
             \/ \E i \in Inputs : DeliverInput(q, i)
      PROVE  FALSE
  BY <1>0, <1>7, Zenon DEF DeliverDomainTo, RestartAgent, Crash, Reset, DeliverEndpoint, DeliverInput
<1>8. ASSUME (\E i \in Inputs : WriteInput(i)) \/ DomainStep \/ DeleteDomain
      PROVE  FALSE
  BY <1>0, <1>8, Zenon DEF WriteInput, DomainStep, DeleteDomain
<1>9. QED
  BY <1>1, <1>2, <1>3, <1>4, <1>5, <1>6, <1>7, <1>8, Zenon DEF AgentNext, ReconcileEndpoint

\* A status write that ends the reconcile of a public endpoint leaves the reference.
LEMMA StatusRef ==
    ASSUME AgentTypeOK, GenInv, WorkInv, CurrentInv, Moves, NEW q \in Replicas, updateEndpointStatus(q),
           NEW n \in AepNames, n = aepWork[q].name, Unasked(q, n)', aep'[n].spec.url = "public"
    PROVE  aep'[n].domainRef
<1>1. /\ aepWork[q].pc = "status"
      /\ n \in aepQueue'[q] \/ aep'[n].domainRef = aepWork[q].obj.domainRef
      /\ aepWork[q].after = "again" => n \in aepQueue'[q]
  BY StatusStep, Zenon
<1>2. n \notin aepQueue'[q]
  BY Zenon DEF Unasked
<1>3. aepWork[q].pc # "idle"
  BY <1>1
<1>4. Busy(q, n)
  BY <1>3, Zenon DEF Busy
<1>5. SameObject(n) /\ (Unasked(q, n) \/ StartEndpoint(q, n))
  BY CallsKept, Zenon
<1>6. Unasked(q, n)
  <2>1. StartEndpoint(q, n) => aepWork[q].pc = "idle"
    BY StartStep, Zenon
  <2>2. QED
    BY <1>3, <1>5, <2>1, Zenon
<1>7. aepWork[q].obj.spec.url = "public"
  BY <1>4, <1>5, <1>6, Zenon DEF CurrentInv, Current, SameObject
<1>8. aepWork[q].obj.domainRef
  <2>1. aepWork[q].pc \in {"resolve", "forward", "status"}
    BY <1>1
  <2>2. QED
    BY <1>1, <1>2, <1>7, <2>1, Zenon DEF WorkInv, Planned
<1>9. QED
  BY <1>1, <1>2, <1>8, Zenon

\* The reconcile of r is on the way to the status of its endpoint.
Updating(r) == aepWork[r].pc \in {"register", "domain", "resolve", "forward", "status"}

\* An update stays under way until its status is written, unless it is taken up again.
LEMMA UpdateGoesOn ==
    ASSUME AgentTypeOK, GenInv, WorkInv, Moves, AgentNext, NEW r \in Replicas, NEW n \in AepNames,
           Unasked(r, n)', Busy(r, n), Updating(r), ~updateEndpointStatus(r)
    PROVE  Busy(r, n)' /\ Updating(r)'
<1>1. n \notin aepQueue'[r] /\ aepWork[r].name = n /\ aepWork[r].pc # "idle"
  BY Zenon DEF Unasked, Busy
<1>2. SameObject(n)
  BY CallsKept, Zenon
<1>3. ASSUME aepWork'[r].name = n,
             \/ aepWork'[r].pc = "domain" \/ aepWork'[r].pc = "resolve" \/ aepWork'[r].pc = "forward"
             \/ aepWork'[r].pc = "status"
      PROVE  Busy(r, n)' /\ Updating(r)'
  BY <1>3, SMT DEF Busy, Updating
<1>4. CASE Untouched(r)
  <2>1. aepWork'[r] = aepWork[r]
    BY <1>4, Zenon DEF Untouched
  <2>2. QED
    BY <2>1, SMT DEF Busy, Updating
<1>5. ASSUME NEW m \in AepNames, StartEndpoint(r, m) PROVE FALSE
  BY <1>1, <1>5, StartStep, Zenon
<1>6. CASE RestartAgent(r) \/ Crash(r)
  <2>1. n \in aepQueue'[r]
    BY <1>2, <1>6, ResetStep, Zenon DEF SameObject
  <2>2. QED
    BY <1>1, <2>1, Zenon
<1>7. CASE RegisterEndpoint(r)
  <2>1. GivenUp(r, n) \/ Registered(r, n)
    BY <1>1, <1>7, RegisterStep, Zenon
  <2>2. QED
    BY <1>1, <1>3, <2>1, Zenon DEF GivenUp, Registered
<1>8. CASE EnsureDomainExists(r)
  <2>1. GoesOn(r) /\ (aepWork'[r].pc = "resolve" \/ aepWork'[r].pc = "status")
    BY <1>8, EnsureDomainStep, Zenon
  <2>2. QED
    BY <1>1, <1>3, <2>1, Zenon DEF GoesOn
<1>9. CASE Resolve(r)
  <2>1. GoesOn(r) /\ (aepWork'[r].pc = "forward" \/ aepWork'[r].pc = "status")
    BY <1>9, ResolveStep, Zenon
  <2>2. QED
    BY <1>1, <1>3, <2>1, Zenon DEF GoesOn
<1>10. CASE CreateAgentEndpoint(r)
  <2>1. aepWork[r].content \in InputContents
    BY <1>10, Zenon DEF WorkInv, Planned, InputContents, CreateAgentEndpoint
  <2>2. GoesOn(r) /\ aepWork'[r].pc = "status"
    BY <1>1, <1>10, <2>1, CreateStep, Zenon
  <2>3. QED
    BY <1>1, <1>3, <2>2, Zenon DEF GoesOn
<1>11. CASE ForwardFails(r)
  <2>1. GoesOn(r) /\ aepWork'[r].pc = "status"
    BY <1>1, <1>11, ForwardFailsStep, Zenon
  <2>2. QED
    BY <1>1, <1>3, <2>1, Zenon DEF GoesOn
<1>12. CASE DeleteAgentEndpoint(r) \/ CloseFails(r) \/ Unregister(r)
  <2>1. aepWork[r].pc = "close" \/ aepWork[r].pc = "unregister"
    BY <1>12, Zenon DEF DeleteAgentEndpoint, CloseFails, Unregister
  <2>2. QED
    BY <2>1, SMT DEF Updating
<1>13. QED
  BY <1>4, <1>5, <1>6, <1>7, <1>8, <1>9, <1>10, <1>11, <1>12, OwnSteps, Zenon
     DEF OwnStep, ReconcileEndpoint

\* A request that is taken up for a live object begins an update.
LEMMA UpdateBegins ==
    ASSUME AgentTypeOK, GenInv, Moves, NEW r \in Replicas, NEW n \in AepNames, Unasked(r, n)',
           StartEndpoint(r, n), ~aep'[n].deleting
    PROVE  Busy(r, n)' /\ (aepWork'[r].pc = "register" \/ aepWork'[r].pc = "domain") /\ Updating(r)'
<1>1. /\ SameObject(n) /\ aepSeen[r][n] # None /\ aepSeen[r][n].deleting = aep[n].deleting
  BY CallsKept, Zenon
<1>2. ~aepSeen[r][n].deleting
  BY <1>1, Zenon DEF SameObject
<1>3. \/ aepWork'[r].pc = "idle" /\ (aepSeen[r][n] # None => aepSeen[r][n].deleting)
      \/ /\ aepWork'[r].name = n
         /\ \/ aepWork'[r].pc = "register"
            \/ aepWork'[r].pc = "domain"
            \/ aepSeen[r][n].deleting
  BY StartStep, Zenon
<1>4. aepWork'[r].name = n /\ (aepWork'[r].pc = "register" \/ aepWork'[r].pc = "domain")
  BY <1>1, <1>2, <1>3, Zenon
<1>5. QED
  BY <1>4, SMT DEF Busy, Updating

LEMMA DomainKept ==
    ASSUME AgentTypeOK, GenInv, WorkInv, CurrentInv, DomainInv, Moves, AgentNext
    PROVE  DomainInv'
<1>1. ASSUME NEW r \in Replicas, r \notin domNews' PROVE domSeen'[r] = dom'
  BY <1>1, DomainComes, Zenon DEF DomainInv
<1>2. ASSUME NEW r \in Replicas, NEW n \in AepNames,
             dom' = None, r \notin domNews',
             Unasked(r, n)', ~aep'[n].deleting, aep'[n].spec.url = "public"
      PROVE  Busy(r, n)' /\ (aepWork'[r].pc = "register" \/ aepWork'[r].pc = "domain")
  <2>1. /\ SameObject(n)
        /\ Unasked(r, n) \/ StartEndpoint(r, n)
        /\ aepSeen[r][n] # None /\ aepSeen[r][n].spec = aep[n].spec
        /\ n \notin aepQueue'[r]
    BY <1>2, CallsKept, Zenon DEF Unasked
  <2>2. aep[n] # None /\ ~aep[n].deleting /\ aep[n].spec.url = "public"
    BY <1>2, <2>1, Zenon DEF SameObject
  <2>3. CASE StartEndpoint(r, n)
    BY <1>2, <2>3, UpdateBegins, Zenon
  <2>4. CASE ~StartEndpoint(r, n)
    <3>1. ~DeliverDomainTo(r)
      <4>1. SUFFICES ASSUME DeliverDomainTo(r) PROVE FALSE
        BY Zenon
      <4>2. aepSeen[r][n].spec.url # "tcp"
        BY <2>1, <2>2
      <4>3. n \in findAgentEndpointsForDomain(r)
        BY <2>1, <4>2, Zenon DEF findAgentEndpointsForDomain
      <4>4. findAgentEndpointsForDomain(r) \subseteq aepQueue'[r]
        BY <4>1, DeliverDomainStep, Zenon
      <4>5. QED
        BY <2>1, <4>3, <4>4, Zenon
    <3>2. ~(RestartAgent(r) \/ Crash(r))
      <4>1. SUFFICES ASSUME RestartAgent(r) \/ Crash(r) PROVE FALSE
        BY Zenon
      <4>2. n \in aepQueue'[r]
        BY <2>2, <4>1, ResetStep, Zenon
      <4>3. QED
        BY <2>1, <4>2, Zenon
    <3>3. r \notin domNews /\ dom = None /\ domSeen[r] = None
      BY <1>2, <3>1, <3>2, DomainComes, Zenon DEF DomainInv
    <3>4. Busy(r, n) /\ aepWork[r].pc \in {"register", "domain"}
      BY <2>1, <2>2, <2>4, <3>3, Zenon DEF DomainInv
    <3>5. aepWork[r].name = n /\ (aepWork[r].pc = "register" \/ aepWork[r].pc = "domain")
      BY <3>4, Zenon DEF Busy
    <3>6. CASE Untouched(r)
      <4>1. aepWork'[r] = aepWork[r]
        BY <3>6, Zenon DEF Untouched
      <4>2. QED
        BY <3>5, <4>1, SMT DEF Busy
    <3>7. ASSUME NEW m \in AepNames, StartEndpoint(r, m) PROVE FALSE
      <4>1. aepWork[r].pc = "idle"
        BY <3>7, StartStep, Zenon
      <4>2. QED
        BY <3>5, <4>1
    <3>8. CASE RegisterEndpoint(r)
      <4>1. GivenUp(r, n) \/ Registered(r, n)
        BY <3>5, <3>8, RegisterStep, Zenon
      <4>2. aepWork'[r].name = n /\ aepWork'[r].pc = "domain"
        BY <2>1, <4>1, Zenon DEF GivenUp, Registered
      <4>3. QED
        BY <4>2, SMT DEF Busy
    <3>9. ASSUME EnsureDomainExists(r) PROVE FALSE
      <4>1. aepWork[r].obj.spec.url = "public"
        BY <2>1, <2>2, <2>4, <3>4, Zenon DEF CurrentInv, Current
      <4>2. domSeen[r] # None \/ dom' # None
        BY <3>9, <4>1, EnsureDomainStep, Zenon
      <4>3. QED
        BY <1>2, <3>3, <4>2, Zenon
    <3>10. ASSUME \/ Resolve(r) \/ CreateAgentEndpoint(r) \/ ForwardFails(r) \/ updateEndpointStatus(r)
                  \/ DeleteAgentEndpoint(r) \/ CloseFails(r) \/ Unregister(r)
           PROVE FALSE
      <4>1. \/ aepWork[r].pc = "resolve" \/ aepWork[r].pc = "forward" \/ aepWork[r].pc = "status"
            \/ aepWork[r].pc = "close" \/ aepWork[r].pc = "unregister"
        BY <3>10, Zenon DEF Resolve, CreateAgentEndpoint, ForwardFails, updateEndpointStatus,
                            DeleteAgentEndpoint, CloseFails, Unregister
      <4>2. QED
        BY <3>5, <4>1
    <3>11. QED
      BY <3>2, <3>6, <3>7, <3>8, <3>9, <3>10, OwnSteps, Zenon DEF OwnStep, ReconcileEndpoint
  <2>5. QED
    BY <2>3, <2>4, Zenon
<1>3. ASSUME NEW n \in AepNames,
             aep'[n] # None, ~aep'[n].deleting, aep'[n].spec.url = "public", ~aep'[n].domainRef,
             \A r \in Replicas : Unasked(r, n)' /\ ~(Busy(r, n)' /\ Updating(r)')
      PROVE  FALSE
  <2>1. \A r \in Replicas : Unasked(r, n) /\ SameObject(n) /\ ~(Busy(r, n)' /\ Updating(r)')
    BY <1>3, CallsKept, UpdateBegins, Zenon
  <2>2. SameObject(n)
    BY <2>1, AgentAssumption, Zenon
  <2>3. aep[n] # None /\ ~aep[n].deleting /\ aep[n].spec.url = "public"
    BY <1>3, <2>2, Zenon DEF SameObject
  <2>4. ASSUME NEW q \in Replicas, updateEndpointStatus(q), aepWork[q].name = n PROVE FALSE
    BY <1>3, <2>4, StatusRef, Zenon
  <2>5. CASE aep[n].domainRef
    BY <1>3, <2>2, <2>4, <2>5, RefGoes, Zenon
  <2>6. CASE ~aep[n].domainRef
    <3>1. PICK r \in Replicas : Unasked(r, n) => Busy(r, n) /\ Updating(r)
      BY <2>3, <2>6, Zenon DEF DomainInv, Updating
    <3>2. Busy(r, n) /\ Updating(r)
      BY <2>1, <3>1, Zenon
    <3>3. ~updateEndpointStatus(r)
      BY <2>4, <3>2, Zenon DEF Busy
    <3>4. QED
      BY <1>3, <3>2, <3>3, UpdateGoesOn, Zenon
  <2>7. QED
    BY <2>5, <2>6, Zenon
<1>4. QED
  BY <1>1, <1>2, <1>3, Zenon DEF DomainInv, Updating

(***************************************************************************)
(* The initial states and the steps.                                       *)
(***************************************************************************)
LEMMA AgentStarts ==
    ASSUME AgentInit
    PROVE  AgentInv /\ HeldInv
<1>1. /\ \A n \in AepNames : aep[n] = None
      /\ \A r \in Replicas, n \in AepNames : aepSeen[r][n] = None /\ forwarders[r][n] = None
      /\ \A r \in Replicas : aepWork[r] = NoWork /\ domSeen[r] = dom
  BY Zenon DEF AgentInit
<1>2. \A r \in Replicas : aepWork[r].pc = "idle"
  BY <1>1, NoWorkFacts, Zenon
<1>3. \A r \in Replicas, n \in AepNames : ~Unasked(r, n) /\ ~Busy(r, n)
  BY <1>1, <1>2, Zenon DEF Unasked, Busy, GenerationChanged
<1>4. AgentTypeOK
  <2>1. 0 \in 0..MaxAepEvents
    BY AgentAssumption
  <2>2. /\ aep \in [AepNames -> Objects \cup {None}]
        /\ aepSeen \in [Replicas -> [AepNames -> Objects \cup {None}]]
        /\ aepQueue \in [Replicas -> SUBSET AepNames]
        /\ aepWork \in [Replicas -> AepWorks \cup {NoWork}]
        /\ forwarders \in [Replicas -> [AepNames -> Forwarders \cup {None}]]
    <3>1. aep \in [AepNames -> Objects \cup {None}]
      BY Zenon DEF AgentInit
    <3>2. aepSeen \in [Replicas -> [AepNames -> Objects \cup {None}]]
      BY <3>1, Zenon DEF AgentInit
    <3>3. aepQueue \in [Replicas -> SUBSET AepNames] /\ aepWork \in [Replicas -> AepWorks \cup {NoWork}]
      BY Zenon DEF AgentInit
    <3>4. [n \in AepNames |-> None] \in [AepNames -> Forwarders \cup {None}]
      BY Zenon
    <3>5. forwarders \in [Replicas -> [AepNames -> Forwarders \cup {None}]]
      BY <3>4, Zenon DEF AgentInit
    <3>6. QED
      BY <3>1, <3>2, <3>3, <3>5
  <2>3. /\ input \in [Inputs -> Contents \cup {None}]
        /\ inputSeen \in [Replicas -> [Inputs -> Contents \cup {None}]]
    BY Zenon DEF AgentInit
  <2>4. /\ dom \in Domains \cup {None}
        /\ domSeen \in [Replicas -> Domains \cup {None}]
        /\ domNews \subseteq Replicas /\ stopping \subseteq Replicas
        /\ aepEvents \in 0..MaxAepEvents
    BY <2>1, Zenon DEF AgentInit
  <2>5. QED
    BY <2>2, <2>3, <2>4, Zenon DEF AgentTypeOK
<1>5. GenInv
  BY <1>1, Zenon DEF GenInv, Older
<1>6. WorkInv
  <2>1. Planned(NoWork)
    BY NoWorkFacts, PlannedEarly, SMT
  <2>2. QED
    BY <1>1, <2>1, Zenon DEF WorkInv
<1>7. CurrentInv /\ ServeInv /\ DomainInv
  BY <1>1, <1>3, Zenon DEF CurrentInv, Current, ServeInv, DomainInv
<1>8. HeldInv
  BY <1>1, <1>3, Zenon DEF HeldInv, HeldObject, HeldWork
<1>9. QED
  BY <1>4, <1>5, <1>6, <1>7, <1>8, Zenon DEF AgentInv

LEMMA AgentSteps ==
    ASSUME AgentInv, AgentNext
    PROVE  AgentInv'
<1>1. AgentTypeOK /\ GenInv /\ WorkInv /\ CurrentInv /\ ServeInv /\ DomainInv
  BY Zenon DEF AgentInv
<1>2. AgentTypeOK' /\ Moves
  BY <1>1, NextMoves, Zenon
<1>3. GenInv'
  BY <1>1, <1>2, GenKept, Zenon
<1>4. WorkInv'
  BY <1>1, WorkKept, Zenon
<1>5. CurrentInv'
  BY <1>1, <1>2, CurrentKept, Zenon
<1>6. ServeInv'
  BY <1>1, <1>2, ServeKept, Zenon
<1>7. DomainInv'
  BY <1>1, <1>2, DomainKept, Zenon
<1>8. QED
  BY <1>2, <1>3, <1>4, <1>5, <1>6, <1>7, Zenon DEF AgentInv

LEMMA AgentStutters ==
    ASSUME AgentInv, UNCHANGED agentVars
    PROVE  AgentInv'
<1>1. UNCHANGED <<aep, input, dom, domNews, aepSeen, inputSeen, domSeen, aepQueue, aepWork, forwarders, stopping, aepEvents>>
  BY Zenon DEF agentVars, domVars, aepCaches
<1>2. AgentTypeOK'
  BY <1>1, Zenon DEF AgentInv, AgentTypeOK
<1>3. GenInv' /\ WorkInv'
  <2>1. GenInv /\ WorkInv
    BY Zenon DEF AgentInv
  <2>2. GenInv'
    BY <1>1, <2>1, Zenon DEF GenInv, Older
  <2>3. WorkInv'
    BY <1>1, <2>1, Zenon DEF WorkInv, Planned
  <2>4. QED
    BY <2>2, <2>3
<1>4. CurrentInv'
  BY <1>1, Zenon DEF AgentInv, CurrentInv, Current, Busy, Unasked, GenerationChanged
<1>5. \A r \in Replicas, n \in AepNames :
         /\ Unasked(r, n)' <=> Unasked(r, n)
         /\ Busy(r, n)' <=> Busy(r, n)
         /\ Served(r, n)' <=> Served(r, n)
         /\ Usable(r, aep[n])' <=> Usable(r, aep[n])
  <2>1. TAKE r \in Replicas, n \in AepNames
  <2>2. Unasked(r, n)' <=> Unasked(r, n)
    BY <1>1, Zenon DEF Unasked, GenerationChanged
  <2>3. Busy(r, n)' <=> Busy(r, n)
    BY <1>1, Zenon DEF Busy
  <2>4. Forwards(r, n, aep[n])' <=> Forwards(r, n, aep[n])
    BY <1>1, Zenon DEF Forwards
  <2>5. Pending(r)' <=> Pending(r)
    BY <1>1, Zenon DEF Pending
  <2>6. Usable(r, aep[n])' <=> Usable(r, aep[n])
    BY <1>1, Zenon DEF Usable
  <2>7. QED
    BY <2>2, <2>3, <2>4, <2>5, <2>6, Zenon DEF Served
<1>6. ServeInv' /\ DomainInv'
  <2>1. ServeInv'
    BY <1>1, <1>5, Zenon DEF AgentInv, ServeInv
  <2>2. DomainInv'
    BY <1>1, <1>5, Zenon DEF AgentInv, DomainInv
  <2>3. QED
    BY <2>1, <2>2
<1>7. QED
  BY <1>2, <1>3, <1>4, <1>5, <1>6, Zenon DEF AgentInv

\* The invariant holds of the AgentEndpoint controller and the agent driver, for any number
\* of replicas, endpoints, policies and Secrets: what a reconcile works on is current
\* unless the replica is called again, and what can be served is served or under way.
THEOREM AgentInvariant == AgentSpec => []AgentInv
<1>1. AgentInit => AgentInv
  BY AgentStarts
<1>2. AgentInv /\ [AgentNext]_agentVars => AgentInv'
  BY AgentSteps, AgentStutters
<1>3. QED
  BY <1>1, <1>2, PTL DEF AgentSpec

\* Replica r rests: no request and no event is to come for any endpoint.
LEMMA RestsFacts ==
    ASSUME AgentTypeOK, NEW r \in Replicas, Rests(r), NEW n \in AepNames, Live(n)
    PROVE  /\ Unasked(r, n) /\ ~Busy(r, n)
           /\ inputSeen[r] = input /\ domSeen[r] = dom /\ r \notin domNews
           /\ aep[n] # None /\ ~aep[n].deleting
<1>1. aepSeen[r] = aep /\ inputSeen[r] = input /\ domSeen[r] = dom
  BY Zenon DEF Rests
<1>2. aep[n] # None /\ ~aep[n].deleting
  BY Zenon DEF Live
<1>3. ~Busy(r, n)
  BY NoWorkFacts, Zenon DEF Rests, Busy
<1>4. Unasked(r, n)
  BY <1>1, <1>2, Zenon DEF Rests, Unasked, GenerationChanged
<1>5. QED
  BY <1>1, <1>2, <1>3, <1>4, Zenon DEF Rests

\* A replica that rests forwards for every live AgentEndpoint whose policy and Secret can
\* be used, with the latest spec and content (CreateAgentEndpoint); when all rest, a public
\* AgentEndpoint has its Domain and refers to it (EnsureDomainExists, updateStatus).
THEOREM AgentServesAlways == AgentSpec => [](AgentServes /\ DomainPresent)
<1>1. AgentInv => AgentServes
  <2>1. SUFFICES ASSUME AgentInv, NEW r \in Replicas, Rests(r), NEW n \in AepNames, Live(n), Resolvable(n)
                 PROVE  LET f == forwarders[r][n] IN
                        /\ f # None
                        /\ f.open
                        /\ f.gen = aep[n].gen
                        /\ \A i \in aep[n].spec.refs : f.content[i] = input[i]
    BY Zenon DEF AgentServes
  <2>2. /\ Unasked(r, n) /\ ~Busy(r, n) /\ inputSeen[r] = input /\ ~aep[n].deleting
    BY <2>1, RestsFacts, Zenon DEF AgentInv
  <2>3. Usable(r, aep[n])
    BY <2>1, <2>2, Zenon DEF Usable, Resolvable
  <2>4. Forwards(r, n, aep[n])
    BY <2>1, <2>2, <2>3, Zenon DEF AgentInv, ServeInv, Served
  <2>5. QED
    BY <2>2, <2>4, Zenon DEF Forwards
<1>2. AgentInv => DomainPresent
  <2>1. SUFFICES ASSUME AgentInv, \A r \in Replicas : Rests(r),
                        NEW n \in AepNames, Live(n), aep[n].spec.url = "public"
                 PROVE  dom # None /\ aep[n].domainRef
    BY Zenon DEF DomainPresent
  <2>2. \A r \in Replicas : Unasked(r, n) /\ ~Busy(r, n) /\ r \notin domNews
    BY <2>1, RestsFacts, Zenon DEF AgentInv
  <2>3. aep[n] # None /\ ~aep[n].deleting
    BY <2>1, Zenon DEF Live
  <2>4. aep[n].domainRef
    BY <2>1, <2>2, <2>3, Zenon DEF AgentInv, DomainInv
  <2>5. dom # None
    BY <2>1, <2>2, <2>3, AgentAssumption, Zenon DEF AgentInv, DomainInv
  <2>6. QED
    BY <2>4, <2>5
<1>3. QED
  BY <1>1, <1>2, AgentInvariant, PTL

(***************************************************************************)
(* With one replica, the forwarder goes before the finalizer does.         *)
(***************************************************************************)
FinalizerKept(n) == aep'[n] = aep[n] \/ (SameObject(n) /\ aep'[n].finalizer = aep[n].finalizer)

\* Of endpoint n, nothing is written but the status, nothing arrives, and no forwarder is
\* added.
LEMMA HeldSame ==
    ASSUME NEW r \in Replicas, NEW n \in AepNames, HeldObject(r, n), FinalizerKept(n),
           aepSeen'[r][n] = aepSeen[r][n],
           forwarders'[r][n] = None \/ forwarders'[r][n] = forwarders[r][n]
    PROVE  HeldObject(r, n)'
<1>1. CASE aep'[n] = aep[n]
  BY <1>1, Zenon DEF HeldObject
<1>2. CASE SameObject(n) /\ aep'[n].finalizer = aep[n].finalizer
  BY <1>2, Zenon DEF HeldObject, SameObject
<1>3. QED
  BY <1>1, <1>2, Zenon DEF FinalizerKept

LEMMA HeldWorkSame ==
    ASSUME NEW r \in Replicas, NEW n \in AepNames, HeldWork(r, n), FinalizerKept(n),
           aepSeen'[r][n] = aepSeen[r][n], aepWork'[r] = aepWork[r],
           forwarders'[r][n] = forwarders[r][n]
    PROVE  HeldWork(r, n)'
<1>0. PICK w : w = aepWork[r] /\ w = aepWork'[r]
  BY Zenon
<1>1. CASE aep'[n] = aep[n]
  BY <1>0, <1>1, Zenon DEF HeldWork, Busy
<1>2. CASE SameObject(n) /\ aep'[n].finalizer = aep[n].finalizer
  BY <1>0, <1>2, Zenon DEF HeldWork, Busy, SameObject
<1>3. QED
  BY <1>1, <1>2, Zenon DEF FinalizerKept

LEMMA HeldIdle ==
    ASSUME NEW r \in Replicas, NEW n \in AepNames, aepWork'[r].pc = "idle" \/ aepWork'[r].name # n
    PROVE  HeldWork(r, n)'
  BY Zenon DEF HeldWork, Busy

\* On the way to the status, the endpoint has the finalizer.
LEMMA HeldUpdate ==
    ASSUME NEW r \in Replicas, NEW n \in AepNames, aep'[n] # None, aep'[n].finalizer,
           \/ aepWork'[r].pc = "domain" \/ aepWork'[r].pc = "resolve" \/ aepWork'[r].pc = "forward"
           \/ aepWork'[r].pc = "status"
    PROVE  HeldWork(r, n)'
<1>1. aepWork'[r].pc \notin {"close", "unregister"} /\ aepWork'[r].pc # "unregister" /\ aepWork'[r].pc # "register"
  OBVIOUS
<1>2. QED
  BY <1>1, Zenon DEF HeldWork

LEMMA HeldKept ==
    ASSUME AgentTypeOK, WorkInv, HeldInv, AgentNext, \A r, q \in Replicas : r = q
    PROVE  HeldInv'
<1>1. SUFFICES ASSUME NEW r \in Replicas, NEW n \in AepNames
               PROVE  HeldObject(r, n)' /\ HeldWork(r, n)'
  BY Zenon DEF HeldInv
<1>2. HeldObject(r, n) /\ HeldWork(r, n)
  BY Zenon DEF HeldInv
<1> DEFINE Goal == HeldObject(r, n)' /\ HeldWork(r, n)'
<1>3. ASSUME FinalizerKept(n), aepSeen'[r][n] = aepSeen[r][n],
             aepWork'[r] = aepWork[r], forwarders'[r][n] = forwarders[r][n]
      PROVE  Goal
  BY <1>2, <1>3, HeldSame, HeldWorkSame, Zenon
<1>4. ASSUME aep'[n] = aep[n] PROVE FinalizerKept(n)
  BY <1>4, Zenon DEF FinalizerKept
<1>5. PICK x : x = aepWork[r].name
  BY Zenon
<1>6. CASE \E m \in AepNames : WriteObject(m)
  <2>1. PICK m \in AepNames : WriteObject(m)
    BY <1>6
  <2>2. /\ OthersWritten(m)
        /\ aep'[m] # None /\ ~aep'[m].deleting
        /\ aep[m] # None => ~aep[m].deleting /\ aep'[m].finalizer = aep[m].finalizer
        /\ aep[m] = None => ~aep'[m].finalizer
        /\ UNCHANGED <<aepSeen, aepWork, forwarders>>
    BY <2>1, WriteObjectStep, Zenon
  <2>3. CASE m # n
    BY <1>3, <1>4, <2>2, <2>3, Zenon DEF OthersWritten
  <2>4. CASE m = n
    <3>1. HeldObject(r, n)'
      BY <1>2, <2>2, <2>4, Zenon DEF HeldObject
    <3>2. HeldWork(r, n)'
      BY <1>2, <2>2, <2>4, ZenonT(30) DEF HeldWork, Busy
    <3>3. QED
      BY <3>1, <3>2
  <2>5. QED
    BY <2>3, <2>4, Zenon
<1>7. CASE \E m \in AepNames : DeleteObject(m)
  <2>1. PICK m \in AepNames : DeleteObject(m)
    BY <1>7
  <2>2. /\ OthersWritten(m)
        /\ aep[m] # None /\ ~aep[m].deleting
        /\ \/ ~aep[m].finalizer /\ aep'[m] = None
           \/ /\ aep[m].finalizer
              /\ aep'[m] # None /\ aep'[m].deleting /\ aep'[m].finalizer
              /\ aep'[m].gen = aep[m].gen /\ aep'[m].spec = aep[m].spec
        /\ UNCHANGED <<aepSeen, aepWork, forwarders>>
    BY <2>1, DeleteObjectStep, Zenon
  <2>3. CASE m # n
    BY <1>3, <1>4, <2>2, <2>3, Zenon DEF OthersWritten
  <2>4. CASE m = n
    <3>1. HeldObject(r, n)'
      BY <1>2, <2>2, <2>4, Zenon DEF HeldObject
    <3>2. HeldWork(r, n)'
      BY <1>2, <2>2, <2>4, ZenonT(30) DEF HeldWork, Busy
    <3>3. QED
      BY <3>1, <3>2
  <2>5. QED
    BY <2>3, <2>4, Zenon
<1>8. CASE \/ \E i \in Inputs : WriteInput(i)
           \/ DomainStep \/ DeleteDomain
           \/ StopAgent(r) \/ DeliverDomainTo(r) \/ \E i \in Inputs : DeliverInput(r, i)
  <2>1. UNCHANGED <<aep, aepSeen, aepWork, forwarders>>
    BY <1>8, Zenon DEF WriteInput, DomainStep, DeleteDomain, StopAgent, DeliverDomainTo, DeliverInput, aepCaches
  <2>2. QED
    BY <1>3, <1>4, <2>1, Zenon
<1>9. CASE \E m \in AepNames : DeliverEndpoint(r, m)
  <2>1. PICK m \in AepNames : DeliverEndpoint(r, m)
    BY <1>9
  <2>2. /\ aepSeen'[r][m] = aep[m]
        /\ \A q \in Replicas, p \in AepNames : q # r \/ p # m => aepSeen'[q][p] = aepSeen[q][p]
        /\ UNCHANGED <<aep, aepWork, forwarders>>
    BY <2>1, DeliverEndpointStep, Zenon
  <2>3. CASE m # n
    BY <1>3, <1>4, <2>2, <2>3, Zenon
  <2>4. CASE m = n
    <3>1. HeldObject(r, n)'
      BY <1>2, <2>2, <2>4, Zenon DEF HeldObject
    <3>2. HeldWork(r, n)'
      BY <1>2, <2>2, <2>4, ZenonT(30) DEF HeldWork, Busy
    <3>3. QED
      BY <3>1, <3>2
  <2>5. QED
    BY <2>3, <2>4, Zenon
<1>10. CASE \E m \in AepNames : StartEndpoint(r, m)
  <2>1. PICK m \in AepNames : StartEndpoint(r, m)
    BY <1>10
  <2>2. /\ \/ aepWork'[r].pc = "idle"
           \/ /\ aepSeen[r][m] # None
              /\ aepWork'[r].name = m
              /\ \/ aepWork'[r].pc = "register" /\ ~aepSeen[r][m].deleting
                 \/ /\ aepWork'[r].pc = "domain"
                    /\ ~aepSeen[r][m].deleting /\ aepSeen[r][m].finalizer
                 \/ aepWork'[r].pc = "close" /\ aepSeen[r][m].deleting
        /\ UNCHANGED <<aep, aepSeen, forwarders>>
    BY <2>1, StartStep, Zenon
  <2>3. HeldObject(r, n)'
    BY <1>2, <1>4, <2>2, HeldSame, Zenon
  <2>4. CASE aepWork'[r].pc = "idle" \/ aepWork'[r].name # n
    BY <2>3, <2>4, HeldIdle, Zenon
  <2>5. CASE aepWork'[r].pc # "idle" /\ aepWork'[r].name = n
    <3>1. m = n
      BY <2>2, <2>5, Zenon
    <3>2. CASE aepWork'[r].pc = "register" /\ ~aepSeen[r][n].deleting
      <4>1. aepWork'[r].pc \notin {"domain", "resolve", "forward", "status"}
            /\ aepWork'[r].pc \notin {"close", "unregister"} /\ aepWork'[r].pc # "unregister"
        BY <3>2
      <4>2. HeldWork(r, n)'
        BY <2>2, <3>2, <4>1, Zenon DEF HeldWork
      <4>3. QED
        BY <2>3, <4>2
    <3>3. CASE aepWork'[r].pc = "domain" /\ ~aepSeen[r][n].deleting /\ aepSeen[r][n].finalizer
      <4>1. aep'[n] # None /\ aep'[n].finalizer
        BY <1>2, <2>2, <3>1, <3>3, Zenon DEF HeldObject
      <4>2. HeldWork(r, n)'
        BY <3>3, <4>1, HeldUpdate, Zenon
      <4>3. QED
        BY <2>3, <4>2
    <3>4. CASE aepWork'[r].pc = "close" /\ aepSeen[r][n].deleting
      <4>1. aepWork'[r].pc \notin {"domain", "resolve", "forward", "status"}
            /\ aepWork'[r].pc # "unregister" /\ aepWork'[r].pc # "register"
        BY <3>4
      <4>2. aep'[n] # None => aep'[n].deleting \/ ~aep'[n].finalizer
        BY <1>2, <2>2, <3>1, <3>4, Zenon DEF HeldObject
      <4>3. HeldWork(r, n)'
        BY <2>2, <3>4, <4>1, <4>2, Zenon DEF HeldWork
      <4>4. QED
        BY <2>3, <4>3
    <3>5. QED
      BY <2>2, <2>5, <3>1, <3>2, <3>3, <3>4, Zenon
  <2>6. QED
    BY <2>4, <2>5, Zenon
<1>11. CASE RegisterEndpoint(r)
  <2>1. /\ aepWork[r].pc = "register"
        /\ OthersWritten(x) /\ (GivenUp(r, x) \/ Registered(r, x))
        /\ UNCHANGED <<aepSeen, forwarders>>
    BY <1>5, <1>11, RegisterStep, Zenon
  <2>2. aepWork[r].pc # "idle"
    BY <2>1
  <2>3. CASE GivenUp(r, x)
    <3>1. aep' = aep /\ aepWork'[r].pc = "idle"
      BY <2>3, Zenon DEF GivenUp
    <3>2. HeldObject(r, n)'
      BY <1>2, <1>4, <2>1, <3>1, HeldSame, Zenon
    <3>3. QED
      BY <3>1, <3>2, HeldIdle, Zenon
  <2>4. CASE Registered(r, x) /\ x # n
    <3>1. aep'[n] = aep[n] /\ aepWork'[r].name # n
      BY <2>1, <2>4, Zenon DEF OthersWritten, Registered
    <3>2. HeldObject(r, n)'
      BY <1>2, <1>4, <2>1, <3>1, HeldSame, Zenon
    <3>3. QED
      BY <3>1, <3>2, HeldIdle, Zenon
  <2>5. CASE Registered(r, x) /\ x = n
    <3>1. SameObject(n) /\ aep'[n].finalizer /\ aepWork'[r].pc = "domain"
      BY <2>5, Zenon DEF Registered
    <3>2. aepSeen[r][n] # None /\ aepSeen[r][n].deleting => aep[n].deleting
      BY <1>2, <1>5, <2>1, <2>2, <2>5, Zenon DEF HeldWork, Busy
    <3>3. HeldObject(r, n)'
      BY <1>2, <2>1, <3>1, <3>2, Zenon DEF HeldObject, SameObject
    <3>4. HeldWork(r, n)'
      BY <3>1, HeldUpdate, Zenon DEF SameObject
    <3>5. QED
      BY <3>3, <3>4
  <2>6. QED
    BY <2>1, <2>3, <2>4, <2>5, Zenon
<1>12. CASE EnsureDomainExists(r) \/ Resolve(r) \/ CreateAgentEndpoint(r) \/ ForwardFails(r)
  <2>1. /\ aep' = aep /\ aepSeen' = aepSeen
        /\ \/ aepWork[r].pc = "domain" \/ aepWork[r].pc = "resolve" \/ aepWork[r].pc = "forward"
    BY <1>12, Zenon DEF EnsureDomainExists, Resolve, CreateAgentEndpoint, ForwardFails, aepCaches
  <2>2. aepWork[r].pc # "idle" /\ aepWork[r].pc \in {"domain", "resolve", "forward", "status"}
    BY <2>1
  <2>3. CreateAgentEndpoint(r) => aepWork[r].content \in InputContents
    BY Zenon DEF WorkInv, Planned, CreateAgentEndpoint, InputContents
  <2>4. /\ GoesOn(r) /\ OthersForwarding(r, x)
        /\ aepWork'[r].pc = "resolve" \/ aepWork'[r].pc = "forward" \/ aepWork'[r].pc = "status"
    <3>1. CASE EnsureDomainExists(r)
      BY <3>1, EnsureDomainStep, Zenon DEF OthersForwarding
    <3>2. CASE Resolve(r)
      BY <3>2, ResolveStep, Zenon DEF OthersForwarding
    <3>3. CASE CreateAgentEndpoint(r)
      BY <1>5, <2>3, <3>3, CreateStep, Zenon
    <3>4. CASE ForwardFails(r)
      BY <1>5, <3>4, ForwardFailsStep, Zenon
    <3>5. QED
      BY <1>12, <3>1, <3>2, <3>3, <3>4, Zenon
  <2>5. CASE x # n
    <3>1. forwarders'[r][n] = forwarders[r][n]
      BY <2>4, <2>5, Zenon DEF OthersForwarding
    <3>2. HeldObject(r, n)'
      BY <1>2, <1>4, <2>1, <3>1, HeldSame, Zenon
    <3>3. aepWork'[r].name # n
      BY <1>5, <2>4, <2>5, Zenon DEF GoesOn
    <3>4. QED
      BY <3>2, <3>3, HeldIdle, Zenon
  <2>6. CASE x = n
    <3>1. aep[n] # None /\ aep[n].finalizer
      BY <1>2, <1>5, <2>2, <2>6, Zenon DEF HeldWork, Busy
    <3>2. HeldObject(r, n)'
      BY <1>2, <2>1, <3>1, Zenon DEF HeldObject
    <3>3. HeldWork(r, n)'
      BY <2>1, <2>4, <3>1, HeldUpdate, Zenon
    <3>4. QED
      BY <3>2, <3>3
  <2>7. QED
    BY <2>5, <2>6, Zenon
<1>13. CASE updateEndpointStatus(r)
  <2>1. /\ OthersWritten(x) /\ aepWork'[r].pc = "idle"
        /\ aep' = aep \/ (SameObject(x) /\ aep'[x].finalizer = aep[x].finalizer)
        /\ UNCHANGED <<aepSeen, forwarders>>
    BY <1>5, <1>13, StatusStep, Zenon
  <2>2. FinalizerKept(n)
    BY <2>1, Zenon DEF FinalizerKept, OthersWritten
  <2>3. HeldObject(r, n)'
    BY <1>2, <2>1, <2>2, HeldSame, Zenon
  <2>4. QED
    BY <2>1, <2>3, HeldIdle, Zenon
<1>14. CASE CloseFails(r)
  <2>1. aepWork'[r].pc = "idle" /\ UNCHANGED <<aep, aepSeen, forwarders>>
    BY <1>5, <1>14, CloseFailsStep, Zenon
  <2>2. HeldObject(r, n)'
    BY <1>2, <1>4, <2>1, HeldSame, Zenon
  <2>3. QED
    BY <2>1, <2>2, HeldIdle, Zenon
<1>15. CASE DeleteAgentEndpoint(r)
  <2>1. /\ aepWork[r].pc = "close" /\ GoesOn(r) /\ OthersForwarding(r, x)
        /\ aepWork'[r].pc = "unregister" /\ forwarders'[r][x] = None
        /\ UNCHANGED <<aep, aepSeen>>
    BY <1>5, <1>15, CloseStep, Zenon
  <2>2. aepWork[r].pc # "idle" /\ aepWork[r].pc \in {"close", "unregister"}
    BY <2>1
  <2>3. forwarders'[r][n] = None \/ forwarders'[r][n] = forwarders[r][n]
    BY <2>1, Zenon DEF OthersForwarding
  <2>4. HeldObject(r, n)'
    BY <1>2, <1>4, <2>1, <2>3, HeldSame, Zenon
  <2>5. CASE x # n
    <3>1. aepWork'[r].name # n
      BY <1>5, <2>1, <2>5, Zenon DEF GoesOn
    <3>2. QED
      BY <2>4, <3>1, HeldIdle, Zenon
  <2>6. CASE x = n
    <3>1. /\ aep[n] # None => aep[n].deleting \/ ~aep[n].finalizer
          /\ aepSeen[r][n] # None /\ ~aepSeen[r][n].deleting => ~aepSeen[r][n].finalizer
      BY <1>2, <1>5, <2>2, <2>6, Zenon DEF HeldWork, Busy
    <3>2. aepWork'[r].pc \notin {"domain", "resolve", "forward", "status"} /\ aepWork'[r].pc # "register"
      BY <2>1
    <3>3. HeldWork(r, n)'
      BY <2>1, <2>6, <3>1, <3>2, Zenon DEF HeldWork
    <3>4. QED
      BY <2>4, <3>3
  <2>7. QED
    BY <2>5, <2>6, Zenon
<1>16. CASE Unregister(r)
  <2>1. /\ aepWork[r].pc = "unregister" /\ OthersWritten(x)
        /\ aepWork'[r].pc = "idle"
        /\ aep' = aep \/ aep'[x] = None \/ ~aep'[x].finalizer
        /\ UNCHANGED <<aepSeen, forwarders>>
    BY <1>5, <1>16, UnregisterStep, Zenon
  <2>2. aepWork[r].pc # "idle" /\ aepWork[r].pc \in {"close", "unregister"}
    BY <2>1
  <2>3. CASE x # n \/ aep' = aep
    <3>1. aep'[n] = aep[n]
      BY <2>1, <2>3, Zenon DEF OthersWritten
    <3>2. HeldObject(r, n)'
      BY <1>2, <1>4, <2>1, <3>1, HeldSame, Zenon
    <3>3. QED
      BY <2>1, <3>2, HeldIdle, Zenon
  <2>4. CASE x = n /\ (aep'[n] = None \/ ~aep'[n].finalizer)
    <3>1. /\ forwarders[r][n] = None
          /\ aepSeen[r][n] # None /\ ~aepSeen[r][n].deleting => ~aepSeen[r][n].finalizer
      BY <1>2, <1>5, <2>1, <2>2, <2>4, Zenon DEF HeldWork, Busy
    <3>2. HeldObject(r, n)'
      BY <2>1, <2>4, <3>1, Zenon DEF HeldObject
    <3>3. QED
      BY <2>1, <3>2, HeldIdle, Zenon
  <2>5. QED
    BY <2>1, <2>3, <2>4, Zenon
<1>17. CASE RestartAgent(r) \/ Crash(r)
  <2>1. /\ aepSeen'[r] = aep /\ aep' = aep /\ aepWork'[r].pc = "idle" /\ forwarders'[r][n] = None
    BY <1>17, ResetStep, Zenon
  <2>2. HeldObject(r, n)'
    BY <2>1, Zenon DEF HeldObject
  <2>3. QED
    BY <2>1, <2>2, HeldIdle, Zenon
<1> HIDE DEF Goal
<1>18. ASSUME NEW q \in Replicas PROVE q = r
  BY Zenon
<1>19. Goal
  <2>1. CASE \E q \in Replicas :
                \/ ReconcileEndpoint(q) \/ ForwardFails(q) \/ CloseFails(q)
                \/ StopAgent(q) \/ RestartAgent(q) \/ Crash(q)
                \/ DeliverDomainTo(q)
                \/ \E m \in AepNames : DeliverEndpoint(q, m)
                \/ \E i \in Inputs : DeliverInput(q, i)
    <3>1. \/ ReconcileEndpoint(r) \/ ForwardFails(r) \/ CloseFails(r)
          \/ StopAgent(r) \/ RestartAgent(r) \/ Crash(r)
          \/ DeliverDomainTo(r)
          \/ \E m \in AepNames : DeliverEndpoint(r, m)
          \/ \E i \in Inputs : DeliverInput(r, i)
      BY <1>18, <2>1, Zenon
    <3>2. QED
      BY <3>1, <1>8, <1>9, <1>10, <1>11, <1>12, <1>13, <1>14, <1>15, <1>16, <1>17, Zenon
         DEF ReconcileEndpoint, Goal
  <2>2. QED
    BY <1>6, <1>7, <1>8, <2>1, Zenon DEF AgentNext, Goal
<1>20. QED
  BY <1>19, Zenon DEF Goal

OneReplica == \A r, q \in Replicas : r = q

LEMMA HeldStutters ==
    ASSUME HeldInv, UNCHANGED agentVars
    PROVE  HeldInv'
<1>1. UNCHANGED <<aep, aepSeen, aepWork, forwarders>>
  BY Zenon DEF agentVars, aepCaches
<1>2. SUFFICES ASSUME NEW r \in Replicas, NEW n \in AepNames
               PROVE  HeldObject(r, n)' /\ HeldWork(r, n)'
  BY Zenon DEF HeldInv
<1>3. HeldObject(r, n) /\ HeldWork(r, n)
  BY Zenon DEF HeldInv
<1>4. /\ aep'[n] = aep[n] /\ aepSeen'[r][n] = aepSeen[r][n] /\ aepWork'[r] = aepWork[r]
      /\ forwarders'[r][n] = forwarders[r][n]
  BY <1>1, Zenon
<1>5. FinalizerKept(n)
  BY <1>4, Zenon DEF FinalizerKept
<1>6. QED
  BY <1>3, <1>4, <1>5, HeldSame, HeldWorkSame, Zenon

\* With one replica, an AgentEndpoint some forwarder runs for is in the cluster and keeps
\* its finalizer: DeleteAgentEndpoint comes before the finalizer goes, and no reconcile
\* that read an older object brings the forwarder back.
THEOREM ForwardersHeld == ASSUME OneReplica PROVE AgentSpec => [](AgentInv /\ HeldInv)
<1>1. AgentInit => HeldInv
  BY AgentStarts
<1>2. AgentInv /\ HeldInv /\ [AgentNext]_agentVars => HeldInv'
  <2>1. ASSUME AgentInv, HeldInv, AgentNext PROVE HeldInv'
    <3>1. AgentTypeOK /\ WorkInv
      BY <2>1, Zenon DEF AgentInv
    <3>2. QED
      BY <2>1, <3>1, HeldKept, Zenon DEF OneReplica
  <2>2. QED
    BY <2>1, HeldStutters
<1>3. QED
  BY <1>1, <1>2, AgentInvariant, PTL DEF AgentSpec

\* What the agents settle on, with one replica: it forwards for every usable AgentEndpoint
\* with the latest spec and content, for no deleted one, and a public AgentEndpoint has
\* its Domain (CreateAgentEndpoint, DeleteAgentEndpoint, EnsureDomainExists).
THEOREM AgentsSettleAlways == ASSUME OneReplica PROVE AgentSpec => []AgentsSettle
<1>1. HeldInv => NothingLeftBehind
  BY Zenon DEF HeldInv, HeldObject, NothingLeftBehind
<1>2. AgentServes /\ DomainPresent /\ NothingLeftBehind => AgentsSettle
  BY Zenon DEF AgentsSettle
<1>3. QED
  BY <1>1, <1>2, ForwardersHeld, AgentServesAlways, PTL
==============================================================================
