---------------------------- MODULE SyncPromise ----------------------------
(***************************************************************************)
(* What the sync debouncer promises the reconcilers, whatever it does with *)
(* their calls: syncs run one at a time, a call is answered without a sync *)
(* of its own only while one runs, and the change behind a call counts as  *)
(* applied only by a sync that read the store after the call was made.     *)
(* SyncDebounce implements it.                                             *)
(***************************************************************************)
CONSTANTS
    Keys,  \* the callers
    Full   \* those that ask for domains as well as endpoints

VARIABLES
    busy,  \* the callers whose sync runs
    owed,  \* for each part of the work, the calls whose change is not applied
    read   \* of those, the ones whose change the running sync has read

promised == <<busy, owed, read>>

Parts == {"domains", "endpoints"}
PartsOf(k) == IF k \in Full THEN Parts ELSE {"endpoints"}

Init ==
    /\ busy = {}
    /\ owed = [p \in Parts |-> {}]
    /\ read = [p \in Parts |-> {}]

\* A change made after the sync has read the store is read by another one.
Owe(k) ==
    /\ owed' = [p \in Parts |-> IF p \in PartsOf(k) THEN owed[p] \cup {k} ELSE owed[p]]
    /\ read' = [p \in Parts |-> read[p] \ {k}]

\* A call that runs the sync.
Begin(k) == busy = {} /\ busy' = {k} /\ Owe(k)

\* A call that leaves it to the next one.
Ask(k) == busy # {} /\ busy' = busy /\ Owe(k)

Read(part) ==
    /\ busy # {}
    /\ read' = [p \in Parts |-> IF p = part THEN owed[p] ELSE read[p]]
    /\ UNCHANGED <<busy, owed>>

Apply(part) ==
    /\ busy # {}
    /\ owed' = [p \in Parts |-> IF p = part THEN owed[p] \ read[p] ELSE owed[p]]
    /\ read' = [p \in Parts |-> IF p = part THEN {} ELSE read[p]]
    /\ UNCHANGED busy

\* The sync returns, fails or ends with its process.
End ==
    /\ busy' = {}
    /\ read' = [p \in Parts |-> {}]
    /\ UNCHANGED owed

Next ==
    \/ \E k \in Keys : Begin(k) \/ Ask(k)
    \/ \E part \in Parts : Read(part) \/ Apply(part)
    \/ End

Spec == Init /\ [][Next]_promised

=============================================================================
