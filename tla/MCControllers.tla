---------------------------- MODULE MCControllers ----------------------------
(***************************************************************************)
(* The controllers that have no run of their own, each on small instances. *)
(* They share no variable: focus, chosen once, says which of them takes    *)
(* the steps of a behaviour, and on what part of its input; the others     *)
(* stay as they are at first.                                              *)
(***************************************************************************)
EXTENDS Registration, ServiceController, AgentEndpoints

CONSTANTS n1, n2, a1, a2, e1, e2, r1

VARIABLE focus

(***************************************************************************)
(* Services: one that is handled or not or loses its ports, one between    *)
(* TCP and TLS with a policy, one between the two mapping strategies.      *)
(***************************************************************************)
Want(handled, ports, verbose, url, pol) ==
    [handled |-> handled, ports |-> ports, verbose |-> verbose, url |-> url, policy |-> pol]
Tcp == Want(TRUE, TRUE, FALSE, "tcp", FALSE)

ServiceFocuses == {"class", "url", "strategy"}
SpecsOf == [class |-> {Tcp, Want(FALSE, TRUE, FALSE, "tcp", FALSE), Want(TRUE, FALSE, FALSE, "tcp", FALSE)},
            url |-> {Tcp, Want(TRUE, TRUE, FALSE, "tls", TRUE)},
            strategy |-> {Tcp, Want(TRUE, TRUE, TRUE, "tcp", FALSE)}]
AllSpecs == UNION {SpecsOf[f] : f \in ServiceFocuses}
EventsOf == [class |-> 2, url |-> 1, strategy |-> 1]

\* The part of the Service controller that a focus looks at: which specs a user writes,
\* and whether there is a policy, a second name for an endpoint, a second address.
ServicePart ==
    /\ service' # None => service'.spec \in SpecsOf[focus]
    /\ events' <= EventsOf[focus]
    /\ focus # "url" => policy' = None
    /\ focus # "strategy" => endpoints'[n2] = None
    /\ focus # "class" => a2 \notin reserved'

(***************************************************************************)
(* AgentEndpoints: two of one host, one of them bound to Kubernetes, and   *)
(* one that refers to a policy and a Secret.                               *)
(***************************************************************************)
AgentFocuses == {"agents", "inputs"}
AepSpecsOf == [agents |-> {[url |-> "public", refs |-> {}], [url |-> "kubernetes", refs |-> {}]},
               inputs |-> {[url |-> "tcp", refs |-> {"policy", "secret"}]}]
AllAepSpecs == UNION {AepSpecsOf[f] : f \in AgentFocuses}
AepEventsOf == [agents |-> 2, inputs |-> 3]

AgentPart ==
    /\ \A n \in AepNames : aep'[n] # None => aep'[n].spec \in AepSpecsOf[focus]
    /\ aepEvents' <= AepEventsOf[focus]
    /\ focus = "agents" => input' = input
    /\ focus = "agents" => \A r \in Replicas, n \in AepNames :
          forwarders'[r][n] # None => forwarders'[r][n].pooled
    /\ focus = "inputs" => aep'[e2] = None

Focuses == ServiceFocuses \cup AgentFocuses \cup {"registration"}

Start ==
    /\ focus \in Focuses
    /\ ServiceInit
    /\ service.spec \in IF focus \in ServiceFocuses THEN SpecsOf[focus] ELSE {Tcp}
    /\ focus # "url" => policy = None
    /\ AgentInit
    /\ focus # "inputs" => input = [i \in Inputs |-> None]
    /\ Init
    /\ focus # "registration" => ko.bindings = "off"

Step ==
    /\ UNCHANGED focus
    /\ \/ /\ focus \in ServiceFocuses
          /\ ServiceNext /\ ServicePart
          /\ UNCHANGED <<agentVars, registration>>
       \/ /\ focus \in AgentFocuses
          /\ AgentNext /\ AgentPart
          /\ UNCHANGED <<serviceVars, registration>>
       \/ /\ focus = "registration"
          /\ Next
          /\ UNCHANGED <<serviceVars, agentVars>>

all == <<focus, serviceVars, agentVars, registration>>

Behaviours == Start /\ [][Step]_all

(***************************************************************************)
(* Properties: those of the three modules, and their types.                *)
(***************************************************************************)

\* Every component keeps its variables within their types.
TypesOK == TypeOK /\ ServiceTypeOK /\ AgentTypeOK
==============================================================================
