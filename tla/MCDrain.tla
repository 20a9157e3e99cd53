------------------------------ MODULE MCDrain ------------------------------
(***************************************************************************)
(* Instances of Drain: one Ingress or Service and one CloudEndpoint of the *)
(* api-manager, one AgentEndpoint of the agents.                           *)
(***************************************************************************)
EXTENDS Drain

CONSTANTS api, agent, ingress, service, cloud, aep

MCHome == [r \in Resources |->
              IF r \in Foreign THEN {} ELSE IF r = aep THEN {agent} ELSE {api}]

\* The order of DrainAll: user resources first.
MCHandlers == <<{ingress, service} \cap Resources, {cloud, aep} \cap Resources>>

\* The restarts the drain survives.
EarlyRestarts == {<<api, "none">>, <<api, "draining">>, <<agent, "none">>}

=============================================================================
