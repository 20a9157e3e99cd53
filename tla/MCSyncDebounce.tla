--------------------------- MODULE MCSyncDebounce ---------------------------
(***************************************************************************)
(* Instances of SyncDebounce: Ingress, Gateway and HTTPRoute controllers   *)
(* call Sync, the NgrokTrafficPolicy controller calls SyncEndpoints.       *)
(***************************************************************************)
EXTENDS SyncDebounce

CONSTANTS ingress, gateway, route, policy

\* Two controllers that call Sync and one that calls SyncEndpoints.
MCKeys == {ingress, route, policy}
MCFull == {ingress, route}
MCControllerOf ==
    [k \in MCKeys |-> CASE k = ingress -> "Ingress"
                        [] k = route -> "HTTPRoute"
                        [] OTHER -> "NgrokTrafficPolicy"]

\* Three controllers that call Sync and one that calls SyncEndpoints.
MCKeys3 == {ingress, gateway, route, policy}
MCFull3 == {ingress, gateway, route}
MCControllerOf3 ==
    [k \in MCKeys3 |-> CASE k = ingress -> "Ingress"
                         [] k = gateway -> "Gateway"
                         [] k = route -> "HTTPRoute"
                         [] OTHER -> "NgrokTrafficPolicy"]

=============================================================================
