----------------------- MODULE MCBoundEndpointPoller -----------------------
(***************************************************************************)
(* Instances of BoundEndpointPoller.                                       *)
(***************************************************************************)
EXTENDS BoundEndpointPoller

CONSTANTS a, b, hashA, hashB, e1

MCHashURL == [u \in URLs |-> IF u = a THEN hashA ELSE hashB]
MCUrlOf == [n \in Names |-> IF n = hashB THEN b ELSE a]

=============================================================================
