---------------------------- MODULE MCEventHandler ----------------------------
(* EventHandler with model values for its deployments and requests.        *)
EXTENDS EventHandler

CONSTANTS id1, id2, r1, r2

MCDeployments == {id1, id2}
MCRequests    == {r1, r2}
=============================================================================
