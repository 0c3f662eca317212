------------------------------- MODULE MCFleet -------------------------------
(* Fleet with two deployments, over all their options.                     *)
EXTENDS Fleet

CONSTANTS id1, id2, d1, r1, r2

MCDeployments == {id1, id2}
MCRequests    == {r1, r2}
MCDevices     == {d1}
MCGroupIDs    == {0, 1}
MCIndexes     == {0, 1}
=============================================================================
