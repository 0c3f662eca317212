----------------------------- MODULE MCDeployment -----------------------------
(* Deployment with model values for its devices and goroutine slots.       *)
EXTENDS Deployment, FiniteSets, TLC

CONSTANTS d1, d2, h1, h2

MCDevices == {d1, d2}
MCOneDevice == {d1}
MCHandlers == {h1, h2}

\* Devices, and goroutine slots, are interchangeable (safety runs only).
Symmetry == Permutations(MCDevices) \cup Permutations(MCHandlers)

\* The results that no row holds and no handler is about to store.
LostResults ==
  {<<d, s>> \in Devices \X Stages :
     /\ s \in deviceState[d] \ deploymentDevice[d]
     /\ \A h \in Handlers : ~(handler[h].dev = d /\ handler[h].stage = s)}

\* BOUND: a request that is not sent in any attempt does what one that is never
\* answered does, so only the latter is followed.
RequestsSent ==
  pc = "select" => \A d \in Devices : Pending(d, stage) => stage \in requested[d]

\* BOUND: in the status step, the last one, answers are handled one after the
\* other, beside handlers that are left waiting; in the steps before it, and when
\* Run has returned, any two are handled at once.
OneAnswerInStatusStep ==
  stage = "fragmentationSessionStatus" =>
    Cardinality({h \in Handlers : handler[h].pc \notin {"idle", "publish"}}) <= 1

\* BOUND: what has lost a result, and the handlers of a Run that has failed, are
\* not followed here; the other runs follow them.  A queue with gaps is for the
\* devices what a complete one is.
FewFailures ==
  /\ LostResults = {} /\ RequestsSent /\ OneAnswerInStatusStep
  /\ pc # "failed" /\ mcQueue # "gaps"
=============================================================================
