----------------------------- MODULE FuotaStages -----------------------------
(***************************************************************************)
(* The vocabulary of a FUOTA deployment (internal/fuota/fuota.go).         *)
(*                                                                         *)
(* Four of the steps of Deployment.Run ask every device something and wait *)
(* for the answers: the unicast STAGES.  Each has a flag in deviceState, a *)
(* done channel in Deployment and a *_completed_at column in the table     *)
(* deployment_device.  The table deployment has one column more, for the   *)
(* multicast enqueue.                                                      *)
(***************************************************************************)

\* The flags of deviceState, and the columns of deployment_device.
Stages == {"multicastSetup", "fragmentationSessionSetup",
           "multicastSessionSetup", "fragmentationSessionStatus"}

\* The *_completed_at columns of deployment: one per step that records itself.
Columns == Stages \cup {"enqueue"}

\* The stages whose flag must be set before a device takes part in stage s:
\* the `continue` at the top of each device loop and of each done loop.
Needs(s) ==
  {r \in Stages :
     \/ r = "multicastSetup"            /\ s = "fragmentationSessionSetup"
     \/ r = "fragmentationSessionSetup" /\ s = "multicastSessionSetup"
     \/ r = "multicastSessionSetup"     /\ s = "fragmentationSessionStatus"}

\* The columns recorded by the steps that Run calls before the one of c.
Before(c) ==
  {b \in Columns :
     \/ b = "multicastSetup" /\ c # "multicastSetup"
     \/ b = "fragmentationSessionSetup" /\ c \notin {"multicastSetup", "fragmentationSessionSetup"}
     \/ b = "multicastSessionSetup" /\ c \in {"enqueue", "fragmentationSessionStatus"}
     \/ b = "enqueue" /\ c = "fragmentationSessionStatus"}
=============================================================================
