-------------------------- MODULE DeploymentService --------------------------
(***************************************************************************)
(* What the API promises of deployments, without transactions, goroutines   *)
(* of callers or the process they run in.                                   *)
(*                                                                          *)
(* A deployment is created with all of its devices at one instant, or not   *)
(* at all.  It may be started then, at most once, in the same life of the   *)
(* process; a caller is told of it only after it was started.  A status is  *)
(* what was stored at one instant.  When the process goes down, deployments *)
(* that were started or to be started are not resumed; what is stored, and  *)
(* the groups at the network server, stay.                                  *)
(***************************************************************************)
CONSTANTS Ids, Devices

VARIABLES
  stored,    \* the deployments
  contents,  \* their devices
  pending,   \* those that are still to be started
  run,       \* whether a deployment runs, or has ended, in this life
  groups,    \* those that have a group at the network server
  told,      \* those that a caller knows of
  shown      \* the status replies under way

vars == <<stored, contents, pending, run, groups, told, shown>>

Init ==
  /\ stored = {} /\ contents = {} /\ pending = {}
  /\ run = [id \in Ids |-> "none"]
  /\ groups = {} /\ told = {} /\ shown = {}

\* The creator may be told of a failure all the same: then nothing is started.
Create(id) ==
  /\ id \notin stored
  /\ stored' = stored \cup {id}
  /\ contents' = contents \cup ({id} \X Devices)
  /\ pending' \in {pending, pending \cup {id}}
  /\ UNCHANGED <<run, groups, told, shown>>

Start(id) ==
  /\ id \in pending
  /\ pending' = pending \ {id}
  /\ run[id] = "none"
  /\ run' = [run EXCEPT ![id] = "running"]
  /\ UNCHANGED <<stored, contents, groups, told, shown>>

Tell(id) ==
  /\ run[id] # "none"
  /\ told' = told \cup {id}
  /\ UNCHANGED <<stored, contents, pending, run, groups, shown>>

CreateGroup(id) ==
  /\ run[id] = "running"
  /\ groups' = groups \cup {id}
  /\ UNCHANGED <<stored, contents, pending, run, told, shown>>

\* A deployment that fails leaves its group.
End(id) ==
  /\ run[id] = "running"
  /\ run' = [run EXCEPT ![id] = "ended"]
  /\ groups' \in {groups, groups \ {id}}
  /\ UNCHANGED <<stored, contents, pending, told, shown>>

Status(id) ==
  /\ shown = {}
  /\ shown' = {[id      |-> id,
                found   |-> id \in stored,
                devices |-> {dev \in Devices : <<id, dev>> \in contents}]}
  /\ UNCHANGED <<stored, contents, pending, run, groups, told>>

StatusReplied ==
  /\ shown' = {}
  /\ UNCHANGED <<stored, contents, pending, run, groups, told>>

\* Callers in the process forget what they were told.
GoDown ==
  /\ pending' = {}
  /\ run' = [id \in Ids |-> "none"]
  /\ told' \subseteq told
  /\ shown' = {}
  /\ UNCHANGED <<stored, contents, groups>>

Next ==
  \/ \E id \in Ids : \/ Create(id) \/ Start(id) \/ Tell(id)
                     \/ CreateGroup(id) \/ End(id) \/ Status(id)
  \/ StatusReplied
  \/ GoDown

Spec == Init /\ [][Next]_vars
=============================================================================
