------------------------------ MODULE Deployment ------------------------------
(***************************************************************************)
(* One FUOTA deployment: Deployment.Run (internal/fuota/fuota.go), which   *)
(* walks through its steps in a goroutine of its own, and the goroutines   *)
(* that the event handler starts, one per uplink, each of which runs       *)
(* Deployment.HandleUplinkEvent.  They share the in-memory deviceState,    *)
(* the rows of deployment_device and four unbuffered done channels.        *)
(*                                                                         *)
(* The four unicast steps are one loop with other names: they are modelled *)
(* once, for the stage they work on.  The sleeps until the session starts  *)
(* or ends only delay a step and are left out, as is deployment_log, which *)
(* is written and never read by this code.  A remote or database call that *)
(* returns an error may have had its effect or not: the reply may be lost. *)
(***************************************************************************)
EXTENDS FuotaStages, Naturals

CONSTANTS
  Devices,              \* opts.Devices
  NoDevice,             \* the device of an idle goroutine slot
  Handlers,             \* BOUND: uplink goroutines alive at the same time
  UnicastAttemptCount,  \* opts.UnicastAttemptCount
  GroupType,            \* opts.MulticastGroupType
  RequestStatus         \* FALSE: opts.RequestFragmentationSessionStatus = NO_REQUEST

ASSUME DeploymentAssumption ==
  /\ NoDevice \notin Devices
  /\ UnicastAttemptCount \in Nat
  /\ GroupType \in {"CLASS_B", "CLASS_C"}
  /\ RequestStatus \in BOOLEAN

VARIABLES
  pc,                \* where the goroutine of Run is
  stage,             \* the column of the step it is in
  attempt,           \* local attempt counter of the step
  enrolled,          \* history: who could take part when the step began
  todo,              \* the devices the current `for devEUI := range` has left
  group,             \* the multicast-group at the network server
  members,           \* the devices added to it
  mcQueue,           \* the fragments in its downlink queue
  deviceState,       \* d.deviceState: the flags that are true, per device
  deployment,        \* the row of deployment: its non-null completed columns
  deploymentDevice,  \* the rows of deployment_device: likewise
  handler,           \* the goroutines running HandleUplinkEvent
  requested,         \* stages for which a request has reached the device queue
  device             \* what the device itself has completed and answered

runVars    == <<pc, stage, enrolled, attempt, todo>>
serverVars == <<group, members, mcQueue, requested>>
vars       == <<runVars, serverVars, deviceState, deployment, deploymentDevice,
                handler, device>>

-----------------------------------------------------------------------------
(* The goroutines of HandleUplinkEvent.                                    *)

IdleHandler == [pc |-> "idle", dev |-> NoDevice, stage |-> "none",
                row |-> {}, unseen |-> {}]

HandlerState == [pc : {"idle", "set", "get", "update", "check", "publish"},
                 dev : Devices \cup {NoDevice},
                 stage : Stages \cup {"none"},
                 row : SUBSET Stages,
                 unseen : SUBSET Devices]

\* An answer echoes the group id or fragmentation index it is about and
\* carries error bits; "incomplete" is a status with missing fragments.
Answers == {"ok", "error", "incomplete", "otherId"}

AcceptedForAnyId(a) == a \in {"ok", "otherId"}

\* The condition each handler tests before it touches the device state.
Accepted(a) == a = "ok"

\* Reads of two flags of one device.  The flags are never reset, so reading
\* them one after the other gives what an atomic read at the second would.
Participates(d, s) == Needs(s) \subseteq deviceState[d]

PendingUnconditionally(d, s) == s \notin deviceState[d]
Pending(d, s) == Participates(d, s) /\ s \notin deviceState[d]

-----------------------------------------------------------------------------
(* The rows: created by NewDeployment, then written whole.                 *)

CreateDeployment == deployment = {}
UpdateDeployment(row) == deployment' = row

CreateDeploymentDevices == deploymentDevice = [d \in Devices |-> {}]

Init ==
  /\ pc = "createGroup"
  /\ stage = "none"
  /\ enrolled = {}
  /\ attempt = 0
  /\ todo = {}
  /\ group = "none"
  /\ members = {}
  /\ mcQueue = "empty"
  /\ requested = [d \in Devices |-> {}]
  /\ deviceState = [d \in Devices |-> {}]
  /\ CreateDeployment
  /\ CreateDeploymentDevices
  /\ handler = [h \in Handlers |-> IdleHandler]
  /\ device = [d \in Devices |-> {}]

-----------------------------------------------------------------------------
(* Run and its steps.                                                      *)

\* The step of column c begins: `attempt := 0`, then its loop.
BeginStep(c) == /\ stage' = c
                /\ enrolled' = {d \in Devices : Participates(d, c)}
                /\ attempt' = 0
                /\ todo' = {}
                /\ pc' = IF c = "enqueue" THEN "enqueue" ELSE "attempt"

CreateMulticastGroup ==
  /\ pc = "createGroup"
  /\ group' = "created"
  /\ pc' = "addDevices"
  /\ todo' = Devices
  /\ UNCHANGED <<stage, enrolled, attempt, members, mcQueue, requested, deviceState,
                 deployment, deploymentDevice, handler, device>>

AddDevice(d) ==
  /\ pc = "addDevices"
  /\ d \in todo
  /\ members' = members \cup {d}
  /\ todo' = todo \ {d}
  /\ UNCHANGED <<pc, stage, enrolled, attempt, group, mcQueue, requested, deviceState,
                 deployment, deploymentDevice, handler, device>>

AddedDevices ==
  /\ pc = "addDevices"
  /\ todo = {}
  /\ BeginStep("multicastSetup")
  /\ UNCHANGED <<serverVars, deviceState, deployment, deploymentDevice, handler,
                 device>>

AttemptsExhaustedOneLater(n) == n > UnicastAttemptCount + 1
AttemptsExhausted(n) == n > UnicastAttemptCount

SameAttempt(n) == n
AttemptAfter(n) == n + 1

\* The head of devLoop: the next attempt, or the step gives up.
NextAttempt ==
  /\ pc = "attempt"
  /\ attempt' = AttemptAfter(attempt)
  /\ IF AttemptsExhausted(attempt')
       THEN pc' = "record" /\ UNCHANGED todo
       ELSE pc' = "send" /\ todo' = Devices
  /\ UNCHANGED <<stage, enrolled, serverVars, deviceState, deployment, deploymentDevice,
                 handler, device>>

\* One iteration of the device loop: the device is skipped, or a request is
\* enqueued for it; an enqueue error is logged and the loop goes on.
SendRequest(d, s) ==
  /\ pc = "send"
  /\ stage = s
  /\ d \in todo
  /\ todo' = todo \ {d}
  /\ \/ /\ Pending(d, s)
        /\ requested' = [requested EXCEPT ![d] = @ \cup {s}]
     \/ UNCHANGED requested    \* skipped, or the enqueue failed
  /\ UNCHANGED <<pc, stage, enrolled, attempt, group, members, mcQueue, deviceState,
                 deployment, deploymentDevice, handler, device>>

McGroupSetupReq(d)      == SendRequest(d, "multicastSetup")
FragSessionSetupReq(d)  == SendRequest(d, "fragmentationSessionSetup")
McClassBSessionReq(d)   == GroupType = "CLASS_B" /\ SendRequest(d, "multicastSessionSetup")
McClassCSessionReq(d)   == GroupType = "CLASS_C" /\ SendRequest(d, "multicastSessionSetup")
FragSessionStatusReq(d) == SendRequest(d, "fragmentationSessionStatus")

SentRequests ==
  /\ pc = "send"
  /\ todo = {}
  /\ pc' = "select"
  /\ UNCHANGED <<stage, enrolled, attempt, todo, serverVars, deviceState, deployment,
                 deploymentDevice, handler, device>>

\* The select statement: `case <-time.After(d.opts.UnicastTimeout)`.
Timeout ==
  /\ pc = "select"
  /\ pc' = "attempt"
  /\ UNCHANGED <<stage, enrolled, attempt, todo, serverVars, deviceState, deployment,
                 deploymentDevice, handler, device>>

\* The select statement: a receive from the done channel of the stage.  The
\* channels are unbuffered, so the sender continues in the same step.
ReceiveDone(h) ==
  /\ pc = "select"
  /\ handler[h].pc = "publish"
  /\ handler[h].stage = stage
  /\ pc' = "record"
  /\ handler' = [handler EXCEPT ![h] = IdleHandler]
  /\ UNCHANGED <<stage, enrolled, attempt, todo, serverVars, deviceState, deployment,
                 deploymentDevice, device>>

FollowsSkippingOne(c, n) == Before(n) = Before(c) \cup {c, "fragmentationSessionSetup"}
\* Run calls the step of n next after the one of c.  The step functions of the
\* other group class, and of a status nobody asked for, return at once.
Follows(c, n) == /\ Before(n) = Before(c) \cup {c}
                 /\ n = "fragmentationSessionStatus" => RequestStatus

RecordNothing(c) == deployment
RecordColumn(c) == deployment \cup {c}

\* The end of a step: GetDeployment, set the column, UpdateDeployment.  The row
\* is read and written by this goroutine only.
Record ==
  /\ pc = "record"
  /\ UpdateDeployment(RecordColumn(stage))
  /\ \/ \E c \in Columns : Follows(stage, c) /\ BeginStep(c)
     \/ /\ ~\E c \in Columns : Follows(stage, c)
        /\ pc' = "deleteGroup"
        /\ UNCHANGED <<stage, enrolled, attempt, todo>>
  /\ UNCHANGED <<serverVars, deviceState, deploymentDevice, handler, device>>

\* stepEnqueue up to its last call: all fragments are enqueued to the group;
\* `_, err =` in the loop is overwritten, so failures leave gaps unnoticed.
EnqueueFragments ==
  /\ pc = "enqueue"
  /\ mcQueue' \in {"gaps", "complete"}
  /\ pc' = "record"
  /\ UNCHANGED <<stage, enrolled, attempt, todo, group, members, requested, deviceState,
                 deployment, deploymentDevice, handler, device>>

\* Run returns: the locals of its steps are gone, and its defer unregisters
\* HandleUplinkEvent.
Exit(label) == /\ pc' = label
               /\ attempt' = 0
               /\ todo' = {}
               /\ enrolled' = {}
               /\ UNCHANGED stage

\* The last step; Run returns nil and its defer unregisters the deployment.
DeleteMulticastGroup ==
  /\ pc = "deleteGroup"
  /\ group' = "deleted"
  /\ members' = {}
  /\ mcQueue' = "empty"
  /\ Exit("done")
  /\ UNCHANGED <<requested, deviceState, deployment,
                 deploymentDevice, handler, device>>

\* `return err` in a step: Run returns it, and the deferred unregister runs.
\* The multicast-group is not deleted.
StepError ==
  /\ \/ pc \in {"createGroup", "record", "enqueue", "deleteGroup"}
     \/ pc = "addDevices" /\ todo # {}
     \/ pc = "send" /\ \E d \in todo : Pending(d, stage)
  /\ Exit("failed")
  /\ UNCHANGED <<serverVars, deviceState, deployment, deploymentDevice, handler,
                 device>>

\* The same, when the call that failed had its effect nevertheless.
StepErrorWithEffect ==
  /\ \/ /\ pc = "createGroup"
        /\ group' = "created"
        /\ UNCHANGED <<members, mcQueue, deployment>>
     \/ /\ pc = "addDevices"
        /\ \E d \in todo : members' = members \cup {d}
        /\ UNCHANGED <<group, mcQueue, deployment>>
     \/ /\ pc = "record"
        /\ UpdateDeployment(RecordColumn(stage))
        /\ UNCHANGED <<group, members, mcQueue>>
     \/ /\ pc = "deleteGroup"
        /\ group' = "deleted"
        /\ members' = {}
        /\ mcQueue' = "empty"
        /\ UNCHANGED deployment
  /\ Exit("failed")
  /\ UNCHANGED <<requested, deviceState, deploymentDevice, handler, device>>

RunStep ==
  \/ CreateMulticastGroup
  \/ \E d \in Devices : AddDevice(d)
  \/ AddedDevices
  \/ NextAttempt
  \/ \E d \in Devices : \/ McGroupSetupReq(d)
                         \/ FragSessionSetupReq(d)
                         \/ McClassBSessionReq(d)
                         \/ McClassCSessionReq(d)
                         \/ FragSessionStatusReq(d)
  \/ SentRequests
  \/ Timeout
  \/ \E h \in Handlers : ReceiveDone(h)
  \/ Record
  \/ EnqueueFragments
  \/ DeleteMulticastGroup
  \/ StepError
  \/ StepErrorWithEffect

Ended == pc \in {"done", "failed"}

\* The columns whose step has begun.
Opened == IF stage = "none" THEN {} ELSE Before(stage) \cup {stage}

-----------------------------------------------------------------------------
(* The goroutines that run HandleUplinkEvent, and the devices.             *)

\* The handler returns and its goroutine ends.
Return(h) == handler' = [handler EXCEPT ![h] = IdleHandler]

\* The device has carried out, or now can carry out, the request of stage s; a
\* status without missing fragments takes a session and fragments sent in it.
CanComplete(d, s) ==
  /\ Needs(s) \subseteq device[d]
  /\ s = "fragmentationSessionStatus" => d \in members /\ mcQueue # "empty"

\* A device carries out a request it received, or fails to, and answers; an
\* answer may be lost, late or repeated.  ServeHTTP starts a goroutine for it,
\* which logs the answer, and returns unless the answer is accepted.
HandleAnswer(h, d, s, a) ==
  /\ ~Ended
  /\ handler[h].pc = "idle"
  /\ s \in requested[d]
  /\ a = "ok" => CanComplete(d, s)
  /\ device' = [device EXCEPT ![d] = IF a = "ok" THEN @ \cup {s} ELSE @]
  /\ handler' = IF Accepted(a)
                  THEN [handler EXCEPT ![h].pc = "set", ![h].dev = d, ![h].stage = s]
                  ELSE handler
  /\ UNCHANGED <<runVars, serverVars, deviceState, deployment, deploymentDevice>>

handleMcGroupSetupAns(h, d, a) ==
  a # "incomplete" /\ HandleAnswer(h, d, "multicastSetup", a)

handleFragSessionSetupAns(h, d, a) ==
  a # "incomplete" /\ HandleAnswer(h, d, "fragmentationSessionSetup", a)

handleMcClassBSessionAns(h, d, a) ==
  /\ GroupType = "CLASS_B"
  /\ a # "incomplete"
  /\ HandleAnswer(h, d, "multicastSessionSetup", a)

handleMcClassCSessionAns(h, d, a) ==
  /\ GroupType = "CLASS_C"
  /\ a # "incomplete"
  /\ HandleAnswer(h, d, "multicastSessionSetup", a)

handleFragSessionStatusAns(h, d, a) ==
  HandleAnswer(h, d, "fragmentationSessionStatus", a)

\* The dispatch on FPort and CID.
HandleUplinkEvent(h, d, a) ==
  \/ handleMcGroupSetupAns(h, d, a)
  \/ handleFragSessionSetupAns(h, d, a)
  \/ handleMcClassBSessionAns(h, d, a)
  \/ handleMcClassCSessionAns(h, d, a)
  \/ handleFragSessionStatusAns(h, d, a)

\* state.setMulticastSetup(true) and its three siblings.
SetDeviceState(h) ==
  /\ handler[h].pc = "set"
  /\ deviceState' = [deviceState EXCEPT ![handler[h].dev] = @ \cup {handler[h].stage}]
  /\ handler' = [handler EXCEPT ![h].pc = "get"]
  /\ UNCHANGED <<runVars, serverVars, deployment, deploymentDevice, device>>

NewRow(d, s) == {s}
\* The local copy of the row of d, with the column of s set.
RowWith(d, s) == deploymentDevice[d] \cup {s}

\* storage.GetDeploymentDevice, and the column set in the local copy.
GetDeploymentDevice(h) ==
  /\ handler[h].pc = "get"
  /\ handler' = [handler EXCEPT
                   ![h].pc = "update",
                   ![h].row = RowWith(handler[h].dev, handler[h].stage)]
  /\ UNCHANGED <<runVars, serverVars, deviceState, deployment, deploymentDevice,
                 device>>

StoreRow(h) ==
  deploymentDevice' = [deploymentDevice EXCEPT ![handler[h].dev] = handler[h].row]

\* storage.UpdateDeploymentDevice writes every column of the local copy.  The
\* loop over d.deviceState comes next.
UpdateDeploymentDevice(h) ==
  /\ handler[h].pc = "update"
  /\ StoreRow(h)
  /\ handler' = [handler EXCEPT ![h].pc = "check", ![h].row = {}, ![h].unseen = Devices]
  /\ UNCHANGED <<runVars, serverVars, deviceState, deployment, device>>

\* Either storage call fails and the handler returns the error; a write may
\* have been committed nevertheless.
StorageError(h) ==
  /\ \/ handler[h].pc \in {"get", "update"} /\ UNCHANGED deploymentDevice
     \/ handler[h].pc = "update" /\ StoreRow(h)
  /\ Return(h)
  /\ UNCHANGED <<runVars, serverVars, deviceState, deployment, device>>

IncompleteForItself(h, d) == handler[h].dev = d /\ Pending(d, handler[h].stage)
\* The body of the done loop sets done = false for device d.
Incomplete(h, d) == Pending(d, handler[h].stage)

\* One iteration of the done loop.  Once done is false the rest of the loop
\* has no effect: the handler returns.
CheckDevice(h, d) ==
  /\ handler[h].pc = "check"
  /\ d \in handler[h].unseen
  /\ IF Incomplete(h, d)
       THEN Return(h)
       ELSE handler' = [handler EXCEPT ![h].unseen = @ \ {d}]
  /\ UNCHANGED <<runVars, serverVars, deviceState, deployment, deploymentDevice,
                 device>>

\* done is still true: `d.multicastSetupDone <- struct{}{}` waits for Run.
PublishDone(h) ==
  /\ handler[h].pc = "check"
  /\ handler[h].unseen = {}
  /\ handler' = [handler EXCEPT ![h].pc = "publish"]
  /\ UNCHANGED <<runVars, serverVars, deviceState, deployment, deploymentDevice,
                 device>>

HandlerStep(h) ==
  \/ SetDeviceState(h)
  \/ GetDeploymentDevice(h)
  \/ UpdateDeploymentDevice(h)
  \/ StorageError(h)
  \/ \E d \in Devices : CheckDevice(h, d)
  \/ PublishDone(h)

Next ==
  \/ RunStep
  \/ \E h \in Handlers : HandlerStep(h)
  \/ \E h \in Handlers, d \in Devices, a \in Answers : HandleUplinkEvent(h, d, a)

\* Remote and database calls return and timers fire, so Run never stays where
\* it is; the Go scheduler runs every goroutine that is not blocked.  Nothing
\* is assumed of the devices and the network.
Fairness == /\ WF_vars(RunStep)
            /\ \A h \in Handlers : WF_vars(HandlerStep(h))

Spec == Init /\ [][Next]_vars /\ Fairness

-----------------------------------------------------------------------------
(* Correctness.                                                            *)

TypeOK ==
  /\ pc \in {"createGroup", "addDevices", "attempt", "send", "select", "record",
             "enqueue", "deleteGroup", "done", "failed"}
  /\ stage \in Columns \cup {"none"}
  /\ enrolled \in SUBSET Devices
  /\ attempt \in 0..(UnicastAttemptCount + 1)
  /\ todo \in SUBSET Devices
  /\ group \in {"none", "created", "deleted"}
  /\ members \in SUBSET Devices
  /\ mcQueue \in {"empty", "gaps", "complete"}
  /\ requested \in [Devices -> SUBSET Stages]
  /\ deviceState \in [Devices -> SUBSET Stages]
  /\ deployment \in SUBSET Columns
  /\ deploymentDevice \in [Devices -> SUBSET Stages]
  /\ handler \in [Handlers -> HandlerState]
  /\ device \in [Devices -> SUBSET Stages]

\* What the rows say, the server believes, and what the server believes of a
\* device is true: concurrent handlers, errors and stale row copies never make
\* a stage look completed that the device did not complete.
KnowledgeSound ==
  \A d \in Devices : /\ deploymentDevice[d] \subseteq deviceState[d]
                     /\ deviceState[d] \subseteq device[d]

\* A device is never asked for a stage, nor believed to have completed one,
\* before it is known to have completed what that stage needs.
PipelineOrder ==
  \A d \in Devices : \A s \in requested[d] \cup deviceState[d] :
    Needs(s) \subseteq deviceState[d]

\* A receive from a done channel means at least this: all devices that could
\* take part when the step began have completed its stage.  The handler reads
\* the devices one by one, may wait arbitrarily long on the channel, and may be
\* of an earlier attempt.  For multicastSetup these are all devices.
DoneCoversEnrolled ==
  \A h \in Handlers :
    handler[h].pc = "publish" /\ handler[h].stage = stage
      => \A d \in enrolled : stage \in deviceState[d]

\* The device rows never run ahead of the deployment row: a stage completed by
\* some device implies that every step before it was recorded as completed.
RowsFollowSteps ==
  \A d \in Devices : \A s \in deploymentDevice[d] : Before(s) \subseteq deployment

\* What was stored for a device stays stored.
RowsKeepResults ==
  [][\A d \in Devices : deploymentDevice[d] \subseteq deploymentDevice'[d]]_vars

\* `if all devices have finished` (fuota.go:489), `terminate when all devices have
\* been setup` (fuota.go:909), `completed successful for all devices`
\* (fuota.go:1027): a done message is received only when no device that takes part
\* in the step is still without an answer.
SuccessMeansAllDevices ==
  [][\A h \in Handlers : ReceiveDone(h) => \A d \in Devices : ~Pending(d, stage)]_vars

\* Every device that the done loop of h has looked at is done with its stage.
DoneSeen(h) ==
  handler[h].pc \in {"check", "publish"} =>
    \A d \in Devices \ handler[h].unseen : ~Pending(d, handler[h].stage)

\* What a done loop has seen becomes untrue, and the message a false one, for one
\* reason only: another goroutine has just set the flag of an earlier stage, so
\* that its device takes part after it was passed over (fuota.go:490-502).  No
\* order of the answers to the stage itself, and no timeout of Run, does it.
OnlyLateAnswersMislead ==
  [][\A h \in Handlers : DoneSeen(h) /\ ~DoneSeen(h)' =>
       \E g \in Handlers : SetDeviceState(g) /\ handler[g].stage \in Needs(handler[h].stage)]_vars

\* `if all devices have finished the multicast-setup, publish to done chan`
\* (fuota.go:428): unless Run fails, the message is received some time.
PublishIsReceived ==
  \A h \in Handlers :
    handler[h].pc = "publish" ~> (handler[h].pc # "publish" \/ pc = "failed")

\* Run ends, whatever the devices answer, and however many handlers are left
\* waiting on the done channels.
RunTerminates == <>Ended

\* The deployment implements the rollout: stages open in order, devices are
\* confirmed only for opened stages and only in order, and the rollout ends.
R == INSTANCE Rollout WITH
       opened    <- Opened,
       ended     <- Ended,
       confirmed <- deviceState

ImplementsRollout == R!Spec
=============================================================================
