--------------------------- MODULE DeploymentProofs ---------------------------
(***************************************************************************)
(* Proofs about Deployment, for any set of devices, any number of uplink   *)
(* goroutines and any number of attempts.                                  *)
(***************************************************************************)
EXTENDS Deployment, TLAPS

-----------------------------------------------------------------------------
(* The inductive invariant.                                                *)

\* The loop head never sees a counter that has passed the maximum.
AttemptBound == pc \in {"attempt", "send", "select"} => attempt <= UnicastAttemptCount

\* No column before the first step, a column of deployment from then on.
StageFollowsPc ==
  /\ pc \in {"createGroup", "addDevices"} => stage = "none"
  /\ pc \in {"attempt", "send", "select", "record", "enqueue"} => stage \in Columns

\* Run records every step before it begins the next.
RecordedBefore == Opened \ {stage} \subseteq deployment

\* The flags an enrolled device needed are still set.
EnrolledTakePart == \A d \in enrolled : Participates(d, stage)

\* Requests are sent in opened steps to devices that take part.
RequestsFollow ==
  \A d \in Devices : \A s \in requested[d] : s \in Opened /\ Participates(d, s)

\* Row, flag, device and request: each is implied by the one before.
KnowledgeChain ==
  \A d \in Devices : /\ deploymentDevice[d] \subseteq deviceState[d]
                     /\ deviceState[d] \subseteq device[d]
                     /\ device[d] \subseteq requested[d]

\* What a handler goroutine knows at each of its points.
HandlerKnows(h) ==
  /\ handler[h].pc # "idle" =>
       /\ handler[h].dev \in Devices
       /\ handler[h].stage \in device[handler[h].dev]
  /\ handler[h].pc \in {"get", "update", "check", "publish"} =>
       handler[h].stage \in deviceState[handler[h].dev]
  /\ handler[h].pc = "update" => handler[h].row \subseteq deviceState[handler[h].dev]
  /\ handler[h].pc = "publish" => handler[h].unseen = {}
  /\ handler[h].pc \in {"check", "publish"} /\ handler[h].stage = stage =>
       \A d \in enrolled \ handler[h].unseen : stage \in deviceState[d]

HandlersKnow == \A h \in Handlers : HandlerKnows(h)

IInv == /\ TypeOK
        /\ AttemptBound
        /\ StageFollowsPc
        /\ RecordedBefore
        /\ EnrolledTakePart
        /\ RequestsFollow
        /\ KnowledgeChain
        /\ HandlersKnow

-----------------------------------------------------------------------------
(* Facts about the order of the steps.                                     *)

\* What a stage needs are stages of earlier steps, and the step order is
\* transitive and irreflexive.
LEMMA StageFacts ==
  /\ Stages \subseteq Columns
  /\ "none" \notin Columns
  /\ \A s \in Stages : Needs(s) \subseteq Stages
  /\ \A c \in Columns : Before(c) \subseteq Columns /\ c \notin Before(c)
  /\ \A c \in Columns : \A b \in Before(c) : Before(b) \subseteq Before(c)
  BY DEF Stages, Columns, Needs, Before

\* The next step is a new one, and what is before it is what has been opened.
LEMMA FollowsFacts ==
  ASSUME NEW c \in Columns, NEW n \in Columns, Follows(c, n)
  PROVE  n \notin Before(c) \cup {c} /\ Before(n) = Before(c) \cup {c}
  BY StageFacts DEF Follows

LEMMA FirstStepFacts ==
  /\ "multicastSetup" \in Columns
  /\ Before("multicastSetup") = {}
  /\ Needs("multicastSetup") = {}
  BY DEF Stages, Columns, Before, Needs

-----------------------------------------------------------------------------
(* The invariant holds initially and is preserved by every step.           *)

LEMMA InitEstablishes == Init => IInv
  <1> SUFFICES ASSUME Init PROVE IInv
    OBVIOUS
  <1> USE DeploymentAssumption DEF Init, CreateDeployment, CreateDeploymentDevices
  <1>1. TypeOK
    BY DEF TypeOK, HandlerState, IdleHandler
  <1>2. AttemptBound /\ StageFollowsPc /\ RecordedBefore /\ EnrolledTakePart
    BY DEF AttemptBound, StageFollowsPc, RecordedBefore, EnrolledTakePart, Opened
  <1>3. RequestsFollow /\ KnowledgeChain
    BY DEF RequestsFollow, KnowledgeChain
  <1>4. HandlersKnow
    BY DEF HandlersKnow, HandlerKnows, IdleHandler
  <1> QED
    BY <1>1, <1>2, <1>3, <1>4 DEF IInv

\* The steps of Run that neither begin a step nor touch what handlers know.
LEMMA QuietStep ==
  ASSUME IInv,
         UNCHANGED <<stage, enrolled, requested, deviceState, deployment,
                     deploymentDevice, handler, device>>
  PROVE  /\ RecordedBefore' /\ EnrolledTakePart' /\ RequestsFollow'
         /\ KnowledgeChain' /\ HandlersKnow'
  BY DEF IInv, RecordedBefore, EnrolledTakePart, RequestsFollow, KnowledgeChain,
         HandlersKnow, HandlerKnows, Opened, Participates

\* A new step finds no handler and no request of its stage: both are of steps
\* opened before.
LEMMA BeginStepPreserves ==
  ASSUME IInv, NEW c \in Columns, c \notin Opened, Before(c) = Opened,
         Opened \subseteq deployment', deployment' \subseteq Columns,
         BeginStep(c),
         UNCHANGED <<serverVars, deviceState, deploymentDevice, handler, device>>
  PROVE  IInv'
  <1> USE DeploymentAssumption
  <1> DEFINE newOpened == Before(c) \cup {c}
  <1>0. Opened' = newOpened
    BY StageFacts DEF BeginStep, Opened
  <1>1. TypeOK'
    BY DEF IInv, TypeOK, BeginStep, serverVars
  <1>2. AttemptBound'
    BY DEF AttemptBound, BeginStep
  <1>3. StageFollowsPc'
    BY DEF StageFollowsPc, BeginStep
  <1>4. RecordedBefore'
    BY <1>0 DEF RecordedBefore, BeginStep
  <1>5. EnrolledTakePart'
    BY DEF EnrolledTakePart, BeginStep, Participates
  <1>6. RequestsFollow'
    BY <1>0 DEF IInv, RequestsFollow, Participates, serverVars
  <1>7. KnowledgeChain'
    BY DEF IInv, KnowledgeChain, serverVars
  <1>8. HandlersKnow'
    <2> SUFFICES ASSUME NEW h \in Handlers PROVE HandlerKnows(h)'
      BY DEF HandlersKnow
    <2>1. handler[h].pc # "idle" => handler[h].stage \in Opened
      BY DEF IInv, HandlersKnow, HandlerKnows, KnowledgeChain, RequestsFollow
    <2> QED
      BY <2>1 DEF IInv, HandlersKnow, HandlerKnows, BeginStep
  <1> QED
    BY <1>1, <1>2, <1>3, <1>4, <1>5, <1>6, <1>7, <1>8 DEF IInv

\* The steps of Run preserve the invariant.
LEMMA RunStepPreserves == IInv /\ RunStep => IInv'
  <1> SUFFICES ASSUME IInv, RunStep PROVE IInv'
    OBVIOUS
  <1> USE DeploymentAssumption
  <1>1. CASE CreateMulticastGroup
    <2>1. TypeOK' /\ AttemptBound' /\ StageFollowsPc'
      BY <1>1 DEF CreateMulticastGroup, IInv, TypeOK, AttemptBound, StageFollowsPc
    <2> QED
      BY <1>1, <2>1, QuietStep DEF CreateMulticastGroup, IInv
  <1>2. ASSUME NEW d \in Devices, AddDevice(d) PROVE IInv'
    <2>1. TypeOK' /\ AttemptBound' /\ StageFollowsPc'
      BY <1>2 DEF AddDevice, IInv, TypeOK, AttemptBound, StageFollowsPc
    <2> QED
      BY <1>2, <2>1, QuietStep DEF AddDevice, IInv
  <1>3. CASE AddedDevices
    <2>1. stage = "none" /\ Opened = {}
      BY <1>3 DEF AddedDevices, IInv, StageFollowsPc, Opened
    <2>2. deployment' = deployment /\ deployment \subseteq Columns
      BY <1>3 DEF AddedDevices, IInv, TypeOK
    <2> QED
      BY <1>3, <2>1, <2>2, FirstStepFacts, BeginStepPreserves DEF AddedDevices
  <1>4. CASE NextAttempt
    <2>1. TypeOK' /\ AttemptBound' /\ StageFollowsPc'
      BY <1>4 DEF NextAttempt, AttemptsExhausted, AttemptAfter, serverVars,
                  IInv, TypeOK, AttemptBound, StageFollowsPc
    <2> QED
      BY <1>4, <2>1, QuietStep DEF NextAttempt, serverVars, IInv
  <1>5. ASSUME NEW d \in Devices, NEW s \in Stages, SendRequest(d, s) PROVE IInv'
    <2>1. TypeOK'
      BY <1>5 DEF SendRequest, IInv, TypeOK
    <2>2. AttemptBound' /\ StageFollowsPc'
      BY <1>5 DEF SendRequest, IInv, AttemptBound, StageFollowsPc
    <2>3. RecordedBefore' /\ EnrolledTakePart'
      BY <1>5 DEF SendRequest, IInv, RecordedBefore, EnrolledTakePart, Opened,
                  Participates
    <2>4. stage \in Opened
      BY <1>5, StageFacts DEF SendRequest, Opened
    <2>5. RequestsFollow'
      BY <1>5, <2>4 DEF SendRequest, Pending, Participates, IInv, TypeOK,
                        RequestsFollow, Opened
    <2>6. KnowledgeChain'
      BY <1>5 DEF SendRequest, IInv, TypeOK, KnowledgeChain
    <2>7. HandlersKnow'
      BY <1>5 DEF SendRequest, IInv, HandlersKnow, HandlerKnows
    <2> QED
      BY <2>1, <2>2, <2>3, <2>5, <2>6, <2>7 DEF IInv
  <1>6. CASE SentRequests
    <2>1. TypeOK' /\ AttemptBound' /\ StageFollowsPc'
      BY <1>6 DEF SentRequests, serverVars, IInv, TypeOK, AttemptBound, StageFollowsPc
    <2> QED
      BY <1>6, <2>1, QuietStep DEF SentRequests, serverVars, IInv
  <1>7. CASE Timeout
    <2>1. TypeOK' /\ AttemptBound' /\ StageFollowsPc'
      BY <1>7 DEF Timeout, serverVars, IInv, TypeOK, AttemptBound, StageFollowsPc
    <2> QED
      BY <1>7, <2>1, QuietStep DEF Timeout, serverVars, IInv
  <1>8. ASSUME NEW h \in Handlers, ReceiveDone(h) PROVE IInv'
    <2>1. TypeOK'
      BY <1>8 DEF ReceiveDone, serverVars, IInv, TypeOK, HandlerState, IdleHandler
    <2>2. AttemptBound' /\ StageFollowsPc'
      BY <1>8 DEF ReceiveDone, IInv, AttemptBound, StageFollowsPc
    <2>3. RecordedBefore' /\ EnrolledTakePart' /\ RequestsFollow' /\ KnowledgeChain'
      BY <1>8 DEF ReceiveDone, serverVars, IInv, RecordedBefore, EnrolledTakePart,
                  RequestsFollow, KnowledgeChain, Opened, Participates
    <2>4. HandlersKnow'
      BY <1>8 DEF ReceiveDone, IInv, TypeOK, HandlersKnow, HandlerKnows, IdleHandler
    <2> QED
      BY <2>1, <2>2, <2>3, <2>4 DEF IInv
  <1>9. CASE Record
    <2>1. stage \in Columns
      BY <1>9 DEF Record, IInv, StageFollowsPc
    <2>2. Opened = Before(stage) \cup {stage} /\ Opened \subseteq deployment'
      BY <1>9, <2>1, StageFacts DEF Record, RecordColumn, UpdateDeployment, IInv,
                                     RecordedBefore, Opened
    <2>3. deployment' \subseteq Columns
      BY <1>9, <2>1 DEF Record, RecordColumn, UpdateDeployment, IInv, TypeOK
    <2>4. ASSUME NEW c \in Columns, Follows(stage, c), BeginStep(c) PROVE IInv'
      BY <1>9, <2>1, <2>2, <2>3, <2>4, FollowsFacts, BeginStepPreserves DEF Record
    <2>5. CASE pc' = "deleteGroup" /\ UNCHANGED <<stage, enrolled, attempt, todo>>
      <3>1. TypeOK'
        BY <1>9, <2>3, <2>5 DEF Record, serverVars, IInv, TypeOK
      <3>2. AttemptBound' /\ StageFollowsPc'
        BY <2>5 DEF AttemptBound, StageFollowsPc
      <3>3. RecordedBefore'
        BY <2>2, <2>5 DEF RecordedBefore, Opened
      <3>4. EnrolledTakePart' /\ RequestsFollow' /\ KnowledgeChain' /\ HandlersKnow'
        BY <1>9, <2>5 DEF Record, serverVars, IInv, EnrolledTakePart, RequestsFollow,
                          KnowledgeChain, HandlersKnow, HandlerKnows, Opened,
                          Participates
      <3> QED
        BY <3>1, <3>2, <3>3, <3>4 DEF IInv
    <2> QED
      BY <1>9, <2>4, <2>5 DEF Record
  <1>10. CASE EnqueueFragments
    <2>1. TypeOK' /\ AttemptBound' /\ StageFollowsPc'
      BY <1>10 DEF EnqueueFragments, IInv, TypeOK, AttemptBound, StageFollowsPc
    <2> QED
      BY <1>10, <2>1, QuietStep DEF EnqueueFragments, IInv
  <1>11. CASE DeleteMulticastGroup \/ StepError \/ StepErrorWithEffect
    <2>1. /\ UNCHANGED <<stage, requested, deviceState, deploymentDevice, handler, device>>
          /\ pc' \in {"done", "failed"} /\ attempt' = 0 /\ todo' = {} /\ enrolled' = {}
      BY <1>11 DEF DeleteMulticastGroup, StepError, StepErrorWithEffect, Exit, serverVars
    <2>2. group' \in {"none", "created", "deleted"} /\ mcQueue' \in {"empty", "gaps", "complete"}
      BY <1>11 DEF DeleteMulticastGroup, StepError, StepErrorWithEffect, serverVars, IInv,
                   TypeOK
    <2>3. members' \subseteq Devices
      BY <1>11 DEF DeleteMulticastGroup, StepError, StepErrorWithEffect, serverVars, IInv,
                   TypeOK
    <2>4. deployment \subseteq deployment' /\ deployment' \subseteq Columns
      <3>1. \/ deployment' = deployment
            \/ pc = "record" /\ deployment' = deployment \cup {stage}
        BY <1>11 DEF DeleteMulticastGroup, StepError, StepErrorWithEffect,
                     UpdateDeployment, RecordColumn, serverVars
      <3> QED
        BY <3>1 DEF IInv, TypeOK, StageFollowsPc
    <2>5. TypeOK'
      BY <2>1, <2>2, <2>3, <2>4, DeploymentAssumption DEF IInv, TypeOK
    <2>6. AttemptBound' /\ StageFollowsPc' /\ EnrolledTakePart'
      BY <2>1 DEF AttemptBound, StageFollowsPc, EnrolledTakePart
    <2>7. RecordedBefore' /\ RequestsFollow' /\ KnowledgeChain'
      <3>1. Opened' = Opened
        BY <2>1 DEF Opened
      <3>2. RecordedBefore'
        BY <2>1, <2>4, <3>1 DEF IInv, RecordedBefore
      <3>3. RequestsFollow' /\ KnowledgeChain'
        BY <2>1, <3>1 DEF IInv, RequestsFollow, KnowledgeChain, Participates
      <3> QED
        BY <3>2, <3>3
    <2>8. HandlersKnow'
      BY <2>1 DEF IInv, HandlersKnow, HandlerKnows
    <2> QED
      BY <2>5, <2>6, <2>7, <2>8 DEF IInv
  <1>12. ASSUME NEW d \in Devices,
                \/ McGroupSetupReq(d) \/ FragSessionSetupReq(d)
                \/ McClassBSessionReq(d) \/ McClassCSessionReq(d)
                \/ FragSessionStatusReq(d)
         PROVE  IInv'
    <2>1. PICK s \in Stages : SendRequest(d, s)
      BY <1>12 DEF McGroupSetupReq, FragSessionSetupReq, McClassBSessionReq,
                   McClassCSessionReq, FragSessionStatusReq, Stages
    <2> QED
      BY <2>1, <1>5
  <1> QED
    BY <1>1, <1>2, <1>3, <1>4, <1>6, <1>7, <1>8, <1>9, <1>10, <1>11, <1>12 DEF RunStep

\* What the steps of the goroutines leave alone.
LEMMA HandlersLeaveRunAlone ==
  ASSUME IInv, UNCHANGED <<runVars, serverVars, deployment>>
  PROVE  AttemptBound' /\ StageFollowsPc' /\ RecordedBefore' /\ Opened' = Opened
  BY DEF IInv, AttemptBound, StageFollowsPc, RecordedBefore, Opened, runVars,
         serverVars

\* A goroutine moves; what it learns can only make the others' knowledge truer.
LEMMA OthersKnow ==
  ASSUME IInv, NEW h \in Handlers, NEW g \in Handlers, g # h,
         handler'[g] = handler[g], UNCHANGED runVars,
         \A d \in Devices : /\ deviceState[d] \subseteq deviceState'[d]
                            /\ device[d] \subseteq device'[d]
  PROVE  HandlerKnows(g)'
  <1>1. HandlerKnows(g) /\ enrolled \subseteq Devices
    BY DEF IInv, HandlersKnow, TypeOK
  <1> QED
    BY <1>1 DEF HandlerKnows, runVars

\* An uplink that is an answer preserves the invariant.
LEMMA HandleUplinkEventPreserves ==
  ASSUME IInv, NEW h \in Handlers, NEW d \in Devices, NEW a \in Answers,
         HandleUplinkEvent(h, d, a)
  PROVE  IInv'
  <1>1. PICK s \in Stages : HandleAnswer(h, d, s, a)
    BY DEF HandleUplinkEvent, handleMcGroupSetupAns, handleFragSessionSetupAns,
           handleMcClassBSessionAns, handleMcClassCSessionAns,
           handleFragSessionStatusAns, Stages
  <1> USE <1>1 DEF HandleAnswer, Accepted
  <1>2. TypeOK'
    <2>1. device' \in [Devices -> SUBSET Stages]
      BY DEF IInv, TypeOK
    <2>2. handler' \in [Handlers -> HandlerState]
      <3>1. CASE a = "ok"
        <4>1. [handler[h] EXCEPT !.pc = "set", !.dev = d, !.stage = s] \in HandlerState
          BY DEF IInv, TypeOK, HandlerState
        <4> QED
          BY <3>1, <4>1 DEF IInv, TypeOK
      <3>2. CASE a # "ok"
        BY <3>2 DEF IInv, TypeOK
      <3> QED
        BY <3>1, <3>2
    <2> QED
      BY <2>1, <2>2 DEF IInv, TypeOK, runVars, serverVars
  <1>3. AttemptBound' /\ StageFollowsPc' /\ RecordedBefore' /\ Opened' = Opened
    BY HandlersLeaveRunAlone
  <1>4. EnrolledTakePart' /\ RequestsFollow'
    BY <1>3 DEF IInv, EnrolledTakePart, RequestsFollow, Participates, runVars, serverVars
  <1>5. KnowledgeChain'
    BY DEF IInv, TypeOK, KnowledgeChain, serverVars
  <1>6. HandlersKnow'
    <2> SUFFICES ASSUME NEW g \in Handlers PROVE HandlerKnows(g)'
      BY DEF HandlersKnow
    <2>1. \A e \in Devices : /\ deviceState[e] \subseteq deviceState'[e]
                             /\ device[e] \subseteq device'[e]
      BY DEF IInv, TypeOK
    <2>2. CASE g # h
      BY <2>1, <2>2, OthersKnow DEF IInv, TypeOK
    <2>3. CASE g = h /\ a = "ok"
      BY <2>3 DEF IInv, TypeOK, HandlerKnows
    <2>4. CASE g = h /\ a # "ok"
      BY <2>4 DEF IInv, TypeOK, HandlersKnow, HandlerKnows, runVars
    <2> QED
      BY <2>2, <2>3, <2>4
  <1> QED
    BY <1>2, <1>3, <1>4, <1>5, <1>6 DEF IInv

\* The steps of a handler goroutine preserve the invariant.
LEMMA HandlerStepPreserves ==
  ASSUME IInv, NEW h \in Handlers, HandlerStep(h)
  PROVE  IInv'
  <1> DEFINE dev == handler[h].dev
             s   == handler[h].stage
  <1>1. handler[h].pc # "idle" => dev \in Devices /\ s \in Stages
    BY DEF IInv, TypeOK, HandlersKnow, HandlerKnows
  <1>2. CASE SetDeviceState(h)
    <2> USE <1>2 DEF SetDeviceState
    <2>1. dev \in Devices /\ s \in Stages /\ s \in device[dev]
      BY <1>1 DEF IInv, HandlersKnow, HandlerKnows
    <2>2. TypeOK'
      BY <2>1 DEF IInv, TypeOK, HandlerState, runVars, serverVars
    <2>3. AttemptBound' /\ StageFollowsPc' /\ RecordedBefore' /\ Opened' = Opened
      BY HandlersLeaveRunAlone
    <2>4. \A e \in Devices : /\ deviceState[e] \subseteq deviceState'[e]
                             /\ device[e] \subseteq device'[e]
      BY <2>1 DEF IInv, TypeOK
    <2>5. EnrolledTakePart'
      BY <2>4 DEF IInv, TypeOK, EnrolledTakePart, Participates, runVars
    <2>6. RequestsFollow'
      BY <2>3, <2>4 DEF IInv, RequestsFollow, Participates, serverVars
    <2>7. KnowledgeChain'
      BY <2>1 DEF IInv, TypeOK, KnowledgeChain, serverVars
    <2>8. ASSUME NEW g \in Handlers PROVE HandlerKnows(g)'
      <3>1. CASE g # h
        BY <2>4, <3>1, OthersKnow DEF IInv, TypeOK
      <3>2. CASE g = h
        BY <2>1, <3>2 DEF IInv, TypeOK, HandlerKnows
      <3> QED
        BY <3>1, <3>2
    <2> QED
      BY <2>2, <2>3, <2>5, <2>6, <2>7, <2>8 DEF IInv, HandlersKnow
  <1>3. CASE \/ GetDeploymentDevice(h) \/ PublishDone(h)
             \/ StorageError(h) /\ UNCHANGED deploymentDevice
             \/ \E d \in Devices : CheckDevice(h, d)
    <2>0. UNCHANGED <<runVars, serverVars, deviceState, deployment, deploymentDevice,
                      device>>
      BY <1>3 DEF GetDeploymentDevice, StorageError, PublishDone, CheckDevice
    <2>1. /\ \A g \in Handlers : g # h => handler'[g] = handler[g]
          /\ handler' \in [Handlers -> HandlerState]
      BY <1>3 DEF GetDeploymentDevice, RowWith, StorageError, PublishDone, CheckDevice,
                  Return, IdleHandler, IInv, TypeOK, HandlerState
    <2>2. TypeOK'
      BY <2>0, <2>1 DEF IInv, TypeOK, runVars, serverVars
    <2>3. AttemptBound' /\ StageFollowsPc' /\ RecordedBefore' /\ Opened' = Opened
      BY <2>0, HandlersLeaveRunAlone
    <2>4. EnrolledTakePart' /\ RequestsFollow' /\ KnowledgeChain'
      BY <2>0, <2>3 DEF IInv, EnrolledTakePart, RequestsFollow, KnowledgeChain,
                        Participates, runVars, serverVars
    <2>5. ASSUME NEW g \in Handlers, g # h PROVE HandlerKnows(g)'
      BY <2>0, <2>1, <2>5, OthersKnow
    <2>6. HandlerKnows(h) /\ handler \in [Handlers -> HandlerState]
      BY DEF IInv, HandlersKnow, TypeOK
    <2>7. HandlerKnows(h)'
      <3>1. CASE GetDeploymentDevice(h)
        <4>1. deploymentDevice[dev] \subseteq deviceState[dev]
          BY <1>1, <3>1 DEF GetDeploymentDevice, IInv, KnowledgeChain
        <4> QED
          BY <2>0, <2>6, <3>1, <4>1 DEF GetDeploymentDevice, RowWith, HandlerKnows
      <3>2. CASE StorageError(h)
        BY <2>6, <3>2 DEF StorageError, Return, IdleHandler, HandlerKnows
      <3>3. CASE PublishDone(h)
        BY <2>0, <2>6, <3>3 DEF PublishDone, HandlerKnows, runVars
      <3>4. ASSUME NEW d \in Devices, CheckDevice(h, d) PROVE HandlerKnows(h)'
        <4>1. CASE Incomplete(h, d)
          BY <2>6, <3>4, <4>1 DEF CheckDevice, Return, IdleHandler, HandlerKnows
        <4>2. CASE ~Incomplete(h, d)
          <5>1. handler' = [handler EXCEPT ![h].unseen = @ \ {d}]
            BY <3>4, <4>2 DEF CheckDevice
          <5>2. d \in enrolled /\ s = stage => stage \in deviceState[d]
            BY <4>2 DEF Incomplete, Pending, IInv, EnrolledTakePart
          <5> QED
            BY <2>0, <2>6, <3>4, <5>1, <5>2 DEF CheckDevice, HandlerKnows, runVars
        <4> QED
          BY <4>1, <4>2
      <3> QED
        BY <1>3, <3>1, <3>2, <3>3, <3>4
    <2> QED
      BY <2>2, <2>3, <2>4, <2>5, <2>7 DEF IInv, HandlersKnow
  <1>4. CASE \/ UpdateDeploymentDevice(h)
             \/ handler[h].pc = "update" /\ StorageError(h) /\ StoreRow(h)
    <2>1. /\ deploymentDevice' = [deploymentDevice EXCEPT ![dev] = handler[h].row]
          /\ UNCHANGED <<runVars, serverVars, deviceState, deployment, device>>
          /\ handler[h].pc = "update"
      BY <1>4 DEF UpdateDeploymentDevice, StorageError, StoreRow, runVars, serverVars
    <2>2. dev \in Devices /\ handler[h].row \subseteq deviceState[dev]
      BY <1>1, <2>1 DEF IInv, HandlersKnow, HandlerKnows
    <2>3. \/ handler' = [handler EXCEPT ![h].pc = "check", ![h].row = {},
                                       ![h].unseen = Devices]
          \/ handler' = [handler EXCEPT ![h] = IdleHandler]
      BY <1>4 DEF UpdateDeploymentDevice, StorageError, Return
    <2>4. TypeOK'
      <3>1. deploymentDevice' \in [Devices -> SUBSET Stages]
        BY <2>1, <2>2 DEF IInv, TypeOK
      <3>2. /\ [handler[h] EXCEPT !.pc = "check", !.row = {}, !.unseen = Devices]
                 \in HandlerState
            /\ IdleHandler \in HandlerState
        BY DEF IInv, TypeOK, HandlerState, IdleHandler
      <3>3. handler' \in [Handlers -> HandlerState]
        BY <2>3, <3>2 DEF IInv, TypeOK
      <3> QED
        BY <2>1, <3>1, <3>3 DEF IInv, TypeOK, runVars, serverVars
    <2>5. AttemptBound' /\ StageFollowsPc' /\ RecordedBefore' /\ Opened' = Opened
      BY <2>1, HandlersLeaveRunAlone
    <2>6. EnrolledTakePart' /\ RequestsFollow'
      BY <2>1, <2>5 DEF IInv, EnrolledTakePart, RequestsFollow, Participates, runVars,
                        serverVars
    <2>7. KnowledgeChain'
      BY <2>1, <2>2 DEF IInv, TypeOK, KnowledgeChain, serverVars
    <2>8. ASSUME NEW g \in Handlers PROVE HandlerKnows(g)'
      <3>1. CASE g # h
        <4>1. handler'[g] = handler[g]
          BY <2>3, <3>1 DEF IInv, TypeOK
        <4> QED
          BY <2>1, <3>1, <4>1, OthersKnow
      <3>2. CASE g = h
        <4>1. /\ HandlerKnows(h)
              /\ handler \in [Handlers -> HandlerState] /\ enrolled \subseteq Devices
          BY DEF IInv, HandlersKnow, TypeOK
        <4>2. CASE handler' = [handler EXCEPT ![h].pc = "check", ![h].row = {},
                                              ![h].unseen = Devices]
          BY <2>1, <2>2, <3>2, <4>1, <4>2 DEF HandlerKnows, HandlerState, runVars
        <4>3. CASE handler' = [handler EXCEPT ![h] = IdleHandler]
          BY <3>2, <4>1, <4>3 DEF HandlerKnows, IdleHandler
        <4> QED
          BY <2>3, <4>2, <4>3
      <3> QED
        BY <3>1, <3>2
    <2> QED
      BY <2>4, <2>5, <2>6, <2>7, <2>8 DEF IInv, HandlersKnow
  <1> QED
    BY <1>2, <1>3, <1>4 DEF HandlerStep, StorageError

LEMMA NextPreserves == IInv /\ [Next]_vars => IInv'
  <1> SUFFICES ASSUME IInv, [Next]_vars PROVE IInv'
    OBVIOUS
  <1>1. CASE UNCHANGED vars
    BY <1>1 DEF vars, runVars, serverVars, IInv, TypeOK, AttemptBound, StageFollowsPc,
                RecordedBefore, EnrolledTakePart, RequestsFollow, KnowledgeChain,
                HandlersKnow, HandlerKnows, Opened, Participates
  <1> QED
    BY <1>1, RunStepPreserves, HandlerStepPreserves, HandleUplinkEventPreserves DEF Next

THEOREM Invariance == Spec => []IInv
  BY InitEstablishes, NextPreserves, PTL DEF Spec

-----------------------------------------------------------------------------
(* What the invariant gives.                                               *)

\* Every variable keeps its type; the attempt counter never passes the maximum
\* by more than one, in whatever order timers, answers and errors come.
THEOREM TypeCorrect == Spec => []TypeOK
  <1>1. IInv => TypeOK
    BY DEF IInv
  <1> QED
    BY <1>1, Invariance, PTL

\* The rows never claim more than the flags, nor the flags more than is true.
THEOREM KnowledgeIsSound == Spec => []KnowledgeSound
  <1>1. IInv => KnowledgeSound
    BY DEF IInv, KnowledgeChain, KnowledgeSound
  <1> QED
    BY <1>1, Invariance, PTL

\* No device is asked for, or believed to have completed, a stage whose
\* preconditions it is not known to meet.
THEOREM PipelineIsOrdered == Spec => []PipelineOrder
  <1>1. IInv => PipelineOrder
    BY DEF IInv, KnowledgeChain, RequestsFollow, PipelineOrder, Participates
  <1> QED
    BY <1>1, Invariance, PTL

\* The done message of the current step covers every device enrolled in it.
THEOREM DoneIsTrueForEnrolled == Spec => []DoneCoversEnrolled
  <1>1. IInv => DoneCoversEnrolled
    BY DEF IInv, HandlersKnow, HandlerKnows, DoneCoversEnrolled
  <1> QED
    BY <1>1, Invariance, PTL

\* A result in a device row implies that all earlier steps are in the row of the
\* deployment.
THEOREM RowsFollowRun == Spec => []RowsFollowSteps
  <1>1. ASSUME IInv PROVE RowsFollowSteps
    <2> SUFFICES ASSUME NEW d \in Devices, NEW s \in deploymentDevice[d]
                 PROVE  Before(s) \subseteq deployment
      BY DEF RowsFollowSteps
    <2>1. s \in Opened
      BY <1>1 DEF IInv, KnowledgeChain, RequestsFollow
    <2>2. stage \in Columns
      BY <1>1, <2>1 DEF IInv, TypeOK, Opened
    <2>3. Before(s) \subseteq Before(stage)
      BY <2>1, <2>2, StageFacts DEF Opened
    <2> QED
      BY <1>1, <2>1, <2>2, <2>3, StageFacts DEF IInv, RecordedBefore, Opened
  <1> QED
    BY <1>1, Invariance, PTL

-----------------------------------------------------------------------------
(* The deployment implements the rollout, safety part: the liveness part,  *)
(* that it ends, is RunTerminates and is left to TLC.                      *)

\* The rollout has its own instance of the vocabulary, which is the same.
LEMMA SameStages ==
  /\ R!Columns = Columns
  /\ R!Stages = Stages
  /\ \A s : R!Needs(s) = Needs(s)
  /\ \A c : R!Before(c) = Before(c)
  BY DEF R!Columns, R!Stages, R!Needs, R!Before, Columns, Stages, Needs, Before

LEMMA RolloutInit == Init => R!Init
  BY DEF Init, R!Init, Opened, Ended

\* A step of Run opens a stage, ends the rollout or is invisible.
LEMMA RunStepRefines == IInv /\ RunStep => [R!Next]_(R!vars)
  <1> SUFFICES ASSUME IInv, RunStep PROVE [R!Next]_(R!vars)
    OBVIOUS
  <1> USE DEF R!vars
  <1>1. ASSUME NEW c \in Columns, c \notin Opened, Opened = Before(c), BeginStep(c),
               ~Ended, UNCHANGED deviceState
        PROVE  R!Next
    <2>1. Opened' = Opened \cup {c} /\ Ended' = Ended
      BY <1>1, StageFacts DEF BeginStep, Opened, Ended
    <2> QED
      BY <1>1, <2>1, SameStages DEF R!Next, R!Open
  <1>2. CASE AddedDevices
    <2>1. Opened = {} /\ ~Ended
      BY <1>2 DEF AddedDevices, IInv, StageFollowsPc, Opened, Ended
    <2> QED
      BY <1>1, <1>2, <2>1, FirstStepFacts DEF AddedDevices
  <1>3. CASE Record
    <2>1. stage \in Columns /\ ~Ended /\ UNCHANGED deviceState
      BY <1>3 DEF Record, IInv, StageFollowsPc, Ended
    <2>2. Opened = Before(stage) \cup {stage}
      BY <2>1, StageFacts DEF Opened
    <2>3. CASE pc' = "deleteGroup" /\ UNCHANGED <<stage, enrolled, attempt, todo>>
      BY <2>1, <2>3 DEF Opened, Ended
    <2>4. ASSUME NEW c \in Columns, Follows(stage, c), BeginStep(c) PROVE R!Next
      BY <1>1, <2>1, <2>2, <2>4, FollowsFacts
    <2> QED
      BY <1>3, <2>3, <2>4 DEF Record
  <1>4. CASE DeleteMulticastGroup \/ StepError \/ StepErrorWithEffect
    <2>1. ~Ended /\ Ended' /\ UNCHANGED <<stage, deviceState>>
      BY <1>4 DEF DeleteMulticastGroup, StepError, StepErrorWithEffect, Exit, Ended
    <2> QED
      BY <2>1 DEF R!Next, R!End, Opened
  <1>5. CASE \/ CreateMulticastGroup \/ NextAttempt \/ SentRequests \/ Timeout
             \/ EnqueueFragments
             \/ \E d \in Devices : AddDevice(d)
             \/ \E d \in Devices, s \in Stages : SendRequest(d, s)
             \/ \E h \in Handlers : ReceiveDone(h)
    <2>1. ~Ended /\ ~Ended' /\ UNCHANGED <<stage, deviceState>>
      BY <1>5 DEF CreateMulticastGroup, NextAttempt, SentRequests, Timeout,
                  EnqueueFragments, AddDevice, SendRequest, ReceiveDone, Ended
    <2> QED
      BY <2>1 DEF Opened, Ended
  <1>6. ASSUME NEW d \in Devices,
               \/ McGroupSetupReq(d) \/ FragSessionSetupReq(d)
               \/ McClassBSessionReq(d) \/ McClassCSessionReq(d)
               \/ FragSessionStatusReq(d)
        PROVE  \E s \in Stages : SendRequest(d, s)
    BY <1>6 DEF McGroupSetupReq, FragSessionSetupReq, McClassBSessionReq,
                McClassCSessionReq, FragSessionStatusReq, Stages
  <1> QED
    BY <1>2, <1>3, <1>4, <1>5, <1>6 DEF RunStep

\* A step of a handler confirms a device or is invisible.
LEMMA HandlerStepRefines ==
  ASSUME IInv, NEW h \in Handlers, HandlerStep(h)
  PROVE  [R!Next]_(R!vars)
  <1> USE DEF R!vars
  <1>1. CASE SetDeviceState(h)
    <2>1. UNCHANGED <<Opened, Ended>>
      BY <1>1 DEF SetDeviceState, runVars, Opened, Ended
    <2>2. /\ handler[h].dev \in Devices
          /\ handler[h].stage \in Stages
          /\ handler[h].stage \in requested[handler[h].dev]
      BY <1>1 DEF SetDeviceState, IInv, TypeOK, KnowledgeChain, HandlersKnow, HandlerKnows
    <2>3. R!Confirm(handler[h].dev, handler[h].stage)
      BY <1>1, <2>1, <2>2, SameStages
        DEF SetDeviceState, R!Confirm, IInv, RequestsFollow, Participates
    <2> QED
      BY <2>2, <2>3, SameStages DEF R!Next
  <1>2. CASE ~SetDeviceState(h)
    <2>1. UNCHANGED <<pc, stage, deviceState>>
      BY <1>2 DEF HandlerStep, GetDeploymentDevice, UpdateDeploymentDevice, StorageError,
                  CheckDevice, PublishDone, runVars
    <2> QED
      BY <2>1 DEF Opened, Ended
  <1> QED
    BY <1>1, <1>2

\* Whatever the goroutines, the attempts, the errors and the late answers do,
\* what a deployment shows is a rollout.
THEOREM DeploymentRefinesRollout == Spec => R!SafetySpec
  <1>1. IInv /\ [Next]_vars => [R!Next]_(R!vars)
    <2> SUFFICES ASSUME IInv, [Next]_vars PROVE [R!Next]_(R!vars)
      OBVIOUS
    <2>1. CASE UNCHANGED vars
      BY <2>1 DEF vars, runVars, R!vars, Opened, Ended
    <2>2. ASSUME NEW h \in Handlers, NEW d \in Devices, NEW a \in Answers,
                 HandleUplinkEvent(h, d, a)
          PROVE  UNCHANGED R!vars
      <3>1. UNCHANGED <<pc, stage, deviceState>>
        BY <2>2 DEF HandleUplinkEvent, HandleAnswer, handleMcGroupSetupAns,
                    handleFragSessionSetupAns, handleMcClassBSessionAns,
                    handleMcClassCSessionAns, handleFragSessionStatusAns, runVars
      <3> QED
        BY <3>1 DEF R!vars, Opened, Ended
    <2> QED
      BY <2>1, <2>2, RunStepRefines, HandlerStepRefines DEF Next
  <1> QED
    BY <1>1, RolloutInit, Invariance, PTL DEF Spec, R!SafetySpec
=============================================================================
