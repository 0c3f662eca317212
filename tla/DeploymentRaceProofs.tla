------------------------- MODULE DeploymentRaceProofs -------------------------
(***************************************************************************)
(* The two races of Deployment between the goroutines of its uplinks, for   *)
(* any number of devices, goroutines and attempts: what causes a stored     *)
(* result to be lost, and what makes a done message a false one, and that   *)
(* nothing else does.                                                       *)
(***************************************************************************)
EXTENDS DeploymentProofs

\* A row is copied, changed and written whole: no two goroutines are at it for
\* one device (fuota.go:415-427 and its siblings).
OneUplinkPerDevice ==
  \A g, h \in Handlers :
    g # h /\ handler[g].pc # "idle" /\ handler[h].pc # "idle"
      => handler[g].dev # handler[h].dev

\* The copy that will be written has what the row has.
RowCopiesFresh ==
  \A h \in Handlers :
    handler[h].pc = "update" => deploymentDevice[handler[h].dev] \subseteq handler[h].row

LEMMA InitFresh == Init => RowCopiesFresh
  BY DEF Init, RowCopiesFresh, IdleHandler

\* Run writes no device row, sets no flag, and ends goroutines at most.
LEMMA RunStepFrame ==
  ASSUME RunStep
  PROVE  /\ UNCHANGED <<deploymentDevice, deviceState>>
         /\ \/ handler' = handler
            \/ \E h \in Handlers : handler' = [handler EXCEPT ![h] = IdleHandler]
  <1>1. ASSUME NEW d \in Devices, NEW s \in Stages, SendRequest(d, s)
        PROVE  UNCHANGED <<deploymentDevice, deviceState, handler>>
    BY <1>1 DEF SendRequest
  <1>2. ASSUME NEW d \in Devices,
               \/ McGroupSetupReq(d) \/ FragSessionSetupReq(d)
               \/ McClassBSessionReq(d) \/ McClassCSessionReq(d)
               \/ FragSessionStatusReq(d)
        PROVE  UNCHANGED <<deploymentDevice, deviceState, handler>>
    BY <1>1, <1>2 DEF McGroupSetupReq, FragSessionSetupReq, McClassBSessionReq,
                      McClassCSessionReq, FragSessionStatusReq, Stages
  <1>3. CASE \E h \in Handlers : ReceiveDone(h)
    BY <1>3 DEF ReceiveDone
  <1> QED
    BY <1>2, <1>3 DEF RunStep, CreateMulticastGroup, AddDevice, AddedDevices, NextAttempt,
       SentRequests, Timeout, Record, EnqueueFragments, DeleteMulticastGroup, StepError,
       StepErrorWithEffect

\* An uplink writes no row and sets no flag; its goroutine is at its beginning.
LEMMA UplinkFrame ==
  ASSUME IInv, NEW h \in Handlers, NEW d \in Devices, NEW a \in Answers,
         HandleUplinkEvent(h, d, a)
  PROVE  /\ UNCHANGED <<deploymentDevice, deviceState>>
         /\ \A g \in Handlers : handler'[g] = handler[g] \/ handler'[g].pc = "set"
  <1>1. PICK s \in Stages : HandleAnswer(h, d, s, a)
    BY DEF HandleUplinkEvent, handleMcGroupSetupAns, handleFragSessionSetupAns,
           handleMcClassBSessionAns, handleMcClassCSessionAns,
           handleFragSessionStatusAns, Stages
  <1>2. handler \in [Handlers -> HandlerState]
    BY DEF IInv, TypeOK
  <1> QED
    BY <1>1, <1>2 DEF HandleAnswer, HandlerState

-----------------------------------------------------------------------------
(* The rows.                                                               *)

LEMMA RowStep ==
  ASSUME IInv, OneUplinkPerDevice, RowCopiesFresh, [Next]_vars
  PROVE  /\ RowCopiesFresh'
         /\ \A d \in Devices : deploymentDevice[d] \subseteq deploymentDevice'[d]
  <1> DEFINE Kept == \A d \in Devices : deploymentDevice[d] \subseteq deploymentDevice'[d]
  <1>1. handler \in [Handlers -> HandlerState] /\ deploymentDevice \in [Devices -> SUBSET Stages]
    BY DEF IInv, TypeOK
  <1>2. CASE UNCHANGED vars
    BY <1>2 DEF vars, RowCopiesFresh
  <1>3. CASE RunStep
    BY <1>1, <1>3, RunStepFrame DEF RowCopiesFresh, IdleHandler
  <1>4. ASSUME NEW h \in Handlers, NEW d \in Devices, NEW a \in Answers,
               HandleUplinkEvent(h, d, a)
        PROVE  RowCopiesFresh' /\ Kept
    BY <1>4, UplinkFrame DEF RowCopiesFresh
  <1>5. ASSUME NEW h \in Handlers, HandlerStep(h)
        PROVE  RowCopiesFresh' /\ Kept
    <2>1. \A g \in Handlers : g # h => handler'[g] = handler[g]
      BY <1>1, <1>5 DEF HandlerStep, SetDeviceState, GetDeploymentDevice,
         UpdateDeploymentDevice, StorageError, CheckDevice, PublishDone, Return
    <2>2. CASE GetDeploymentDevice(h)
      <3>1. UNCHANGED deploymentDevice /\ handler'[h].dev = handler[h].dev
            /\ handler'[h].row = deploymentDevice[handler[h].dev] \cup {handler[h].stage}
        BY <1>1, <2>2 DEF GetDeploymentDevice, RowWith, HandlerState
      <3> QED
        BY <2>1, <3>1 DEF RowCopiesFresh
    <2>3. CASE /\ UpdateDeploymentDevice(h) \/ StorageError(h)
               /\ handler[h].pc = "update" /\ StoreRow(h)
      <3>1. handler[h].dev \in Devices
        BY <2>3 DEF IInv, HandlersKnow, HandlerKnows
      <3>2. /\ deploymentDevice'[handler[h].dev] = handler[h].row
            /\ \A d \in Devices : d # handler[h].dev => deploymentDevice'[d] = deploymentDevice[d]
        BY <1>1, <2>3, <3>1 DEF StoreRow
      <3>3. handler'[h].pc # "update"
        BY <1>1, <2>3 DEF UpdateDeploymentDevice, StorageError, Return, IdleHandler, HandlerState
      <3>4. Kept
        BY <2>3, <3>2 DEF RowCopiesFresh
      <3>5. ASSUME NEW g \in Handlers, handler'[g].pc = "update"
            PROVE  deploymentDevice'[handler'[g].dev] \subseteq handler'[g].row
        <4>1. g # h /\ handler'[g] = handler[g] /\ handler[g].pc = "update"
          BY <2>1, <3>3, <3>5
        <4>2. handler[g].dev \in Devices
          BY <4>1 DEF IInv, HandlersKnow, HandlerKnows
        <4>3. handler[g].dev # handler[h].dev
          BY <2>3, <4>1 DEF OneUplinkPerDevice
        <4> QED
          BY <3>2, <4>1, <4>2, <4>3 DEF RowCopiesFresh
      <3> QED
        BY <3>4, <3>5 DEF RowCopiesFresh
    <2>4. CASE \/ SetDeviceState(h) \/ PublishDone(h)
               \/ \E d \in Devices : CheckDevice(h, d)
               \/ StorageError(h) /\ UNCHANGED deploymentDevice
      <3>1. UNCHANGED deploymentDevice /\ handler'[h].pc # "update"
        BY <1>1, <2>4 DEF SetDeviceState, PublishDone, CheckDevice, StorageError, Return,
           IdleHandler, HandlerState
      <3> QED
        BY <2>1, <3>1 DEF RowCopiesFresh
    <2> QED
      BY <1>5, <2>2, <2>3, <2>4 DEF HandlerStep, UpdateDeploymentDevice, StorageError
  <1> QED
    BY <1>2, <1>3, <1>4, <1>5 DEF Next

\* The copies that goroutines write back lose nothing, for any number of devices
\* answering at once, as long as no device has two answers handled at once: the
\* lost update that run lost_update finds has no other cause (fuota.go:415-427).
THEOREM RowsKept == Spec /\ []OneUplinkPerDevice => RowsKeepResults
  <1>1. IInv /\ OneUplinkPerDevice /\ RowCopiesFresh /\ [Next]_vars => RowCopiesFresh'
    BY RowStep
  <1>2. IInv /\ OneUplinkPerDevice /\ RowCopiesFresh /\ [Next]_vars
          => [\A d \in Devices : deploymentDevice[d] \subseteq deploymentDevice'[d]]_vars
    BY RowStep
  <1>3. Init => RowCopiesFresh
    BY InitFresh
  <1> QED
    BY <1>1, <1>2, <1>3, Invariance, PTL DEF Spec, RowsKeepResults

-----------------------------------------------------------------------------
(* The message that all devices are done.                                  *)

\* Run sets no flag and looks at no device for a goroutine.
LEMMA RunKeepsDone ==
  ASSUME RunStep, NEW g \in Handlers, DoneSeen(g), handler \in [Handlers -> HandlerState]
  PROVE  DoneSeen(g)'
  BY RunStepFrame DEF DoneSeen, IdleHandler, Pending, Participates

\* Nor does an uplink, until its goroutine sets a flag.
LEMMA UplinkKeepsDone ==
  ASSUME IInv, NEW h \in Handlers, NEW d \in Devices, NEW a \in Answers,
         HandleUplinkEvent(h, d, a), NEW g \in Handlers, DoneSeen(g)
  PROVE  DoneSeen(g)'
  BY UplinkFrame DEF DoneSeen, Pending, Participates

\* A flag makes a device take part in the stages that need it, and in no other.
LEMMA FlagKeepsDone ==
  ASSUME IInv, NEW h \in Handlers, SetDeviceState(h), NEW g \in Handlers, DoneSeen(g),
         handler[h].stage \notin Needs(handler[g].stage)
  PROVE  DoneSeen(g)'
  <1>1. handler \in [Handlers -> HandlerState] /\ deviceState \in [Devices -> SUBSET Stages]
    BY DEF IInv, TypeOK
  <1>2. /\ handler[h].pc = "set" /\ handler'[h].pc = "get"
        /\ deviceState' = [deviceState EXCEPT ![handler[h].dev] = @ \cup {handler[h].stage}]
        /\ handler[h].dev \in Devices
        /\ \A k \in Handlers : k # h => handler'[k] = handler[k]
    BY <1>1 DEF SetDeviceState, HandlerState, IInv, HandlersKnow, HandlerKnows
  <1> SUFFICES ASSUME handler'[g].pc \in {"check", "publish"},
                      NEW d \in Devices \ handler'[g].unseen,
                      handler'[g].stage \notin deviceState'[d],
                      Needs(handler'[g].stage) \subseteq deviceState'[d]
               PROVE  FALSE
    BY DEF DoneSeen, Pending, Participates
  <1>3. g # h /\ handler'[g] = handler[g]
    BY <1>2
  <1>4. /\ handler[g].stage \notin deviceState'[d]
        /\ Needs(handler[g].stage) \subseteq deviceState'[d]
    BY <1>3
  <1>5. /\ handler[g].stage \notin deviceState[d]
        /\ Needs(handler[g].stage) \subseteq deviceState[d]
    BY <1>1, <1>2, <1>4
  <1> QED
    BY <1>3, <1>5 DEF DoneSeen, Pending, Participates

\* The done loop passes a device only when it is done with the stage.
LEMMA LoopKeepsDone ==
  ASSUME IInv, NEW h \in Handlers, HandlerStep(h), ~SetDeviceState(h),
         NEW g \in Handlers, DoneSeen(g)
  PROVE  DoneSeen(g)'
  <1>1. handler \in [Handlers -> HandlerState]
    BY DEF IInv, TypeOK
  <1>2. UNCHANGED deviceState
    BY DEF HandlerStep, GetDeploymentDevice, UpdateDeploymentDevice, StorageError,
           CheckDevice, PublishDone
  <1>3. CASE g # h
    <2>1. handler'[g] = handler[g]
      BY <1>1, <1>3 DEF HandlerStep, GetDeploymentDevice, UpdateDeploymentDevice,
         StorageError, CheckDevice, PublishDone, Return
    <2> QED
      BY <1>2, <2>1 DEF DoneSeen, Pending, Participates
  <1>4. ASSUME g = h, handler'[h].pc \in {"check", "publish"},
               NEW d \in Devices \ handler'[h].unseen
        PROVE  ~Pending(d, handler'[h].stage)
    <2>1. CASE UpdateDeploymentDevice(h)
      <3>1. handler'[h].unseen = Devices
        BY <1>1, <2>1 DEF UpdateDeploymentDevice, HandlerState
      <3> QED
        BY <1>4, <3>1
    <2>2. CASE PublishDone(h)
      BY <1>1, <1>4, <2>2 DEF PublishDone, HandlerState, DoneSeen
    <2>3. ASSUME NEW e \in Devices, CheckDevice(h, e)
          PROVE  ~Pending(d, handler'[h].stage)
      <3>1. CASE Incomplete(h, e)
        BY <1>1, <1>4, <2>3, <3>1 DEF CheckDevice, Return, IdleHandler
      <3>2. CASE ~Incomplete(h, e)
        <4>1. /\ handler[h].pc = "check" /\ handler'[h].stage = handler[h].stage
              /\ handler'[h].unseen = handler[h].unseen \ {e}
          BY <1>1, <2>3, <3>2 DEF CheckDevice, HandlerState
        <4> QED
          BY <1>4, <3>2, <4>1 DEF Incomplete, DoneSeen
      <3> QED
        BY <3>1, <3>2
    <2>4. CASE GetDeploymentDevice(h) \/ StorageError(h)
      BY <1>1, <1>4, <2>4 DEF GetDeploymentDevice, StorageError, Return, IdleHandler,
         HandlerState
    <2> QED
      BY <2>1, <2>2, <2>3, <2>4 DEF HandlerStep
  <1> QED
    BY <1>2, <1>3, <1>4 DEF DoneSeen, Pending, Participates

\* A done message can become a false one, as run premature_success shows; the
\* answer of a device to an earlier stage is the only thing that makes it one, for
\* any interleaving of any number of goroutines with Run (fuota.go:490-502, 1027).
THEOREM OnlyLateAnswers == Spec => OnlyLateAnswersMislead
  <1> DEFINE Misled == \A h \in Handlers : DoneSeen(h) /\ ~DoneSeen(h)' =>
               \E g \in Handlers : SetDeviceState(g) /\ handler[g].stage \in Needs(handler[h].stage)
  <1>1. ASSUME IInv, [Next]_vars PROVE [Misled]_vars
    <2> SUFFICES ASSUME Next, NEW g \in Handlers, DoneSeen(g),
                        \A h \in Handlers :
                          SetDeviceState(h) => handler[h].stage \notin Needs(handler[g].stage)
                 PROVE  DoneSeen(g)'
      BY <1>1
    <2>1. CASE RunStep
      BY <1>1, <2>1, RunKeepsDone DEF IInv, TypeOK
    <2>2. ASSUME NEW h \in Handlers, NEW d \in Devices, NEW a \in Answers,
                 HandleUplinkEvent(h, d, a)
          PROVE  DoneSeen(g)'
      BY <1>1, <2>2, UplinkKeepsDone
    <2>3. ASSUME NEW h \in Handlers, HandlerStep(h) PROVE DoneSeen(g)'
      <3>1. CASE SetDeviceState(h)
        BY <1>1, <3>1, FlagKeepsDone
      <3>2. CASE ~SetDeviceState(h)
        BY <1>1, <2>3, <3>2, LoopKeepsDone
      <3> QED
        BY <3>1, <3>2
    <2> QED
      BY <2>1, <2>2, <2>3 DEF Next
  <1> QED
    BY <1>1, Invariance, PTL DEF Spec, OnlyLateAnswersMislead
=============================================================================
