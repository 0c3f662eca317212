----------------------------- MODULE FleetProofs -----------------------------
(***************************************************************************)
(* Proofs about Fleet, for any deployments, devices, ids and uplinks.  The *)
(* steps of the event handler keep its inductive invariant, which is       *)
(* proved in EventHandlerProofs; here the answers and flags are added.     *)
(***************************************************************************)
EXTENDS Fleet, EventHandlerProofs

\* A call has an uplink when it starts its loop, and keeps it.
UplinkOfCall ==
  \A r \in Requests :
    /\ serve[r] = "posted" => uplink[r] = NoUplink
    /\ serve[r] = "loop" => uplink[r] # NoUplink
    /\ \A id \in Deployments : goroutine[r][id] # NotStarted => uplink[r] # NoUplink

\* A device answers a deployment that it is part of.
AnswersOwn ==
  \A r \in Requests : uplink[r] # NoUplink => uplink[r].dev \in opts[uplink[r].from].Devices

FInv == /\ IInv
        /\ FleetTypeOK
        /\ IdsSeparate(opts)
        /\ UplinkOfCall
        /\ AnswersOwn
        /\ NoCrossTalk

LEMMA FleetInitEstablishes == FleetInit => FInv
  <1> SUFFICES ASSUME FleetInit PROVE FInv
    OBVIOUS
  <1>1. IInv
    BY InitEstablishes DEF FleetInit
  <1>2. FleetTypeOK
    BY <1>1 DEF FleetInit, FleetTypeOK, IInv
  <1>3. UplinkOfCall
    BY DEF FleetInit, Init, UplinkOfCall
  <1>4. IdsSeparate(opts) /\ AnswersOwn /\ NoCrossTalk
    BY DEF FleetInit, AnswersOwn, NoCrossTalk
  <1> QED
    BY <1>1, <1>2, <1>3, <1>4 DEF FInv

\* Without its answers, a step of the fleet is one of the event handler.
LEMMA StepOfHandler == [FleetNext]_allVars => [Next]_vars
  BY DEF FleetNext, allVars, RunStep, HandlerStep, ReceiveAnswer, HandleUplinkEvent, Next, Step

\* Steps that do not touch the answers, and start goroutines in a loop only.
LEMMA QuietStepPreserves ==
  ASSUME FInv, IInv', UNCHANGED fleetVars,
         \/ \E id \in Deployments : RegisterUplinkEventFunc(id) \/ UnregisterUplinkEventFunc(id)
         \/ \E r \in Requests : ReturnFromServeHTTP(r)
         \/ \E r \in Requests, id \in Deployments : StartGoroutine(r, id)
         \/ UNCHANGED vars
  PROVE  FInv'
  <1>1. FleetTypeOK' /\ IdsSeparate(opts)' /\ AnswersOwn' /\ NoCrossTalk'
    BY DEF FInv, IInv, fleetVars, FleetTypeOK, IdsSeparate, AnswersOwn, NoCrossTalk
  <1>2. UplinkOfCall'
    <2> SUFFICES ASSUME NEW q \in Requests
                 PROVE  /\ serve'[q] = "posted" => uplink[q] = NoUplink
                        /\ serve'[q] = "loop" => uplink[q] # NoUplink
                        /\ \A id \in Deployments : goroutine'[q][id] # NotStarted
                                                     => uplink[q] # NoUplink
      BY DEF UplinkOfCall, fleetVars
    <2>0. /\ serve[q] = "posted" => uplink[q] = NoUplink
          /\ serve[q] = "loop" => uplink[q] # NoUplink
          /\ \A id \in Deployments : goroutine[q][id] # NotStarted => uplink[q] # NoUplink
      BY DEF FInv, UplinkOfCall
    <2>1. CASE \E id \in Deployments :
                 RegisterUplinkEventFunc(id) \/ UnregisterUplinkEventFunc(id)
      BY <2>0, <2>1 DEF RegisterUplinkEventFunc, UnregisterUplinkEventFunc
    <2>2. ASSUME NEW r \in Requests, ReturnFromServeHTTP(r)
          PROVE  /\ serve'[q] = "posted" => serve[q] = "posted"
                 /\ serve'[q] = "loop" => serve[q] = "loop"
                 /\ goroutine' = goroutine
      BY <2>2 DEF ReturnFromServeHTTP, FInv, IInv, TypeOK
    <2>3. ASSUME NEW r \in Requests, NEW id \in Deployments, StartGoroutine(r, id)
          PROVE  /\ serve' = serve
                 /\ q # r => goroutine'[q] = goroutine[q]
                 /\ serve[r] = "loop"
      BY <2>3 DEF StartGoroutine, FInv, IInv, TypeOK
    <2>4. CASE UNCHANGED vars
      BY <2>0, <2>4 DEF vars
    <2> QED
      BY <2>0, <2>1, <2>2, <2>3, <2>4
  <1> QED
    BY <1>1, <1>2 DEF FInv

\* The uplink of a call is set once, before anything depends on it.
LEMMA AnswerPreserves ==
  ASSUME FInv, IInv', NEW r \in Requests, NEW e \in Exchanges, ReceiveAnswer(r, e)
  PROVE  FInv'
  <1>1. /\ serve[r] = "posted" /\ serve' = [serve EXCEPT ![r] = "loop"]
        /\ UNCHANGED <<goroutine, opts, flags>>
        /\ uplink' = [uplink EXCEPT ![r] = e]
        /\ e.dev \in opts[e.from].Devices
    BY DEF ReceiveAnswer, ServeHTTP
  <1>2. /\ uplink \in [Requests -> Exchanges \cup {NoUplink}]
        /\ serve \in [Requests -> {"posted", "loop", "returned"}]
        /\ flags \in SUBSET Exchanges
    BY DEF FInv, FleetTypeOK, TypeOK
  <1>3. e # NoUplink
    BY FleetAssumption
  <1>4. FleetTypeOK' /\ IdsSeparate(opts)'
    BY <1>1, <1>2 DEF FInv, IInv, FleetTypeOK, IdsSeparate
  <1>5. UplinkOfCall'
    BY <1>1, <1>2, <1>3 DEF FInv, UplinkOfCall
  <1>6. AnswersOwn'
    BY <1>1, <1>2, <1>3 DEF FInv, AnswersOwn
  <1>7. NoCrossTalk'
    <2>1. uplink[r] = NoUplink
      BY <1>1 DEF FInv, UplinkOfCall
    <2> SUFFICES ASSUME NEW x \in flags PROVE \E q \in Requests : x = uplink'[q]
      BY <1>1 DEF NoCrossTalk
    <2>2. PICK q \in Requests : x = uplink[q]
      BY DEF FInv, NoCrossTalk
    <2>3. q # r
      BY <1>2, <2>1, <2>2, FleetAssumption
    <2> QED
      BY <1>1, <1>2, <2>2, <2>3
  <1> QED
    BY <1>4, <1>5, <1>6, <1>7 DEF FInv

\* A deployment that accepts an answer is the one it was given to: of two that
\* have the device, only one has the id.
LEMMA CallKeepsAnswers ==
  ASSUME FInv, IInv', NEW r \in Requests, NEW id \in Deployments, HandleUplinkEvent(r, id)
  PROVE  FInv'
  <1>1. /\ Call(r, id) /\ UNCHANGED <<opts, uplink, serve>>
        /\ goroutine[r][id] = Ready
    BY DEF HandleUplinkEvent, Call
  <1>2. uplink[r] \in Exchanges
    BY <1>1, MarksDiffer DEF FInv, UplinkOfCall, FleetTypeOK
  <1>3. f[r] \in Deployments
    BY <1>1, MarksDiffer DEF FInv, IInv, AssignedBeforeStart
  <1>4. flags' \subseteq flags \cup {uplink[r]}
    <2>1. CASE f[r] # NoFunc /\ Accepts(f[r], uplink[r])
      <3>1. /\ uplink[r].dev \in opts[f[r]].Devices
            /\ opts[uplink[r].from][uplink[r].kind] = opts[f[r]][uplink[r].kind]
        BY <2>1 DEF Accepts
      <3>2. uplink[r].dev \in opts[uplink[r].from].Devices
        BY <1>2, FleetAssumption DEF FInv, AnswersOwn
      <3>3. uplink[r].from \in Deployments /\ uplink[r].kind \in Kinds
        BY <1>2 DEF Exchanges
      <3>4. IdsSeparate(opts)
        BY DEF FInv
      <3>5. uplink[r].from = f[r]
        <4>1. opts[uplink[r].from].Devices \cap opts[f[r]].Devices # {}
          BY <3>1, <3>2
        <4> QED
          BY <1>3, <3>1, <3>3, <3>4, <4>1 DEF IdsSeparate
      <3>6. [uplink[r] EXCEPT !.from = f[r]] = uplink[r]
        BY <1>2, <3>5 DEF Exchanges
      <3> QED
        BY <2>1, <3>6 DEF HandleUplinkEvent
    <2>2. CASE ~(f[r] # NoFunc /\ Accepts(f[r], uplink[r]))
      BY <2>2 DEF HandleUplinkEvent
    <2> QED
      BY <2>1, <2>2
  <1>5. FleetTypeOK' /\ IdsSeparate(opts)'
    BY <1>1, <1>2, <1>4 DEF FInv, IInv, FleetTypeOK, IdsSeparate
  <1>6. UplinkOfCall'
    <2>1. goroutine' = [goroutine EXCEPT ![r][id] = f[r]]
      BY <1>1 DEF Call
    <2>2. goroutine \in [Requests -> [Deployments -> Deployments \cup {NotStarted, Ready}]]
      BY DEF FInv, IInv, TypeOK
    <2>3. uplink[r] # NoUplink
      BY <1>2, FleetAssumption
    <2>4. \A q \in Requests : q # r => goroutine'[q] = goroutine[q]
      BY <2>1, <2>2
    <2> QED
      BY <1>1, <2>3, <2>4 DEF FInv, UplinkOfCall
  <1>7. AnswersOwn' /\ NoCrossTalk'
    BY <1>1, <1>4 DEF FInv, AnswersOwn, NoCrossTalk
  <1> QED
    BY <1>5, <1>6, <1>7 DEF FInv

LEMMA FleetNextPreserves == FInv /\ [FleetNext]_allVars => FInv'
  <1> SUFFICES ASSUME FInv, [FleetNext]_allVars PROVE FInv'
    OBVIOUS
  <1>0. IInv'
    BY StepOfHandler, NextPreserves DEF FInv
  <1>1. ASSUME NEW id \in Deployments, RunStep(id) PROVE FInv'
    BY <1>0, <1>1, QuietStepPreserves DEF RunStep
  <1>2. ASSUME NEW r \in Requests, HandlerStep(r) PROVE FInv'
    <2>1. ASSUME NEW e \in Exchanges, ReceiveAnswer(r, e) PROVE FInv'
      BY <1>0, <2>1, AnswerPreserves
    <2>2. CASE ReturnFromServeHTTP(r) /\ UNCHANGED fleetVars
      BY <1>0, <2>2, QuietStepPreserves
    <2>3. ASSUME NEW id \in Deployments, StartGoroutine(r, id), UNCHANGED fleetVars PROVE FInv'
      BY <1>0, <2>3, QuietStepPreserves
    <2>4. ASSUME NEW id \in Deployments, HandleUplinkEvent(r, id) PROVE FInv'
      BY <1>0, <2>4, CallKeepsAnswers
    <2> QED
      BY <1>2, <2>1, <2>2, <2>3, <2>4 DEF HandlerStep
  <1>3. CASE UNCHANGED allVars
    BY <1>0, <1>3, QuietStepPreserves DEF allVars
  <1> QED
    BY <1>1, <1>2, <1>3 DEF FleetNext

THEOREM FleetInvariance == FleetSpec => []FInv
  BY FleetInitEstablishes, FleetNextPreserves, PTL DEF FleetSpec

\* The types of Fleet and of the event handler in it.
THEOREM FleetTypeCorrect == FleetSpec => []FleetTypeOK
  <1>1. FInv => FleetTypeOK
    BY DEF FInv
  <1> QED
    BY <1>1, FleetInvariance, PTL

\* However many deployments run at once, none takes the answer to another one
\* for an answer to itself, as long as those with a common device differ in ids.
THEOREM DeploymentsDoNotInterfere == FleetSpec => []NoCrossTalk
  <1>1. FInv => NoCrossTalk
    BY DEF FInv
  <1> QED
    BY <1>1, FleetInvariance, PTL
=============================================================================
