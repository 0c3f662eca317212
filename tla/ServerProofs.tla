----------------------------- MODULE ServerProofs ----------------------------
(***************************************************************************)
(* Proofs about Server, for any firmwares, clients, devices and ids, and    *)
(* any number of starts.                                                    *)
(***************************************************************************)
EXTENDS Server, FiniteSetTheorems, TLAPS

\* The tasks follow the process.
TasksInv ==
  /\ process \in {"up", "down"}
  /\ taskDone \in 0..4
  /\ process = "down" => taskDone = 0 /\ exec = "ended"

InUse == InProgress # {} \/ (\E id \in Ids : run[id] # "none") \/ query # NoQuery

UseInv == InUse => taskDone = 4

Shape ==
  /\ call = [c \in Callers |-> [state |-> call[c].state, id |-> call[c].id]]
  /\ inserted \in [Callers -> SUBSET Devices]
  /\ run \in [Ids -> {"none", "started", "running", "ended"}]
  /\ query = [state |-> query.state, id |-> query.id, devices |-> query.devices]

\* What was committed is complete, and what follows a commit is about it.
StoredInv ==
  /\ deployment \X Devices \subseteq deploymentDevice
  /\ \A c \in Callers :
       call[c].state \in {"committed", "started", "replied"} => call[c].id \in deployment
  /\ \A id \in Ids : run[id] # "none" => id \in deployment
  /\ groups \subseteq deployment
  /\ query.state \in {"row", "reply"} => query.id \in deployment
  /\ query.state = "reply" => query.devices = Devices

IInv == TasksInv /\ UseInv /\ Shape /\ StoredInv

\* The API is the last of the tasks.
LEMMA TasksFacts ==
  /\ Len(Tasks) = 4
  /\ taskDone \in 0..4 /\ "api" \in SetUp => taskDone = 4
  /\ taskDone = 4 => {"storage", "as", "eventhandler"} \subseteq SetUp
  <1>1. Len(Tasks) = 4 /\ Tasks[1] = "storage" /\ Tasks[2] = "as"
                       /\ Tasks[3] = "eventhandler" /\ Tasks[4] = "api"
    BY DEF Tasks
  <1>2. ASSUME taskDone \in 0..4, "api" \in SetUp PROVE taskDone = 4
    <2>1. PICK i \in 1..taskDone : Tasks[i] = "api"
      BY <1>2 DEF SetUp
    <2> QED
      BY <1>1, <1>2, <2>1
  <1>3. ASSUME taskDone = 4 PROVE {"storage", "as", "eventhandler"} \subseteq SetUp
    <2>1. 1 \in 1..taskDone /\ 2 \in 1..taskDone /\ 3 \in 1..taskDone
      BY <1>3
    <2> QED
      BY <1>1, <2>1 DEF SetUp
  <1> QED
    BY <1>1, <1>2, <1>3

LEMMA ServerInitEstablishes == ServerInit => IInv
  <1> SUFFICES ASSUME ServerInit PROVE IInv
    OBVIOUS
  <1> USE DEF ServerInit, Init, NoCall, NoQuery
  <1>1. TasksInv
    BY DEF TasksInv
  <1>2. UseInv
    BY DEF UseInv, InUse, InProgress
  <1>3. Shape
    BY DEF Shape
  <1>4. StoredInv
    BY DEF StoredInv
  <1> QED
    BY <1>1, <1>2, <1>3, <1>4 DEF IInv

\* A crash leaves nothing in use and what is stored as it is.
LEMMA CrashPreserves ==
  ASSUME IInv, Crash
  PROVE  ~InUse' /\ Shape' /\ StoredInv'
  <1>1. /\ \A c \in Callers : \/ call'[c] = NoCall
                              \/ call'[c] = [state |-> "failed", id |-> NoId]
                              \/ call'[c] = call[c] /\ c \notin InProgress
        /\ call' = [c \in Callers |-> call'[c]]
    BY DEF Crash
  <1>2. Shape'
    <2>1. call' = [c \in Callers |-> [state |-> call'[c].state, id |-> call'[c].id]]
      BY <1>1 DEF IInv, Shape, NoCall
    <2> QED
      BY <2>1 DEF Crash, Shape, NoQuery
  <1>3. ~InUse'
    BY <1>1 DEF Crash, InUse, InProgress, NoCall
  <1>4. StoredInv'
    BY <1>1 DEF Crash, IInv, StoredInv, NoCall, NoQuery
  <1> QED
    BY <1>2, <1>3, <1>4

\* A step of the process alone.
LEMMA ProcessStepPreserves ==
  ASSUME IInv, Next, Otherwise
  PROVE  IInv'
  <1>1. TasksInv'
    <2>1. CASE Exit
      BY <2>1 DEF Exit, TasksInv
    <2>2. CASE Start
      BY <2>2 DEF Start, TasksInv
    <2>3. CASE Execute \/ Signal
      BY <2>3, <2>1, TasksFacts DEF IInv, TasksInv, Execute, Signal, InitConfigSetName,
           InitConfigRead, InitConfigReadFlag, InitConfigUnmarshal, DoTask,
           SetupStorage, SetupApplicationServerClient, SetupEventHandler, SetupAPI
    <2>4. CASE Main
      BY <2>4, <2>1 DEF IInv, TasksInv, Main, GetterSetName, GetterRead, GetString, GetC2Value,
           CreateDeploymentRequest, InitWSConnection, InitGrpcConnection, CheckForFirmwareUpdate
    <2> QED
      BY <2>1, <2>2, <2>3, <2>4 DEF Next, Scanln, Fatal
  <1>2. CASE process = "up" /\ process' = "down"
    <2>1. Crash
      BY <1>2 DEF Otherwise
    <2> QED
      BY <1>1, <2>1, CrashPreserves DEF IInv, UseInv
  <1>3. CASE ~(process = "up" /\ process' = "down")
    <2>1. UNCHANGED serverVars
      BY <1>3 DEF Otherwise
    <2>2. Shape' /\ StoredInv'
      BY <2>1 DEF serverVars, IInv, Shape, StoredInv
    <2>3. InUse' => InUse
      BY <2>1 DEF serverVars, InUse, InProgress
    <2>4. taskDone = 4 => taskDone' = 4
      <3>1. CASE Exit
        BY <3>1, <1>3 DEF Exit, IInv, TasksInv
      <3>2. CASE Start
        BY <3>2 DEF Start, IInv, TasksInv
      <3>3. CASE Execute \/ Signal
        BY <3>3, <3>1, TasksFacts DEF Execute, Signal, InitConfigSetName,
             InitConfigRead, InitConfigReadFlag, InitConfigUnmarshal, DoTask,
           SetupStorage, SetupApplicationServerClient, SetupEventHandler, SetupAPI
      <3>4. CASE Main
        BY <3>4, <3>1 DEF Main, GetterSetName, GetterRead, GetString, GetC2Value,
             CreateDeploymentRequest, InitWSConnection, InitGrpcConnection, CheckForFirmwareUpdate
      <3> QED
        BY <3>1, <3>2, <3>3, <3>4 DEF Next, Scanln, Fatal
    <2> QED
      BY <1>1, <2>2, <2>3, <2>4 DEF IInv, UseInv
  <1> QED
    BY <1>2, <1>3

LEMMA PanicPreserves ==
  ASSUME IInv, Panic
  PROVE  IInv'
  <1>1. TasksInv'
    BY DEF Panic, Exit, TasksInv
  <1> QED
    BY <1>1, CrashPreserves DEF Panic, IInv, UseInv

\* A step of the API, once it listens, keeps what it touches in use.
LEMMA InUseKept ==
  ASSUME IInv, UNCHANGED startupVars, InUse \/ "api" \in SetUp
  PROVE  TasksInv' /\ UseInv'
  BY TasksFacts DEF IInv, TasksInv, UseInv, startupVars

LEMMA SetStateFacts ==
  ASSUME Shape, NEW c \in Callers, NEW s, SetState(c, s)
  PROVE  call' = [call EXCEPT ![c] = [state |-> s, id |-> call[c].id]]
  <1>1. call[c] = [state |-> call[c].state, id |-> call[c].id]
    BY DEF Shape
  <1>2. [call[c] EXCEPT !.state = s] = [state |-> s, id |-> call[c].id]
    BY <1>1
  <1>3. call' = [call EXCEPT ![c] = [call[c] EXCEPT !.state = s]]
    BY DEF SetState
  <1> QED
    BY <1>2, <1>3

LEMMA CallStepPreserves ==
  ASSUME IInv, NEW c \in Callers, CallStep(c)
  PROVE  IInv'
  <1> USE DEF IInv
  <1>1. UNCHANGED startupVars /\ (InUse \/ "api" \in SetUp)
    BY DEF CallStep, CallCreateDeployment, Refuse, NewDeployment, CreateDeploymentDevice,
         Rollback, Commit, StartRun, Reply, InUse, InProgress, startupVars
  <1>2. ASSUME NEW dev \in Devices, CreateDeploymentDevice(c, dev)
        PROVE  Shape' /\ StoredInv'
    BY <1>2 DEF CreateDeploymentDevice, Shape, StoredInv
  <1>3. CASE Commit(c)
    <2>1. PICK done \in BOOLEAN, failed \in BOOLEAN :
            /\ done \/ failed
            /\ SetState(c, IF failed THEN AfterFailedCommit ELSE "committed")
            /\ deployment' = IF done THEN deployment \cup {call[c].id} ELSE deployment
            /\ deploymentDevice' = IF done THEN deploymentDevice \cup ({call[c].id} \X inserted[c])
                                           ELSE deploymentDevice
      BY <1>3 DEF Commit
    <2>2. /\ UNCHANGED <<run, groups, query>>
          /\ inserted' = [inserted EXCEPT ![c] = {}]
          /\ inserted[c] = Devices
      BY <1>3 DEF Commit
    <2>3. \A q \in Callers : /\ call'[q].id = call[q].id
                             /\ q # c => call'[q].state = call[q].state
      BY <2>1 DEF SetState, Shape
    <2>4. call'[c].state \in {"committed", "started", "replied"} => done
      BY <2>1 DEF SetState, Shape, AfterFailedCommit
    <2>5. Shape'
      BY <2>1, <2>2 DEF SetState, Shape
    <2>6. (deployment \X Devices)' \subseteq deploymentDevice' /\ deployment \subseteq deployment'
      BY <2>1, <2>2 DEF StoredInv
    <2>7. \A q \in Callers : call'[q].state \in {"committed", "started", "replied"}
                               => call'[q].id \in deployment'
      BY <2>1, <2>3, <2>4 DEF StoredInv
    <2> QED
      BY <1>1, <2>2, <2>5, <2>6, <2>7, InUseKept DEF StoredInv
  <1>4. CASE StartRun(c)
    <2>0. call' = [call EXCEPT ![c] = [state |-> "started", id |-> call[c].id]]
      BY <1>4, SetStateFacts DEF StartRun
    <2>1. Shape'
      BY <1>4, <2>0 DEF StartRun, Shape
    <2>2. call[c].id \in deployment /\ UNCHANGED <<deployment, deploymentDevice, groups, query>>
      BY <1>4 DEF StartRun, StoredInv
    <2>3. \A q \in Callers : /\ call'[q].id = call[q].id
                             /\ q # c => call'[q].state = call[q].state
      BY <1>4 DEF StartRun, SetState, Shape
    <2>4. \A id \in Ids : id = call[c].id \/ run'[id] = run[id]
      BY <1>4 DEF StartRun, Shape
    <2>5. StoredInv'
      BY <2>2, <2>3, <2>4 DEF StoredInv
    <2> QED
      BY <1>1, <2>1, <2>5, InUseKept
  <1>5. CASE CallCreateDeployment(c) \/ Refuse(c) \/ NewDeployment(c) \/ Rollback(c) \/ Reply(c)
    <2>1. /\ UNCHANGED <<deployment, deploymentDevice, run, groups, query>>
          /\ inserted' = inserted \/ inserted' = [inserted EXCEPT ![c] = {}]
          /\ \E s, i : /\ call' = [call EXCEPT ![c] = [state |-> s, id |-> i]]
                       /\ \/ s \in {"called", "transaction", "failed"}
                          \/ s = "replied" /\ i = call[c].id /\ call[c].state = "started"
      <3>1. CASE CallCreateDeployment(c) \/ Refuse(c) \/ Reply(c)
        <4>1. PICK s : /\ SetState(c, s)
                       /\ \/ s \in {"called", "failed"}
                          \/ s = "replied" /\ call[c].state = "started"
          BY <3>1 DEF CallCreateDeployment, Refuse, Reply
        <4>2. call' = [call EXCEPT ![c] = [state |-> s, id |-> call[c].id]]
          BY <4>1, SetStateFacts
        <4> QED
          BY <3>1, <4>1, <4>2 DEF CallCreateDeployment, Refuse, Reply
      <3>2. CASE NewDeployment(c) \/ Rollback(c)
        BY <3>2 DEF NewDeployment, Rollback
      <3> QED
        BY <1>5, <3>1, <3>2
    <2>2. PICK s, i : /\ call' = [call EXCEPT ![c] = [state |-> s, id |-> i]]
                      /\ \/ s \in {"called", "transaction", "failed"}
                         \/ s = "replied" /\ i = call[c].id /\ call[c].state = "started"
      BY <2>1
    <2>3. Shape'
      BY <2>1, <2>2 DEF Shape
    <2>4. /\ \A q \in Callers \ {c} : call'[q] = call[q]
          /\ call'[c].state = s /\ call'[c].id = i
      BY <2>2 DEF Shape
    <2>5. StoredInv'
      BY <2>1, <2>2, <2>4 DEF StoredInv
    <2> QED
      BY <1>1, <2>3, <2>5, InUseKept
  <1> QED
    BY <1>1, <1>2, <1>3, <1>4, <1>5, InUseKept DEF CallStep

LEMMA RunStepPreserves ==
  ASSUME IInv, NEW id \in Ids, RunStep(id)
  PROVE  IInv'
  <1> USE DEF IInv
  <1>1. UNCHANGED startupVars /\ InUse /\ id \in deployment
    BY DEF RunStep, BeginRun, CreateMulticastGroup, RunReturns, InUse, StoredInv
  <1>2. Shape' /\ StoredInv'
    BY <1>1 DEF RunStep, BeginRun, CreateMulticastGroup, RunReturns, Shape, StoredInv
  <1> QED
    BY <1>1, <1>2, InUseKept

LEMMA QueryStepPreserves ==
  ASSUME IInv, QueryStep
  PROVE  IInv'
  <1> USE DEF IInv
  <1>1. UNCHANGED startupVars /\ (InUse \/ "api" \in SetUp)
    <2>1. query = NoQuery => query.state = "idle"
      BY DEF NoQuery
    <2> QED
      BY <2>1 DEF QueryStep, GetDeployment, GetDeploymentDevices, StatusReplied, InUse
  <1>2. Shape' /\ StoredInv'
    <2>1. ASSUME NEW id \in Ids, GetDeployment(id) PROVE Shape' /\ StoredInv'
      BY <2>1 DEF GetDeployment, NoQuery, Shape, StoredInv, DeploymentRows, Visible
    <2>2. CASE GetDeploymentDevices
      BY <2>2 DEF GetDeploymentDevices, Shape, StoredInv, DeviceRows, Visible
    <2>3. CASE StatusReplied
      BY <2>3 DEF StatusReplied, NoQuery, Shape, StoredInv
    <2> QED
      BY <2>1, <2>2, <2>3 DEF QueryStep
  <1> QED
    BY <1>1, <1>2, InUseKept

THEOREM ServerInvariance == ServerSpec => []IInv
  <1>1. IInv /\ [ServerNext]_allVars => IInv'
    <2> SUFFICES ASSUME IInv, [ServerNext]_allVars PROVE IInv'
      OBVIOUS
    <2>1. CASE UNCHANGED allVars
      BY <2>1 DEF allVars, startupVars, serverVars, IInv, TasksInv, UseInv, InUse, InProgress,
           Shape, StoredInv
    <2> QED
      BY <2>1, ProcessStepPreserves, PanicPreserves, CallStepPreserves, RunStepPreserves,
         QueryStepPreserves DEF ServerNext
  <1> QED
    BY <1>1, ServerInitEstablishes, PTL DEF ServerSpec

\* Nothing is used before it is set up, for any callers and any crashes
\* (root_run.go:20-34).
THEOREM NothingIsUsedEarly == ServerSpec => []SetUpBeforeUse
  <1>1. IInv => SetUpBeforeUse
    BY TasksFacts DEF IInv, UseInv, InUse, SetUpBeforeUse
  <1> QED
    BY <1>1, ServerInvariance, PTL

\* The database holds every deployment that a caller or the network server knows,
\* for any callers and any crashes (fuota.go:231-256, storage.go:139-159).
THEOREM DeploymentsAreStored == ServerSpec => []EverythingKnownIsStored
  <1>1. IInv => EverythingKnownIsStored
    BY DEF IInv, StoredInv, EverythingKnownIsStored
  <1> QED
    BY <1>1, ServerInvariance, PTL

\* A status reply is never about a part of a deployment's devices
\* (fuota_server.go:103-155).
THEOREM StatusIsComplete == ServerSpec => []StatusListsAllDevices
  <1>1. IInv => StatusListsAllDevices
    BY DEF IInv, StoredInv, StatusListsAllDevices
  <1> QED
    BY <1>1, ServerInvariance, PTL

-----------------------------------------------------------------------------
(* The types of the module.  That NewV4 is an id rests on a count: an id is  *)
(* used by at most one call, a client calls once, and C2's firmwares once in *)
(* each life of the process.                                                 *)

\* The calls that may still ask for an id, in this life of the process.
Remaining ==
  {c \in Callers : call[c].state \in {"idle", "called"} /\ (c \in Firmwares => process = "up")}

UsedIds == ({call[c].id : c \in Callers} \cup deployment) \ {NoId}

Budget ==
  Cardinality(UsedIds) + Cardinality(Remaining)
    <= starts * Cardinality(Firmwares) + Cardinality(Clients)

StartupTypes ==
  /\ starts \in 0..MaxStarts
  /\ listed \subseteq Firmwares
  /\ updating \subseteq Firmwares

CallTypes ==
  \A c \in Callers : /\ call[c].state \in CallStates /\ call[c].id \in Ids \cup {NoId}
                     /\ call[c].state = "transaction" => call[c].id \in Ids

TypeInv ==
  /\ StartupTypes
  /\ CallTypes
  /\ deployment \subseteq Ids
  /\ deploymentDevice \subseteq Ids \X Devices
  /\ query.state \in {"idle", "row", "notFound", "reply"}
  /\ query.id \in Ids \cup {NoId} /\ query.devices \subseteq Devices

CountInv == TypeInv /\ Budget

LEMMA TypeInvImplies == IInv /\ TypeInv => ServerTypeOK
  <1> SUFFICES ASSUME IInv, TypeInv PROVE ServerTypeOK
    OBVIOUS
  <1>1. call \in [Callers -> [state : CallStates, id : Ids \cup {NoId}]]
    <2> SUFFICES ASSUME NEW c \in Callers
                 PROVE  [state |-> call[c].state, id |-> call[c].id]
                          \in [state : CallStates, id : Ids \cup {NoId}]
      BY DEF IInv, Shape
    <2>1. CallTypes
      BY DEF TypeInv
    <2> QED
      BY <2>1 DEF CallTypes
  <1>2. query \in [state : {"idle", "row", "notFound", "reply"},
                   id : Ids \cup {NoId}, devices : SUBSET Devices]
    BY DEF IInv, Shape, TypeInv
  <1>3. groups \subseteq Ids
    BY DEF IInv, StoredInv, TypeInv
  <1>4. taskDone \in 0..Len(Tasks) /\ process \in {"up", "down"}
    BY TasksFacts DEF IInv, TasksInv
  <1> QED
    BY <1>1, <1>2, <1>3, <1>4 DEF ServerTypeOK, IInv, Shape, TypeInv, StartupTypes

LEMMA CountTypes ==
  ASSUME TypeInv
  PROVE  /\ IsFiniteSet(UsedIds) /\ IsFiniteSet(Remaining) /\ UsedIds \subseteq Ids
         /\ Cardinality(UsedIds) \in Nat /\ Cardinality(Remaining) \in Nat
         /\ Cardinality(Firmwares) \in Nat /\ Cardinality(Clients) \in Nat
         /\ Cardinality(Ids) \in Nat
         /\ starts \in Nat /\ starts * Cardinality(Firmwares) \in Nat
         /\ starts * Cardinality(Firmwares) <= MaxStarts * Cardinality(Firmwares)
         /\ MaxStarts * Cardinality(Firmwares) \in Nat
  <1>1. UsedIds \subseteq Ids /\ Remaining \subseteq Callers
    <2>1. CallTypes /\ deployment \subseteq Ids
      BY DEF TypeInv
    <2>2. UsedIds \subseteq Ids
      BY <2>1 DEF CallTypes, UsedIds
    <2> QED
      BY <2>2 DEF Remaining
  <1>2. IsFiniteSet(Callers) /\ IsFiniteSet(Ids) /\ IsFiniteSet(Firmwares) /\ IsFiniteSet(Clients)
    BY ServerAssumption, FS_Union DEF Callers
  <1>3. IsFiniteSet(UsedIds) /\ IsFiniteSet(Remaining)
    BY <1>1, <1>2, FS_Subset
  <1>4. /\ Cardinality(UsedIds) \in Nat /\ Cardinality(Remaining) \in Nat
        /\ Cardinality(Firmwares) \in Nat /\ Cardinality(Clients) \in Nat
        /\ Cardinality(Ids) \in Nat
    BY <1>2, <1>3, FS_CardinalityType
  <1>5. starts \in Nat /\ MaxStarts \in Nat /\ starts <= MaxStarts
    BY StartupAssumption DEF TypeInv, StartupTypes
  <1>6. \A n \in Nat : /\ starts * n \in Nat /\ MaxStarts * n \in Nat
                       /\ starts * n <= MaxStarts * n
    <2> TAKE n \in Nat
    <2>1. PICK d \in Nat : MaxStarts = starts + d
      <3>1. MaxStarts - starts \in Nat /\ MaxStarts = starts + (MaxStarts - starts)
        BY <1>5
      <3> QED
        BY <3>1
    <2>2. (starts + d) * n = starts * n + d * n
      BY <1>5
    <2>3. starts * n \in Nat /\ d * n \in Nat
      BY <1>5
    <2> QED
      BY <2>1, <2>2, <2>3
  <1> QED
    BY <1>1, <1>3, <1>4, <1>5, <1>6

\* An id is left for every call that asks for one.
LEMMA NewV4IsAnId ==
  ASSUME IInv, CountInv, NEW c \in Callers, call[c].state = "called"
  PROVE  /\ NewV4 \in Ids /\ c \in Remaining
         /\ NewV4 \notin {call[q].id : q \in Callers} \cup deployment
  <1> USE DEF CountInv
  <1>1. process = "up"
    <2>1. InUse
      BY DEF InUse, InProgress
    <2> QED
      BY <2>1 DEF IInv, UseInv, TasksInv
  <1>2. c \in Remaining
    BY <1>1 DEF Remaining
  <1>3. Cardinality(Remaining) # 0
    BY <1>2, CountTypes, FS_EmptySet
  <1>4. Cardinality(UsedIds) < Cardinality(Ids)
    <2>1. Cardinality(Ids) >= MaxStarts * Cardinality(Firmwares) + Cardinality(Clients)
      BY ServerAssumption
    <2>2. Cardinality(UsedIds) + Cardinality(Remaining)
            <= starts * Cardinality(Firmwares) + Cardinality(Clients)
      BY DEF Budget
    <2> QED
      BY <1>3, <2>1, <2>2, CountTypes
  <1>5. UsedIds # Ids
    BY <1>4, CountTypes
  <1>6. \E id \in Ids : id \notin {call[q].id : q \in Callers} \cup deployment
    BY <1>5, CountTypes, ServerAssumption DEF UsedIds
  <1> QED
    BY <1>2, <1>6 DEF NewV4

\* What uses no id and gives up no call keeps the count.
LEMMA BudgetKept ==
  ASSUME CountInv, TypeInv', UsedIds' \subseteq UsedIds, Remaining' \subseteq Remaining,
         starts' = starts
  PROVE  Budget'
  <1> USE DEF CountInv
  <1>1. /\ IsFiniteSet(UsedIds) /\ IsFiniteSet(Remaining)
        /\ Cardinality(UsedIds) \in Nat /\ Cardinality(Remaining) \in Nat
        /\ starts * Cardinality(Firmwares) \in Nat /\ Cardinality(Clients) \in Nat
    BY CountTypes
  <1>2. /\ Cardinality(UsedIds') <= Cardinality(UsedIds) /\ IsFiniteSet(UsedIds')
        /\ Cardinality(Remaining') <= Cardinality(Remaining) /\ IsFiniteSet(Remaining')
    BY <1>1, FS_Subset
  <1>3. Cardinality(UsedIds') \in Nat /\ Cardinality(Remaining') \in Nat
    BY <1>2, FS_CardinalityType
  <1>4. Cardinality(UsedIds') + Cardinality(Remaining')
          <= starts * Cardinality(Firmwares) + Cardinality(Clients)
    BY <1>1, <1>2, <1>3 DEF Budget
  <1> QED
    BY <1>4 DEF Budget

LEMMA InitCounts == ServerInit => CountInv
  <1> SUFFICES ASSUME ServerInit PROVE CountInv
    OBVIOUS
  <1>1. TypeInv
    BY StartupAssumption
    DEF ServerInit, Init, TypeInv, CallTypes, StartupTypes, NoCall, NoQuery, CallStates
  <1>2. UsedIds = {} /\ Remaining = Clients
    BY ServerAssumption DEF ServerInit, Init, UsedIds, Remaining, NoCall, Callers
  <1>3. Cardinality(UsedIds) = 0
    BY <1>2, FS_EmptySet
  <1>4. starts = 0 /\ 0 * Cardinality(Firmwares) = 0
    BY <1>1, CountTypes DEF ServerInit, Init
  <1>5. Budget
    BY <1>1, <1>2, <1>3, <1>4, CountTypes DEF Budget
  <1> QED
    BY <1>1, <1>5 DEF CountInv

\* What is lost in a crash frees ids and calls.
LEMMA CrashCounts ==
  ASSUME IInv, CountInv, Crash, process' = "down", starts' = starts, StartupTypes'
  PROVE  CountInv'
  <1>1. TypeInv'
    BY DEF Crash, CountInv, TypeInv, CallTypes, NoCall, NoQuery, CallStates
  <1>2. UsedIds' \subseteq UsedIds
    BY DEF Crash, UsedIds, NoCall
  <1>3. Remaining' \subseteq Remaining
    BY DEF Crash, Remaining, InProgress, Callers
  <1> QED
    BY <1>1, <1>2, <1>3, BudgetKept DEF CountInv

\* The process starts at most MaxStarts times, and updates what C2 lists.
LEMMA ProcessStepTypes ==
  ASSUME StartupTypes, Next
  PROVE  /\ StartupTypes'
         /\ \/ starts' = starts + 1 /\ process = "down" /\ process' = "up"
            \/ starts' = starts /\ process' \in {process, "down"}
  <1> USE DEF StartupTypes
  <1>1. CASE Exit
    BY <1>1 DEF Exit
  <1>2. CASE Start
    BY <1>2, StartupAssumption DEF Start
  <1>3. CASE Execute \/ Signal
    BY <1>3, <1>1 DEF Execute, Signal, InitConfigSetName,
           InitConfigRead, InitConfigReadFlag, InitConfigUnmarshal, DoTask,
           SetupStorage, SetupApplicationServerClient, SetupEventHandler, SetupAPI
  <1>4. CASE Main
    BY <1>4, <1>1 DEF Main, GetterSetName, GetterRead, GetString, GetC2Value,
           CreateDeploymentRequest, InitWSConnection, InitGrpcConnection, CheckForFirmwareUpdate
  <1> QED
    BY <1>1, <1>2, <1>3, <1>4 DEF Next, Scanln, Fatal

LEMMA ProcessStepCounts ==
  ASSUME IInv, CountInv, Next, Otherwise
  PROVE  CountInv'
  <1> USE DEF CountInv
  <1>1. /\ StartupTypes'
        /\ \/ starts' = starts + 1 /\ process = "down" /\ process' = "up"
           \/ starts' = starts /\ process' \in {process, "down"}
    BY ProcessStepTypes DEF TypeInv
  <1>2. CASE process = "up" /\ process' = "down"
    BY <1>1, <1>2, CrashCounts DEF Otherwise
  <1>3. CASE ~(process = "up" /\ process' = "down")
    <2>1. UNCHANGED serverVars
      BY <1>3 DEF Otherwise
    <2>2. TypeInv'
      BY <1>1, <2>1 DEF TypeInv, CallTypes, serverVars
    <2>3. UsedIds' = UsedIds
      BY <2>1 DEF UsedIds, serverVars
    <2>4. CASE starts' = starts /\ process' = process
      <3>1. Remaining' = Remaining
        BY <2>1, <2>4 DEF Remaining, serverVars
      <3> QED
        BY <2>2, <2>3, <2>4, <3>1, BudgetKept
    <2>5. CASE starts' = starts + 1
      <3>1. Remaining' \subseteq Remaining \cup Firmwares
        BY <2>1 DEF Remaining, serverVars
      <3>2. /\ IsFiniteSet(Remaining) /\ IsFiniteSet(Firmwares)
            /\ Cardinality(UsedIds) \in Nat /\ Cardinality(Remaining) \in Nat
            /\ Cardinality(Firmwares) \in Nat /\ Cardinality(Clients) \in Nat
            /\ starts \in Nat /\ starts * Cardinality(Firmwares) \in Nat
        BY CountTypes, ServerAssumption
      <3>3. /\ IsFiniteSet(Remaining \cup Firmwares)
            /\ Cardinality(Remaining \cup Firmwares)
                 <= Cardinality(Remaining) + Cardinality(Firmwares)
        <4>1. /\ IsFiniteSet(Remaining \cup Firmwares)
              /\ IsFiniteSet(Remaining \cap Firmwares)
              /\ Cardinality(Remaining \cup Firmwares)
                   = Cardinality(Remaining) + Cardinality(Firmwares)
                       - Cardinality(Remaining \cap Firmwares)
          BY <3>2, FS_Union, FS_Intersection
        <4>2. Cardinality(Remaining \cap Firmwares) \in Nat
          BY <4>1, FS_CardinalityType
        <4> QED
          BY <3>2, <4>1, <4>2
      <3>4. /\ Cardinality(Remaining') <= Cardinality(Remaining \cup Firmwares)
            /\ Cardinality(Remaining') \in Nat
            /\ Cardinality(Remaining \cup Firmwares) \in Nat
        BY <3>1, <3>3, FS_Subset, FS_CardinalityType
      <3>5. (starts + 1) * Cardinality(Firmwares)
              = starts * Cardinality(Firmwares) + Cardinality(Firmwares)
        BY <3>2
      <3>6. Cardinality(UsedIds) + Cardinality(Remaining')
              <= (starts + 1) * Cardinality(Firmwares) + Cardinality(Clients)
        BY <3>2, <3>3, <3>4, <3>5 DEF Budget
      <3> QED
        BY <2>2, <2>3, <2>5, <3>6 DEF Budget
    <2> QED
      BY <1>1, <1>3, <2>4, <2>5 DEF IInv, TasksInv
  <1> QED
    BY <1>2, <1>3

\* A call keeps its id, gives it up, or gets one that nobody has.
LEMMA CallStepCounts ==
  ASSUME IInv, CountInv, NEW c \in Callers, CallStep(c)
  PROVE  CountInv'
  <1> USE DEF CountInv
  <1>1. UNCHANGED <<startupVars, query>> /\ Shape
    BY DEF IInv, CallStep, CallCreateDeployment, Refuse, NewDeployment,
         CreateDeploymentDevice, Rollback, Commit, StartRun, Reply
  <1>2. StartupTypes' /\ starts' = starts /\ process' = process
    BY <1>1 DEF TypeInv, StartupTypes, startupVars
  <1>3. CallTypes
    BY DEF TypeInv
  <1>4. CASE NewDeployment(c)
    <2>1. /\ call' = [call EXCEPT ![c] = [state |-> "transaction", id |-> NewV4]]
          /\ UNCHANGED <<deployment, deploymentDevice>>
          /\ NewV4 \in Ids /\ c \in Remaining
      BY <1>4, NewV4IsAnId DEF NewDeployment
    <2>2. /\ \A q \in Callers \ {c} : call'[q] = call[q]
          /\ call'[c].state = "transaction" /\ call'[c].id = NewV4
      BY <1>1, <2>1 DEF Shape
    <2>3. TypeInv'
      BY <1>1, <1>2, <1>3, <2>1, <2>2 DEF TypeInv, CallTypes, CallStates
    <2>4. UsedIds' \subseteq UsedIds \cup {NewV4}
      BY <2>1, <2>2 DEF UsedIds
    <2>5. Remaining' \subseteq Remaining \ {c}
      BY <1>2, <2>2 DEF Remaining
    <2>6. /\ IsFiniteSet(UsedIds) /\ IsFiniteSet(Remaining)
          /\ Cardinality(UsedIds) \in Nat /\ Cardinality(Remaining) \in Nat
          /\ Cardinality(Clients) \in Nat /\ starts * Cardinality(Firmwares) \in Nat
      BY CountTypes
    <2>7. /\ Cardinality(UsedIds') <= Cardinality(UsedIds) + 1
          /\ Cardinality(UsedIds') \in Nat
      <3>1. /\ IsFiniteSet(UsedIds \cup {NewV4})
            /\ Cardinality(UsedIds \cup {NewV4})
                 = IF NewV4 \in UsedIds THEN Cardinality(UsedIds) ELSE Cardinality(UsedIds) + 1
        BY <2>6, FS_AddElement
      <3>2. /\ Cardinality(UsedIds') <= Cardinality(UsedIds \cup {NewV4})
            /\ IsFiniteSet(UsedIds')
        BY <2>4, <3>1, FS_Subset
      <3>3. Cardinality(UsedIds') \in Nat
        BY <3>2, FS_CardinalityType
      <3> QED
        BY <2>6, <3>1, <3>2, <3>3
    <2>8. /\ Cardinality(Remaining') <= Cardinality(Remaining) - 1
          /\ Cardinality(Remaining') \in Nat
      <3>1. /\ IsFiniteSet(Remaining \ {c})
            /\ Cardinality(Remaining \ {c}) = Cardinality(Remaining) - 1
        BY <2>1, <2>6, FS_RemoveElement
      <3>2. /\ Cardinality(Remaining') <= Cardinality(Remaining \ {c})
            /\ IsFiniteSet(Remaining')
        BY <2>5, <3>1, FS_Subset
      <3> QED
        BY <3>1, <3>2, FS_CardinalityType
    <2>9. Cardinality(UsedIds') + Cardinality(Remaining')
            <= starts * Cardinality(Firmwares) + Cardinality(Clients)
      BY <2>6, <2>7, <2>8 DEF Budget
    <2> QED
      BY <1>2, <2>3, <2>9 DEF Budget
  <1>5. CASE Commit(c)
    <2>1. PICK done \in BOOLEAN, failed \in BOOLEAN :
            /\ SetState(c, IF failed THEN AfterFailedCommit ELSE "committed")
            /\ deployment' = IF done THEN deployment \cup {call[c].id} ELSE deployment
            /\ deploymentDevice' = IF done THEN deploymentDevice \cup ({call[c].id} \X inserted[c])
                                           ELSE deploymentDevice
      BY <1>5 DEF Commit
    <2>2. PICK s \in {"failed", "committed"} : SetState(c, s)
      BY <2>1 DEF AfterFailedCommit
    <2>3. call' = [call EXCEPT ![c] = [state |-> s, id |-> call[c].id]]
      BY <1>1, <2>2, SetStateFacts
    <2>4. /\ \A q \in Callers \ {c} : call'[q] = call[q]
          /\ call'[c].state = s /\ call'[c].id = call[c].id
      BY <1>1, <2>3 DEF Shape
    <2>5. call[c].id \in Ids
      BY <1>3, <1>5 DEF Commit, CallTypes
    <2>6. inserted[c] \subseteq Devices
      BY <1>1 DEF Shape
    <2>7. deployment' \subseteq Ids /\ deploymentDevice' \subseteq Ids \X Devices
      BY <2>1, <2>5, <2>6 DEF TypeInv
    <2>8. TypeInv'
      BY <1>1, <1>2, <1>3, <2>4, <2>7 DEF TypeInv, CallTypes, CallStates
    <2>9. UsedIds' \subseteq UsedIds
      BY <2>1, <2>4 DEF UsedIds
    <2>10. Remaining' \subseteq Remaining
      BY <1>2, <2>4 DEF Remaining
    <2> QED
      BY <1>2, <2>8, <2>9, <2>10, BudgetKept
  <1>6. ASSUME NEW dev \in Devices, CreateDeploymentDevice(c, dev)
        PROVE  CountInv'
    <2>1. UNCHANGED <<call, deployment, deploymentDevice>>
      BY <1>6 DEF CreateDeploymentDevice
    <2>2. TypeInv'
      BY <1>1, <1>2, <2>1 DEF TypeInv, CallTypes
    <2>3. UsedIds' = UsedIds /\ Remaining' = Remaining
      BY <1>2, <2>1 DEF UsedIds, Remaining
    <2> QED
      BY <1>2, <2>2, <2>3, BudgetKept
  <1>7. CASE \/ CallCreateDeployment(c) \/ Refuse(c) \/ Rollback(c)
             \/ StartRun(c) \/ Reply(c)
    <2>1. /\ UNCHANGED <<deployment, deploymentDevice>>
          /\ \E s \in CallStates \ {"transaction"}, i \in {call[c].id, NoId} :
               /\ call' = [call EXCEPT ![c] = [state |-> s, id |-> i]]
               /\ s \in {"idle", "called"} => call[c].state \in {"idle", "called"}
      <3>1. CASE Rollback(c)
        <4>1. /\ call' = [call EXCEPT ![c] = [state |-> "failed", id |-> NoId]]
              /\ UNCHANGED <<deployment, deploymentDevice>>
          BY <3>1 DEF Rollback
        <4>2. "failed" \in CallStates \ {"transaction"} /\ NoId \in {call[c].id, NoId}
              /\ "failed" \notin {"idle", "called"}
          BY DEF CallStates
        <4> QED
          BY <4>1, <4>2
      <3>2. CASE CallCreateDeployment(c) \/ Refuse(c) \/ StartRun(c) \/ Reply(c)
        <4>0. call[c] = NoCall => call[c].state = "idle"
          BY DEF NoCall
        <4>1. PICK s \in CallStates \ {"transaction"} :
                /\ SetState(c, s)
                /\ s \in {"idle", "called"} => call[c].state \in {"idle", "called"}
          BY <3>2, <4>0 DEF CallCreateDeployment, Refuse, StartRun, Reply, CallStates
        <4>2. call' = [call EXCEPT ![c] = [state |-> s, id |-> call[c].id]]
          BY <1>1, <4>1, SetStateFacts
        <4> QED
          BY <3>2, <4>1, <4>2 DEF CallCreateDeployment, Refuse, StartRun, Reply
      <3> QED
        BY <1>7, <3>1, <3>2
    <2>2. PICK s \in CallStates \ {"transaction"}, i \in {call[c].id, NoId} :
            /\ call' = [call EXCEPT ![c] = [state |-> s, id |-> i]]
            /\ s \in {"idle", "called"} => call[c].state \in {"idle", "called"}
      BY <2>1
    <2>3. /\ \A q \in Callers \ {c} : call'[q] = call[q]
          /\ call'[c].state = s /\ call'[c].id = i
      BY <1>1, <2>2 DEF Shape
    <2>4. TypeInv'
      BY <1>1, <1>2, <1>3, <2>1, <2>3 DEF TypeInv, CallTypes
    <2>5. UsedIds' \subseteq UsedIds
      BY <2>1, <2>3 DEF UsedIds
    <2>6. Remaining' \subseteq Remaining
      BY <1>2, <2>2, <2>3 DEF Remaining
    <2> QED
      BY <1>2, <2>4, <2>5, <2>6, BudgetKept
  <1> QED
    BY <1>4, <1>5, <1>6, <1>7 DEF CallStep

LEMMA RunAndQueryStepsCount ==
  ASSUME IInv, CountInv, (\E id \in Ids : RunStep(id)) \/ QueryStep
  PROVE  CountInv'
  <1> USE DEF CountInv
  <1>1. UNCHANGED <<startupVars, call, deployment, deploymentDevice>>
    BY DEF RunStep, BeginRun, CreateMulticastGroup, RunReturns, QueryStep, GetDeployment,
         GetDeploymentDevices, StatusReplied
  <1>2. /\ query'.state \in {"idle", "row", "notFound", "reply"}
        /\ query'.id \in Ids \cup {NoId} /\ query'.devices \subseteq Devices
    <2>1. query = [state |-> query.state, id |-> query.id, devices |-> query.devices]
          /\ query.state \in {"idle", "row", "notFound", "reply"}
          /\ query.id \in Ids \cup {NoId} /\ query.devices \subseteq Devices
      BY DEF IInv, Shape, TypeInv
    <2>2. CASE query' = query
      BY <2>1, <2>2
    <2>3. ASSUME NEW id \in Ids, GetDeployment(id)
          PROVE  query' = [state |-> query'.state, id |-> id, devices |-> {}]
                 /\ query'.state \in {"row", "notFound"}
      BY <2>3 DEF GetDeployment, NoQuery
    <2>4. CASE GetDeploymentDevices
      BY <2>1, <2>4 DEF GetDeploymentDevices
    <2>5. CASE StatusReplied
      BY <2>5 DEF StatusReplied, NoQuery
    <2> QED
      BY <2>2, <2>3, <2>4, <2>5
      DEF RunStep, BeginRun, CreateMulticastGroup, RunReturns, QueryStep
  <1>3. TypeInv' /\ starts' = starts
    BY <1>1, <1>2 DEF TypeInv, CallTypes, StartupTypes, startupVars
  <1>4. UsedIds' = UsedIds /\ Remaining' = Remaining
    BY <1>1 DEF UsedIds, Remaining, startupVars
  <1> QED
    BY <1>3, <1>4, BudgetKept

LEMMA PanicCounts ==
  ASSUME IInv, CountInv, Panic
  PROVE  CountInv'
  <1>1. Crash /\ process' = "down" /\ starts' = starts /\ StartupTypes'
    BY DEF Panic, Exit, CountInv, TypeInv, StartupTypes
  <1> QED
    BY <1>1, CrashCounts

THEOREM ServerCounts == ServerSpec => []CountInv
  <1>1. IInv /\ IInv' /\ CountInv /\ [ServerNext]_allVars => CountInv'
    <2> SUFFICES ASSUME IInv, CountInv, [ServerNext]_allVars PROVE CountInv'
      OBVIOUS
    <2>1. CASE UNCHANGED allVars
      <3>1. TypeInv' /\ starts' = starts
        BY <2>1 DEF allVars, startupVars, serverVars, CountInv, TypeInv, CallTypes, StartupTypes
      <3>2. UsedIds' = UsedIds /\ Remaining' = Remaining
        BY <2>1 DEF allVars, startupVars, serverVars, UsedIds, Remaining
      <3> QED
        BY <3>1, <3>2, BudgetKept DEF CountInv
    <2> QED
      BY <2>1, ProcessStepCounts, PanicCounts, CallStepCounts, RunAndQueryStepsCount
      DEF ServerNext
  <1> QED
    BY <1>1, InitCounts, ServerInvariance, PTL DEF ServerSpec

\* The types of the module: every deployment gets an id of its own for as long as
\* the calls can be counted, whatever crashes, fails or rolls back.
THEOREM ServerTypeCorrect == ServerSpec => []ServerTypeOK
  <1>1. IInv /\ CountInv => ServerTypeOK
    BY TypeInvImplies DEF CountInv
  <1> QED
    BY <1>1, ServerInvariance, ServerCounts, PTL

-----------------------------------------------------------------------------
(* The API implements DeploymentService.                                   *)

\* A call has an id of its own, which is new until it commits, and Run starts
\* between the commit and the reply.  No device row is without its deployment.
IdsInv ==
  /\ \A c, d \in Callers : c # d /\ call[c].id = call[d].id => call[c].id = NoId
  /\ \A c \in Callers :
       /\ call[c].state = "transaction" => call[c].id \notin deployment
       /\ call[c].state = "committed" => run[call[c].id] = "none"
       /\ call[c].state = "started" => run[call[c].id] # "none"
  /\ deploymentDevice \subseteq deployment \X Devices

RefineInv == IInv /\ CountInv /\ IdsInv

\* What a step of a call does to the other calls, and to its own.
LEMMA CallEffect ==
  ASSUME Shape, NEW c \in Callers, NEW s, NEW i,
         call' = [call EXCEPT ![c] = [state |-> s, id |-> i]]
  PROVE  /\ \A q \in Callers \ {c} : call'[q] = call[q]
         /\ call'[c].state = s /\ call'[c].id = i
  BY DEF Shape

LEMMA IdsOfCalls ==
  ASSUME RefineInv, NEW c \in Callers
  PROVE  /\ Shape /\ StoredInv
         /\ deployment \subseteq Ids /\ NoId \notin Ids
         /\ call[c].state = "transaction"
              => call[c].id \in Ids \ deployment /\ run[call[c].id] = "none"
         /\ call[c].state \in {"committed", "started", "replied"} => call[c].id \in deployment
         /\ \A d \in Callers :
              d # c /\ call[d].id = call[c].id => call[d].id = NoId /\ call[c].id = NoId
  <1>1. Shape /\ StoredInv /\ TypeInv /\ CallTypes /\ IdsInv
    BY DEF RefineInv, IInv, CountInv, TypeInv
  <1> QED
    BY <1>1, ServerAssumption DEF TypeInv, CallTypes, IdsInv, StoredInv

LEMMA CallStepIds ==
  ASSUME RefineInv, NEW c \in Callers, CallStep(c)
  PROVE  IdsInv'
  <1>1. IInv /\ CountInv /\ IdsInv /\ Shape
    BY DEF RefineInv, IInv
  <1>2. CASE NewDeployment(c)
    <2>1. /\ call' = [call EXCEPT ![c] = [state |-> "transaction", id |-> NewV4]]
          /\ UNCHANGED <<deployment, deploymentDevice, run>>
          /\ NewV4 \notin {call[q].id : q \in Callers} \cup deployment
      BY <1>1, <1>2, NewV4IsAnId DEF NewDeployment
    <2>2. /\ \A q \in Callers \ {c} : call'[q] = call[q]
          /\ call'[c].state = "transaction" /\ call'[c].id = NewV4
      BY <1>1, <2>1, CallEffect
    <2> QED
      BY <1>1, <2>1, <2>2 DEF IdsInv
  <1>3. CASE Rollback(c)
    <2>1. /\ call' = [call EXCEPT ![c] = [state |-> "failed", id |-> NoId]]
          /\ UNCHANGED <<deployment, deploymentDevice, run>>
      BY <1>3 DEF Rollback
    <2>2. /\ \A q \in Callers \ {c} : call'[q] = call[q]
          /\ call'[c].state = "failed" /\ call'[c].id = NoId
      BY <1>1, <2>1, CallEffect
    <2> QED
      BY <1>1, <2>1, <2>2 DEF IdsInv
  <1>4. CASE Commit(c)
    <2>1. /\ call[c].state = "transaction" /\ UNCHANGED run
          /\ deployment' \subseteq deployment \cup {call[c].id}
          /\ \/ UNCHANGED <<deployment, deploymentDevice>>
             \/ /\ deployment' = deployment \cup {call[c].id}
                /\ deploymentDevice' = deploymentDevice \cup ({call[c].id} \X Devices)
          /\ \E s \in {"failed", "committed"} : SetState(c, s)
      BY <1>4 DEF Commit, AfterFailedCommit
    <2>2. PICK s \in {"failed", "committed"} :
            call' = [call EXCEPT ![c] = [state |-> s, id |-> call[c].id]]
      BY <1>1, <2>1, SetStateFacts
    <2>3. /\ \A q \in Callers \ {c} : call'[q] = call[q]
          /\ call'[c].state = s /\ call'[c].id = call[c].id
      BY <1>1, <2>2, CallEffect
    <2>4. ASSUME NEW q \in Callers \ {c}, call[q].state = "transaction"
          PROVE  call[q].id \notin deployment'
      BY <2>1, <2>4, IdsOfCalls
    <2>5. deploymentDevice' \subseteq deployment' \X Devices
      BY <1>1, <2>1 DEF IdsInv
    <2> QED
      BY <1>1, <2>1, <2>3, <2>4, <2>5, IdsOfCalls DEF IdsInv
  <1>5. CASE StartRun(c)
    <2>1. /\ call[c].state = "committed" /\ UNCHANGED <<deployment, deploymentDevice>>
          /\ run' = [run EXCEPT ![call[c].id] = "started"]
          /\ call' = [call EXCEPT ![c] = [state |-> "started", id |-> call[c].id]]
      BY <1>1, <1>5, SetStateFacts DEF StartRun
    <2>2. /\ \A q \in Callers \ {c} : call'[q] = call[q]
          /\ call'[c].state = "started" /\ call'[c].id = call[c].id
      BY <1>1, <2>1, CallEffect
    <2>3. call[c].id \in Ids /\ run'[call[c].id] = "started"
      BY <1>1, <2>1, IdsOfCalls DEF Shape
    <2>4. ASSUME NEW q \in Callers \ {c}, call[q].state \in {"committed", "started"}
          PROVE  run'[call[q].id] = run[call[q].id]
      <3>1. call[q].id \in Ids /\ call[q].id # call[c].id
        BY <2>1, <2>4, IdsOfCalls
      <3> QED
        BY <1>1, <2>1, <3>1 DEF Shape
    <2> QED
      BY <1>1, <2>1, <2>2, <2>3, <2>4 DEF IdsInv
  <1>6. CASE \/ CallCreateDeployment(c) \/ Refuse(c) \/ Reply(c)
             \/ \E dev \in Devices : CreateDeploymentDevice(c, dev)
    <2>1. UNCHANGED <<deployment, deploymentDevice, run>>
      BY <1>6 DEF CallCreateDeployment, Refuse, Reply, CreateDeploymentDevice
    <2>2. CASE \E dev \in Devices : CreateDeploymentDevice(c, dev)
      BY <1>1, <2>1, <2>2 DEF CreateDeploymentDevice, IdsInv
    <2>3. CASE CallCreateDeployment(c) \/ Refuse(c) \/ Reply(c)
      <3>1. PICK s \in {"called", "failed", "replied"} : SetState(c, s)
        BY <2>3 DEF CallCreateDeployment, Refuse, Reply
      <3>2. /\ \A q \in Callers \ {c} : call'[q] = call[q]
            /\ call'[c].state = s /\ call'[c].id = call[c].id
        BY <1>1, <3>1, SetStateFacts, CallEffect
      <3> QED
        BY <1>1, <2>1, <3>2 DEF IdsInv
    <2> QED
      BY <1>6, <2>2, <2>3
  <1> QED
    BY <1>2, <1>3, <1>4, <1>5, <1>6 DEF CallStep

THEOREM RefineInvariance == ServerSpec => []RefineInv
  <1>1. ServerInit => IdsInv
    BY DEF ServerInit, IdsInv, NoCall
  <1>2. RefineInv /\ [ServerNext]_allVars => IdsInv'
    <2> SUFFICES ASSUME RefineInv, [ServerNext]_allVars PROVE IdsInv'
      OBVIOUS
    <2>1. IdsInv /\ Shape
      BY DEF RefineInv, IInv
    <2>2. CASE UNCHANGED serverVars
      BY <2>1, <2>2 DEF serverVars, IdsInv
    <2>3. CASE Crash
      BY <2>1, <2>3 DEF Crash, IdsInv, NoCall, InProgress
    <2>4. ASSUME NEW id \in Ids, RunStep(id) PROVE IdsInv'
      <3>1. /\ UNCHANGED <<call, deployment, deploymentDevice>>
            /\ run[id] # "none" /\ run'[id] # "none"
            /\ \A x \in Ids \ {id} : run'[x] = run[x]
        BY <2>1, <2>4 DEF RunStep, BeginRun, CreateMulticastGroup, RunReturns, Shape
      <3>2. \A c \in Callers : call[c].state \in {"committed", "started"} => call[c].id \in Ids
        BY IdsOfCalls
      <3> QED
        BY <2>1, <3>1, <3>2 DEF IdsInv
    <2>5. CASE QueryStep
      BY <2>1, <2>5 DEF QueryStep, GetDeployment, GetDeploymentDevices, StatusReplied, IdsInv
    <2> QED
      BY <2>2, <2>3, <2>4, <2>5, CallStepIds DEF ServerNext, Otherwise, Panic, allVars
  <1> QED
    BY <1>1, <1>2, ServerInvariance, ServerCounts, PTL DEF ServerSpec, RefineInv

\* The defined variables of the service, as functions of the server's.
LEMMA MapsKept ==
  ASSUME RefineInv
  PROVE  /\ UNCHANGED call => UNCHANGED <<ToBeStarted, Told>>
         /\ UNCHANGED run => UNCHANGED RunSeen
         /\ UNCHANGED <<query, deploymentDevice>> => UNCHANGED Shown
  BY DEF ToBeStarted, Told, RunSeen, Shown, StoredDevices

LEMMA ServiceInit == ServerInit => Service!Init
  <1> SUFFICES ASSUME ServerInit PROVE Service!Init
    OBVIOUS
  <1>1. ToBeStarted = {} /\ Told = {} /\ Shown = {} /\ RunSeen = [id \in Ids |-> "none"]
    BY DEF ServerInit, NoCall, NoQuery, ToBeStarted, Told, Shown, RunSeen
  <1> QED
    BY <1>1 DEF ServerInit, Service!Init

\* When the process goes down, only what is stored and the groups stay.
LEMMA CrashRefines == RefineInv /\ Crash => Service!GoDown
  <1> SUFFICES ASSUME RefineInv, Crash PROVE Service!GoDown
    OBVIOUS
  <1>1. \A c \in Callers : /\ call'[c].state # "committed"
                           /\ call'[c].state = "replied" => call'[c] = call[c]
    BY DEF Crash, NoCall, InProgress
  <1>2. ToBeStarted' = {} /\ Told' \subseteq Told
    BY <1>1 DEF ToBeStarted, Told
  <1>3. Shown' = {} /\ RunSeen' = [id \in Ids |-> "none"]
    BY DEF Crash, NoQuery, Shown, RunSeen
  <1> QED
    BY <1>2, <1>3 DEF Crash, Service!GoDown

\* The commit creates a deployment with its devices, and is invisible if nothing
\* is stored; its error leaves nothing to be started.
LEMMA CommitRefines ==
  ASSUME RefineInv, NEW c \in Callers, Commit(c)
  PROVE  [Service!Next]_(Service!vars)
  <1> DEFINE id == call[c].id
  <1>1. PICK done \in BOOLEAN, failed \in BOOLEAN :
          /\ done \/ failed
          /\ SetState(c, IF failed THEN "failed" ELSE "committed")
          /\ deployment' = IF done THEN deployment \cup {id} ELSE deployment
          /\ deploymentDevice' = IF done THEN deploymentDevice \cup ({id} \X Devices)
                                         ELSE deploymentDevice
    BY DEF Commit, AfterFailedCommit
  <1>2. /\ call[c].state = "transaction" /\ id \in Ids \ deployment
        /\ UNCHANGED <<run, groups, query>>
    BY IdsOfCalls DEF Commit
  <1>3. /\ \A q \in Callers \ {c} : call'[q] = call[q]
        /\ call'[c].state = IF failed THEN "failed" ELSE "committed"
        /\ call'[c].id = id
    <2> DEFINE s == IF failed THEN "failed" ELSE "committed"
    <2> HIDE DEF s
    <2>1. SetState(c, s)
      BY <1>1 DEF s
    <2>2. Shape
      BY DEF RefineInv, IInv
    <2>3. call' = [call EXCEPT ![c] = [state |-> s, id |-> call[c].id]]
      BY <2>1, <2>2, SetStateFacts
    <2>4. /\ \A q \in Callers \ {c} : call'[q] = call[q]
          /\ call'[c].state = s /\ call'[c].id = id
      BY <2>2, <2>3, CallEffect
    <2> QED
      BY <2>4 DEF s
  <1>4. Told' = Told /\ ToBeStarted' = IF failed THEN ToBeStarted ELSE ToBeStarted \cup {id}
    BY <1>2, <1>3 DEF Told, ToBeStarted
  <1>5. UNCHANGED RunSeen
    BY <1>2 DEF RunSeen
  <1>6. UNCHANGED Shown
    <2>1. query.state = "row" => query.id \in deployment /\ query.id # id
      BY <1>2, IdsOfCalls DEF StoredInv
    <2>2. query.state = "row" => StoredDevices(query.id)' = StoredDevices(query.id)
      BY <1>1, <1>2, <2>1 DEF StoredDevices
    <2> QED
      BY <1>2, <2>2 DEF Shown
  <1>7. CASE done
    <2>1. Service!Create(id)
      BY <1>1, <1>2, <1>4, <1>5, <1>6, <1>7 DEF Service!Create
    <2> QED
      BY <1>2, <2>1 DEF Service!Next
  <1>8. CASE ~done
    BY <1>1, <1>2, <1>4, <1>5, <1>6, <1>8 DEF Service!vars
  <1> QED
    BY <1>7, <1>8

LEMMA CallStepRefines ==
  ASSUME RefineInv, NEW c \in Callers, CallStep(c)
  PROVE  [Service!Next]_(Service!vars)
  <1> DEFINE id == call[c].id
  <1>1. CASE Commit(c)
    BY <1>1, CommitRefines
  <1>2. CASE StartRun(c)
    <2>1. /\ call[c].state = "committed"
          /\ call' = [call EXCEPT ![c] = [state |-> "started", id |-> id]]
          /\ run' = [run EXCEPT ![id] = "started"]
          /\ UNCHANGED <<deployment, deploymentDevice, groups, query>>
      BY <1>2, IdsOfCalls, SetStateFacts DEF StartRun
    <2>2. id \in Ids /\ run[id] = "none"
      BY <2>1, IdsOfCalls DEF RefineInv, IdsInv
    <2>3. /\ \A q \in Callers \ {c} : call'[q] = call[q]
          /\ call'[c].state = "started"
      BY <2>1, IdsOfCalls, CallEffect
    <2>4. \A q \in Callers \ {c} : call[q].state = "committed" => call[q].id # id
      BY <2>1, <2>2, IdsOfCalls
    <2>5. id \in ToBeStarted /\ ToBeStarted' = ToBeStarted \ {id} /\ Told' = Told
      BY <2>1, <2>3, <2>4 DEF ToBeStarted, Told
    <2>6. RunSeen[id] = "none" /\ RunSeen' = [RunSeen EXCEPT ![id] = "running"]
      BY <2>1, <2>2, IdsOfCalls DEF RunSeen, Shape
    <2>7. UNCHANGED Shown
      BY <2>1, MapsKept
    <2>8. Service!Start(id)
      BY <2>1, <2>5, <2>6, <2>7 DEF Service!Start
    <2> QED
      BY <2>2, <2>8 DEF Service!Next
  <1>3. CASE Reply(c)
    <2>1. /\ call[c].state = "started"
          /\ UNCHANGED <<deployment, deploymentDevice, run, groups, query>>
          /\ call' = [call EXCEPT ![c] = [state |-> "replied", id |-> id]]
      BY <1>3, IdsOfCalls, SetStateFacts DEF Reply
    <2>2. id \in Ids /\ run[id] # "none"
      BY <2>1, IdsOfCalls DEF RefineInv, IdsInv
    <2>3. /\ \A q \in Callers \ {c} : call'[q] = call[q]
          /\ call'[c].state = "replied" /\ call'[c].id = id
      BY <2>1, IdsOfCalls, CallEffect
    <2>4. ToBeStarted' = ToBeStarted /\ Told' = Told \cup {id}
      BY <2>1, <2>3 DEF ToBeStarted, Told
    <2>5. RunSeen[id] # "none" /\ UNCHANGED <<RunSeen, Shown>>
      BY <2>1, <2>2, MapsKept DEF RunSeen
    <2>6. Service!Tell(id)
      BY <2>1, <2>4, <2>5 DEF Service!Tell
    <2> QED
      BY <2>2, <2>6 DEF Service!Next
  <1>4. CASE \E dev \in Devices : CreateDeploymentDevice(c, dev)
    <2>1. UNCHANGED <<call, deployment, deploymentDevice, run, groups, query>>
      BY <1>4 DEF CreateDeploymentDevice
    <2> QED
      BY <2>1, MapsKept DEF Service!vars
  <1>5. CASE CallCreateDeployment(c) \/ Refuse(c) \/ NewDeployment(c) \/ Rollback(c)
    <2>1. /\ UNCHANGED <<deployment, deploymentDevice, run, groups, query>>
          /\ call[c].state \notin {"committed", "replied"}
          /\ \E s \in {"called", "transaction", "failed"}, i \in {id, NewV4, NoId} :
               call' = [call EXCEPT ![c] = [state |-> s, id |-> i]]
      <3>1. CASE CallCreateDeployment(c) \/ Refuse(c)
        <4>1. /\ UNCHANGED <<deployment, deploymentDevice, run, groups, query>>
              /\ call[c].state \notin {"committed", "replied"}
              /\ \E s \in {"called", "failed"} : SetState(c, s)
          BY <3>1 DEF CallCreateDeployment, Refuse, NoCall
        <4> QED
          BY <4>1, IdsOfCalls, SetStateFacts
      <3>2. CASE NewDeployment(c) \/ Rollback(c)
        BY <3>2 DEF NewDeployment, Rollback
      <3> QED
        BY <1>5, <3>1, <3>2
    <2>2. PICK s \in {"called", "transaction", "failed"}, i \in {id, NewV4, NoId} :
            call' = [call EXCEPT ![c] = [state |-> s, id |-> i]]
      BY <2>1
    <2>3. /\ \A q \in Callers \ {c} : call'[q] = call[q]
          /\ call'[c].state \notin {"committed", "replied"}
      BY <2>2, IdsOfCalls, CallEffect
    <2>4. UNCHANGED <<ToBeStarted, Told>>
      BY <2>1, <2>3 DEF ToBeStarted, Told
    <2> QED
      BY <2>1, <2>4, MapsKept DEF Service!vars
  <1> QED
    BY <1>1, <1>2, <1>3, <1>4, <1>5 DEF CallStep

LEMMA RunStepRefines ==
  ASSUME RefineInv, NEW id \in Ids, RunStep(id)
  PROVE  [Service!Next]_(Service!vars)
  <1>1. Shape
    BY DEF RefineInv, IInv
  <1>2. UNCHANGED <<call, deployment, deploymentDevice, query>>
    BY DEF RunStep, BeginRun, CreateMulticastGroup, RunReturns
  <1>3. UNCHANGED <<ToBeStarted, Told, Shown>>
    BY <1>2, MapsKept
  <1>4. CASE BeginRun(id)
    <2>1. RunSeen' = RunSeen /\ groups' = groups
      BY <1>1, <1>4 DEF BeginRun, RunSeen, Shape
    <2> QED
      BY <1>2, <1>3, <2>1 DEF Service!vars
  <1>5. CASE CreateMulticastGroup(id)
    <2>1. RunSeen[id] = "running" /\ RunSeen' = RunSeen /\ groups' = groups \cup {id}
      BY <1>5 DEF CreateMulticastGroup, RunSeen
    <2> QED
      BY <1>2, <1>3, <2>1 DEF Service!CreateGroup, Service!Next
  <1>6. CASE RunReturns(id)
    <2>1. /\ RunSeen[id] = "running" /\ RunSeen' = [RunSeen EXCEPT ![id] = "ended"]
          /\ groups' \in {groups, groups \ {id}}
      BY <1>1, <1>6 DEF RunReturns, RunSeen, Shape
    <2> QED
      BY <1>2, <1>3, <2>1 DEF Service!End, Service!Next
  <1> QED
    BY <1>4, <1>5, <1>6 DEF RunStep

\* A status is taken at its first query: the second one finds what was there then.
LEMMA QueryStepRefines ==
  ASSUME RefineInv, QueryStep
  PROVE  [Service!Next]_(Service!vars)
  <1>1. Shape /\ StoredInv /\ TypeInv
    BY DEF RefineInv, IInv, CountInv
  <1>2. UNCHANGED <<call, deployment, deploymentDevice, run, groups>>
    BY DEF QueryStep, GetDeployment, GetDeploymentDevices, StatusReplied
  <1>3. UNCHANGED <<ToBeStarted, Told, RunSeen>>
    BY <1>2, MapsKept
  <1>4. ASSUME NEW id \in Ids, GetDeployment(id)
        PROVE  Service!Status(id)
    <2>1. /\ query.state = "idle"
          /\ query' = [state |-> IF id \in deployment THEN "row" ELSE "notFound",
                       id |-> id, devices |-> {}]
      BY <1>4 DEF GetDeployment, NoQuery, DeploymentRows, Visible
    <2>2. id \notin deployment => StoredDevices(id) = {}
      BY DEF RefineInv, IdsInv, StoredDevices
    <2>3. Shown = {} /\ Shown' = {[id |-> id, found |-> id \in deployment,
                                   devices |-> StoredDevices(id)]}
      <3>1. /\ query'.state = "row" <=> id \in deployment
            /\ query'.state \in {"row", "notFound"} /\ query'.id = id
            /\ query'.devices = {}
        BY <2>1
      <3>2. StoredDevices(id)' = StoredDevices(id)
        BY <1>2 DEF StoredDevices
      <3>3. Shown' = {[id |-> id, found |-> id \in deployment,
                      devices |-> IF id \in deployment THEN StoredDevices(id) ELSE {}]}
        BY <3>1, <3>2 DEF Shown
      <3> QED
        BY <2>1, <2>2, <3>3 DEF Shown
    <2> QED
      BY <1>2, <1>3, <2>3 DEF Service!Status, StoredDevices
  <1>5. CASE GetDeploymentDevices
    <2>1. /\ query.state = "row" /\ query'.state = "reply" /\ query'.id = query.id
          /\ query'.devices = StoredDevices(query.id)
      BY <1>1, <1>5 DEF GetDeploymentDevices, Shape, DeviceRows, Visible, StoredDevices
    <2>2. UNCHANGED Shown
      BY <2>1 DEF Shown
    <2> QED
      BY <1>2, <1>3, <2>2 DEF Service!vars
  <1>6. CASE StatusReplied
    <2>1. Shown' = {}
      BY <1>6 DEF StatusReplied, NoQuery, Shown
    <2> QED
      BY <1>2, <1>3, <2>1 DEF Service!StatusReplied, Service!Next
  <1> QED
    BY <1>4, <1>5, <1>6 DEF QueryStep, Service!Next

\* Whatever calls, crashes, rollbacks and failed commits interleave, the API is the
\* service: deployments are created whole and started at most once, and the two
\* queries of a status read one state.
THEOREM ServerRefinesService == ServerSpec => ImplementsService
  <1>1. RefineInv /\ [ServerNext]_allVars => [Service!Next]_(Service!vars)
    <2> SUFFICES ASSUME RefineInv, [ServerNext]_allVars
                 PROVE  [Service!Next]_(Service!vars)
      OBVIOUS
    <2>1. CASE UNCHANGED serverVars
      BY <2>1, MapsKept DEF serverVars, Service!vars
    <2>2. CASE Crash
      BY <2>2, CrashRefines DEF Service!Next
    <2> QED
      BY <2>1, <2>2, CallStepRefines, RunStepRefines, QueryStepRefines
      DEF ServerNext, Otherwise, Panic, allVars
  <1> QED
    BY <1>1, ServiceInit, RefineInvariance, PTL DEF ServerSpec, ImplementsService, Service!Spec
=============================================================================
