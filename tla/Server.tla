------------------------------- MODULE Server --------------------------------
(***************************************************************************)
(* The gRPC API (internal/api/fuota_server.go) in a process that starts,    *)
(* crashes and starts again: CreateDeployment, called by UpdateFirmware of  *)
(* the process itself and by clients, the transaction of NewDeployment, the *)
(* life of Run seen from outside, and GetDeploymentStatus.  The tables and  *)
(* the multicast-groups at the network server outlive the process.  What    *)
(* Run does between its first step and its last is the subject of module    *)
(* Deployment.                                                              *)
(***************************************************************************)
EXTENDS Startup, FiniteSets

CONSTANTS
  Clients,  \* callers outside of the process, with one call each
  Devices,  \* the devices of a request
  Ids,      \* deployment ids
  NoId

Callers == Firmwares \cup Clients

ASSUME ServerAssumption ==
  /\ IsFiniteSet(Firmwares) /\ IsFiniteSet(Clients) /\ IsFiniteSet(Ids)
  /\ Firmwares \cap Clients = {}
  /\ NoId \notin Ids
  \* NewV4 never runs out of ids
  /\ Cardinality(Ids) >= MaxStarts * Cardinality(Firmwares) + Cardinality(Clients)

VARIABLES
  call,              \* per caller, the state and the id of its CreateDeployment
  inserted,          \* per caller, the device rows inserted in its transaction
  deployment,        \* committed rows of table deployment
  deploymentDevice,  \* committed rows of table deployment_device
  run,               \* per id, the goroutine of Run
  groups,            \* ids whose multicast-group is at the network server
  query              \* a call of GetDeploymentStatus

serverVars == <<call, inserted, deployment, deploymentDevice, run, groups, query>>

allVars == <<startupVars, serverVars>>

NoCall == [state |-> "idle", id |-> NoId]
NoQuery == [state |-> "idle", id |-> NoId, devices |-> {}]

ServerInit ==
  /\ Init
  /\ call = [c \in Callers |-> NoCall]
  /\ inserted = [c \in Callers |-> {}]
  /\ deployment = {}
  /\ deploymentDevice = {}
  /\ run = [id \in Ids |-> "none"]
  /\ groups = {}
  /\ query = NoQuery

\* The calls that a goroutine of the server serves.
InProgress == {c \in Callers : call[c].state \in {"called", "transaction", "committed", "started"}}

VisibleAtOnce(committed, uncommitted) == committed \cup uncommitted
\* The rows that another connection sees: those of transactions that have ended.
Visible(committed, uncommitted) == committed

InTransaction == {c \in Callers : call[c].state = "transaction"}

DeploymentRows == Visible(deployment, {call[c].id : c \in InTransaction})

DeviceRows ==
  Visible(deploymentDevice, UNION {{call[c].id} \X inserted[c] : c \in InTransaction})

-----------------------------------------------------------------------------
(* CreateDeployment.                                                       *)

SetState(c, state) == call' = [call EXCEPT ![c].state = state]

\* UpdateFirmware calls once; the API must listen.
CallCreateDeployment(c) ==
  /\ c \in Clients \cup updating
  /\ "api" \in SetUp
  /\ call[c] = NoCall
  /\ SetState(c, "called")
  /\ UNCHANGED <<startupVars, inserted, deployment, deploymentDevice, run, groups, query>>

NilId == NoId
\* An id that nobody has; which one does not matter.
NewV4 == CHOOSE id \in Ids : id \notin {call[c].id : c \in Callers} \cup deployment

\* An option that does not convert, or no transaction.
Refuse(c) ==
  /\ call[c].state = "called"
  /\ SetState(c, "failed")
  /\ UNCHANGED <<startupVars, inserted, deployment, deploymentDevice, run, groups, query>>

\* NewDeployment, to the insert of the deployment row.
NewDeployment(c) ==
  /\ call[c].state = "called"
  /\ call' = [call EXCEPT ![c] = [state |-> "transaction", id |-> NewV4]]
  /\ UNCHANGED <<startupVars, inserted, deployment, deploymentDevice, run, groups, query>>

CreateDeploymentDevice(c, dev) ==
  /\ call[c].state = "transaction"
  /\ dev \notin inserted[c]
  /\ inserted' = [inserted EXCEPT ![c] = @ \cup {dev}]
  /\ UNCHANGED <<startupVars, call, deployment, deploymentDevice, run, groups, query>>

RollbackForgotten(c) ==
  /\ call[c].state = "transaction"
  /\ call' = [call EXCEPT ![c] = [state |-> "failed", id |-> NoId]]
  /\ inserted' = [inserted EXCEPT ![c] = {}]
  /\ deployment' = deployment \cup {call[c].id}
  /\ deploymentDevice' = deploymentDevice \cup ({call[c].id} \X inserted[c])
  /\ UNCHANGED <<startupVars, run, groups, query>>
\* An insert fails: Transaction rolls back.
Rollback(c) ==
  /\ call[c].state = "transaction"
  /\ call' = [call EXCEPT ![c] = [state |-> "failed", id |-> NoId]]
  /\ inserted' = [inserted EXCEPT ![c] = {}]
  /\ UNCHANGED <<startupVars, deployment, deploymentDevice, run, groups, query>>

CommitErrorIgnored == "committed"
AfterFailedCommit == "failed"

\* Commit succeeds, or returns an error after which the rows are there or not.
Commit(c) ==
  /\ call[c].state = "transaction"
  /\ inserted[c] = Devices
  /\ \E done, failed \in BOOLEAN :
       /\ done \/ failed
       /\ SetState(c, IF failed THEN AfterFailedCommit ELSE "committed")
       /\ deployment' = IF done THEN deployment \cup {call[c].id} ELSE deployment
       /\ deploymentDevice' = IF done THEN deploymentDevice \cup ({call[c].id} \X inserted[c])
                                      ELSE deploymentDevice
  /\ inserted' = [inserted EXCEPT ![c] = {}]
  /\ UNCHANGED <<startupVars, run, groups, query>>

\* The goroutine of Run is started.
StartRun(c) ==
  /\ call[c].state = "committed"
  /\ SetState(c, "started")
  /\ run' = [run EXCEPT ![call[c].id] = "started"]
  /\ UNCHANGED <<startupVars, inserted, deployment, deploymentDevice, groups, query>>

ReplyAfterRun(c) ==
  /\ call[c].state = "started"
  /\ run[call[c].id] = "ended"
  /\ SetState(c, "replied")
  /\ UNCHANGED <<startupVars, inserted, deployment, deploymentDevice, run, groups, query>>
Reply(c) ==
  /\ call[c].state = "started"
  /\ SetState(c, "replied")
  /\ UNCHANGED <<startupVars, inserted, deployment, deploymentDevice, run, groups, query>>

CallStep(c) ==
  \/ CallCreateDeployment(c) \/ Refuse(c) \/ NewDeployment(c)
  \/ \E dev \in Devices : CreateDeploymentDevice(c, dev)
  \/ Rollback(c) \/ Commit(c) \/ StartRun(c) \/ Reply(c)

-----------------------------------------------------------------------------
(* Run, from outside.                                                      *)

\* Run registers itself with the event handler.
BeginRun(id) ==
  /\ run[id] = "started"
  /\ run' = [run EXCEPT ![id] = "running"]
  /\ UNCHANGED <<startupVars, call, inserted, deployment, deploymentDevice, groups, query>>

CreateMulticastGroup(id) ==
  /\ run[id] = "running"
  /\ groups' = groups \cup {id}
  /\ UNCHANGED <<startupVars, call, inserted, deployment, deploymentDevice, run, query>>

\* Its last step deletes the group; a step that fails before it leaves it.
RunReturns(id) ==
  /\ run[id] = "running"
  /\ run' = [run EXCEPT ![id] = "ended"]
  /\ groups' \in {groups, groups \ {id}}
  /\ UNCHANGED <<startupVars, call, inserted, deployment, deploymentDevice, query>>

RunStep(id) == BeginRun(id) \/ CreateMulticastGroup(id) \/ RunReturns(id)

-----------------------------------------------------------------------------
(* GetDeploymentStatus: two queries, without a transaction.                *)

GetDeployment(id) ==
  /\ "api" \in SetUp
  /\ query = NoQuery
  /\ query' = [NoQuery EXCEPT !.state = IF id \in DeploymentRows THEN "row" ELSE "notFound",
                              !.id = id]
  /\ UNCHANGED <<startupVars, call, inserted, deployment, deploymentDevice, run, groups>>

GetDeploymentDevices ==
  /\ query.state = "row"
  /\ query' = [query EXCEPT !.state = "reply",
                            !.devices = {dev \in Devices : <<query.id, dev>> \in DeviceRows}]
  /\ UNCHANGED <<startupVars, call, inserted, deployment, deploymentDevice, run, groups>>

StatusReplied ==
  /\ query.state \in {"notFound", "reply"}
  /\ query' = NoQuery
  /\ UNCHANGED <<startupVars, call, inserted, deployment, deploymentDevice, run, groups>>

QueryStep ==
  \/ \E id \in Ids : GetDeployment(id)
  \/ GetDeploymentDevices \/ StatusReplied

-----------------------------------------------------------------------------
(* The process.                                                            *)

\* Transactions are rolled back, and clients get an error for their calls.  No
\* goroutine of Run is resumed; C2 lists its firmwares anew.
Crash ==
  /\ call' = [c \in Callers |->
                IF c \in Firmwares THEN NoCall
                ELSE IF c \in InProgress THEN [state |-> "failed", id |-> NoId]
                ELSE call[c]]
  /\ inserted' = [c \in Callers |-> {}]
  /\ run' = [id \in Ids |-> "none"]
  /\ query' = NoQuery
  /\ UNCHANGED <<deployment, deploymentDevice, groups>>

\* What a step of the process is to the API: all is lost when it goes down.
Otherwise == IF process = "up" /\ process' = "down" THEN Crash ELSE UNCHANGED serverVars

\* UpdateFirmware panics when its call fails.
Panic ==
  /\ \E f \in Firmwares : call[f].state = "failed"
  /\ Exit
  /\ Crash

ServerNext ==
  \/ Next /\ Otherwise
  \/ Panic
  \/ \E c \in Callers : CallStep(c)
  \/ \E id \in Ids : RunStep(id)
  \/ QueryStep

\* As in Startup; and the handlers of the API run, and the goroutine of
\* UpdateFirmware gets its answer.  How long Run takes is open.
ServerSpec ==
  /\ ServerInit
  /\ [][ServerNext]_allVars
  /\ WF_allVars(Execute /\ Otherwise)
  /\ WF_allVars(Main /\ Otherwise)
  /\ WF_allVars(Panic)
  /\ \A c \in Callers : WF_allVars(CallStep(c))

-----------------------------------------------------------------------------
(* Correctness.                                                            *)

CallStates ==
  {"idle", "called", "transaction", "committed", "started", "replied", "failed"}

ServerTypeOK ==
  /\ process \in {"up", "down"}
  /\ taskDone \in 0..Len(Tasks)
  /\ updating \subseteq Firmwares
  /\ call \in [Callers -> [state : CallStates, id : Ids \cup {NoId}]]
  /\ inserted \in [Callers -> SUBSET Devices]
  /\ deployment \subseteq Ids
  /\ deploymentDevice \subseteq Ids \X Devices
  /\ run \in [Ids -> {"none", "started", "running", "ended"}]
  /\ groups \subseteq Ids
  /\ query \in [state : {"idle", "row", "notFound", "reply"},
                id : Ids \cup {NoId}, devices : SUBSET Devices]

\* No call is served and no deployment runs before the database, the network
\* server's client and the event handler are set up: each is a nil global until
\* then (storage.DB, as.DeviceClient, eventhandler.Get), though main waits for
\* nothing but the API, and a caller may call as soon as that listens.
SetUpBeforeUse ==
  InProgress # {} \/ (\E id \in Ids : run[id] # "none") \/ query # NoQuery
    => {"storage", "as", "eventhandler"} \subseteq SetUp

\* What outlives the process is accounted for: a deployment whose id a caller was
\* told, and one that has a multicast-group at the network server, is in the
\* database, whatever crashed, rolled back or failed to commit in the meantime
\* (fuota.go:231-256, fuota_server.go:80-93, storage.go:139-159).
EverythingKnownIsStored ==
  groups \cup {call[c].id : c \in {d \in Callers : call[d].state = "replied"}}
    \subseteq deployment

\* A reply of GetDeploymentStatus lists every device of the deployment, though
\* it reads two tables while the deployment is being created in another
\* connection or the process comes back after a crash (fuota_server.go:103-155).
StatusListsAllDevices == query.state = "reply" => query.devices = Devices

\* A process that starts gets through its start-up and every firmware of C2 ends
\* as a deployment with an id, or the process goes down, or main waits for ever for
\* an API that is not where it dials.  Nothing else can make it wait: the API waits
\* for the database and the network server, main for the API, the firmwares for
\* main, and no answer for a deployment to end (main.go:60-66, websocket.go:63-69,
\* fuota_server.go:85).
AllUpdated ==
  /\ main = "scanln"
  /\ listed = {}
  /\ \A f \in updating : call[f].state = "replied"
DialsInVain == main = "dialAPI" /\ bind = "elsewhere"

UpdatesAnswered == process = "up" ~> AllUpdated \/ DialsInVain \/ process = "down"

\* DeploymentService of what the server holds: the deployments of calls that have
\* committed are still to be started, a goroutine runs as soon as it is created, and
\* a reply that waits for its second query has what this query will find.
ToBeStarted == {call[c].id : c \in {d \in Callers : call[d].state = "committed"}}
Told == {call[c].id : c \in {d \in Callers : call[d].state = "replied"}}
RunSeen == [id \in Ids |-> IF run[id] = "started" THEN "running" ELSE run[id]]
StoredDevices(id) == {dev \in Devices : <<id, dev>> \in deploymentDevice}
Shown ==
  IF query.state = "idle" THEN {}
  ELSE {[id      |-> query.id,
         found   |-> query.state # "notFound",
         devices |-> IF query.state = "row" THEN StoredDevices(query.id) ELSE query.devices]}

Service == INSTANCE DeploymentService WITH
             stored  <- deployment,  contents <- deploymentDevice,
             pending <- ToBeStarted, run      <- RunSeen,
             told    <- Told,        shown    <- Shown

\* The API implements DeploymentService: a deployment is created as a whole, at
\* the commit of its transaction, and started at most once, never after a commit
\* that returned an error, nor again after a crash; a status is the one at the
\* instant of the first of its two queries (fuota.go:231-256, storage.go:139-159,
\* fuota_server.go:80-93, 103-155).
ImplementsService == Service!Spec
=============================================================================
