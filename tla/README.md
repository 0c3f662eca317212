# A formal model of the ChirpStack FUOTA server

TLA+ specifications of the server in `src/`, TLC configurations that check them
on small instances, and TLAPS proofs of what they show for any instance. The
source is the reference: every definition that models code is listed in
`PROJECT.json` under `map` with the lines it translates.

    tlasany M.tla                         parse a module
    tlc -workers 2 -config X.cfg M        model-check a run of PROJECT.json
    tlapm M.tla                           check the proofs of a *Proofs module

## 1. The system

The server updates the firmware of LoRaWAN devices. A client asks for a
*deployment* of a payload to a set of devices. The server creates a
multicast-group at the network server, asks every device in four rounds of
unicast requests to join the group, to prepare for fragments, to open a
multicast session and (optionally) to report what it received, and between the
third and the fourth round queues the fragments to the group.

| component | state | operations | interacts with |
|---|---|---|---|
| Deployment (`internal/fuota/fuota.go`) | options; per-device flags `deviceState`; four unbuffered done channels; session window; multicast-group id | `Run` and its ten steps; `HandleUplinkEvent` and five answer handlers | event handler (callbacks), storage, network server |
| Event handler (`internal/eventhandler/eventhandler.go`) | map of registered functions under an RWMutex | register, unregister, `ServeHTTP` | HTTP posts of the network server; starts a goroutine per uplink and function |
| Clock synchronisation (`clocksync.go`) | none; the device's clock and token | answer `AppTimeReq` | event handler, device queue |
| Storage (`internal/storage`) | rows of `deployment`, `deployment_device`, `deployment_log` | create, get, update (full row), transaction, migrations | PostgreSQL |
| gRPC API (`internal/api/fuota_server.go`, `api.go`) | none of its own | `CreateDeployment` (transaction, then the goroutine of `Run`), `GetDeploymentStatus` (two queries), `GetDeploymentDeviceLogs` | deployment, storage |
| C2 client (`internal/api/websocket.go`) | one websocket, one gRPC connection to its own process, files under `firmwares/` | read a list of firmwares, one `CreateDeployment` for each | gRPC API, the global viper |
| Network-server client (`internal/client/as`) | connection | group create/add/delete/enqueue, device enqueue | network server |
| Start-up (`main.go`, `cmd/root.go`, `cmd/root_run.go`) | `config.C`, the globals of every part | `main` and `Execute` in two goroutines; the tasks of `run`; signals, fatal errors | all |

What is hard here: `Run` and any number of uplink goroutines share the flags,
the rows and the channels; answers are late, repeated, lost or out of order and
are matched by device and id only; requests are retried on a timer that races
the answers; devices fall behind and must be left out of later rounds; every
attempt of the session round moves the session window of the whole deployment;
any database or network call may fail between two state changes. `PROJECT.json`
lists each such place at its line (`hazards`), with the property that covers it
or the reason why none does.

What makes each component correct:

- *Deployment*: it believes only what devices did; it asks for nothing out of
  order; a step is left as complete only when it is; results once stored stay;
  it ends.
- *Session window*: fragments go out while sessions are open, status is asked
  for after them, and the group outlives them.
- *Event handler*: every function registered gets every uplink; the map does not
  change under a loop.
- *Several deployments*: an answer to one completes nothing of another.
- *Storage*: rows agree with each other and with memory; what anybody outside was
  told is stored; a deployment is stored as a whole or not at all.
- *API*: a status reply lists every device of its deployment.
- *Clock synchronisation*: the correction moves the device's clock to network
  time, once.
- *Fragments*: what a device puts together is the payload.
- *Start-up*: nothing is used before it is set up; `main` gets through its start-up
  and every firmware that C2 lists gets an answer; the configuration is the server's own.

## 2. The modules

| module | models | kind |
|---|---|---|
| `FuotaStages` | stages, columns, and the order between them | vocabulary |
| `Rollout` | what a deployment promises, without goroutines | abstract specification |
| `Deployment` | `Run`, the uplink handlers, rows, queues, devices | detailed specification |
| `DeploymentProofs` | invariants and refinement of `Deployment` | proofs |
| `DeploymentRaceProofs` | what makes its rows and done messages go wrong, and what alone | proofs |
| `SessionWindow` | the clock: session window, timers and sleeps | detailed specification |
| `SessionWindowProofs` | its invariants | proofs |
| `EventHandler` | registry, `ServeHTTP` and its goroutines | detailed specification |
| `EventHandlerProofs` | its invariant | proofs |
| `Fleet` | several deployments and their ids behind `EventHandler` | composition |
| `FleetProofs` | that they do not interfere | proofs |
| `Fragmentation` | options, announced session, fragments, the file of a device | detailed specification |
| `FragmentationProofs` | that the file is the payload | proofs |
| `ClockSync` | correction of a device's clock | detailed specification |
| `ClockSyncProofs` | that corrections set the clock | proofs |
| `Startup` | the process: `main`, `Execute`, viper, tasks, restarts | detailed specification |
| `DeploymentService` | what the API promises, without transactions or a process | abstract specification |
| `Server` | the API, its database and its deployments in that process | composition |
| `ServerProofs` | what survives crashes and failed commits; the refinement | proofs |
| `MC...` | model values and symmetry for TLC | checking |

`Fleet` EXTENDS `EventHandler`, `Server` EXTENDS `Startup`; `Deployment` is shown to
implement `Rollout`, and `Server` to implement `DeploymentService`. `Fleet` and `Server` see a deployment from outside (which
answers it takes; when it starts and ends) and leave what it does to `Deployment`.

### Deployment

The goroutine of `Run` is `pc`, `stage`, `attempt` and `todo`; a goroutine of
`HandleUplinkEvent` is a record in `handler[h]`. `deviceState`, `deployment` and
`deploymentDevice` are the flags and rows, each as the set of stages whose flag
is true or whose `*_completed_at` is not null. `group`, `members`, `mcQueue` and
`requested` are what the network server holds, `device` what the devices did.

- The four request rounds (`stepMulticastSetup`, `stepFragmentationSessionSetup`,
  the class B and class C session steps, `stepFragSessionStatus`) have the same
  loop: `NextAttempt`, one `SendRequest` per device, `SentRequests`, then
  `Timeout` or `ReceiveDone`, then `Record`. They differ in the stage, and so in
  whom they skip (`Needs`). `Follows` is the list in `Run`, with the steps that
  return at once for the other group class or without a status request.
- The five answer handlers likewise share `HandleAnswer` (up to the acceptance
  test), `SetDeviceState`, `GetDeploymentDevice`, `UpdateDeploymentDevice`,
  `CheckDevice` (one device of the done loop per step) and `PublishDone`. Every
  access to shared state is a step of its own.
- An unbuffered send and its receive are one step (`ReceiveDone`); until then the
  handler stays at `publish`, for ever if nobody receives.
- `StepError` is every `return err` of a step, `StorageError` those of a handler.
  The call that returned the error may have had its effect all the same
  (`StepErrorWithEffect`, and the row that `StorageError` may leave behind).

Abstractions. Reading the two flags of a device (does it take part, has it
answered) is one step: flags are never reset, so an atomic read at the second
moment gives the same verdict as the pair. In the status loop of an
`AFTER_FRAGMENT_ENQUEUE` deployment, as elsewhere, sleeps only delay and are left
to `SessionWindow`. `deployment_log` is written, and read only to be shown, and
its errors are only logged: it is left out. The done loop leaves at the first
device that is not done, since the rest of the loop has no effect. An answer is
one of four kinds; devices answer only what they were asked, as often as they
like, and may be able to say `ok` only after what the request presupposes.
The class A behaviour of the device queue (order, airtime) is left out: requests
and answers take any time and any order.

### SessionWindow

Only the time of a deployment: `sessionStartTime` and `sessionEndTime` as `Run`
computes them at each attempt, and the window each device has accepted, possibly
from an older request. `Slept(t)` is each `time.Sleep(t.Sub(time.Now()))`. With
`prompt = FALSE` the clock may advance anywhere, so `Run`, its calls and timers
may be arbitrarily late. `SessionTimeout` is what the server takes a session to
last. It computes the same 2^n seconds for both group classes, while the field "has a
different meaning for Class-B and Class-C groups" (`fuota.go:106-107`): a Class-B
device takes it to last `ClassBOverrun` more (`Overrun`). `groupType` is chosen at the
start. The properties hold as they stand for Class C, and allow Class B that much.
`ReceiveDone` needs only one answer, which `Deployment` shows to be possible.

### EventHandler

The write lock is held for one map operation, so register and unregister are
single steps, guarded by `LockAvailable`. The read lock is held from `ServeHTTP`
to `ReturnFromServeHTTP`, one `StartGoroutine` per map entry in any order. The
loop variable `f` is one per call, as go.mod's Go 1.15 has it; `Call` reads it
when the goroutine runs, unsynchronised, and so sees the value it was started
with or any later one. Requests that start no loop (other events, bad bodies, the
clock-sync port) return directly.

### Fleet

`EventHandler` with contents: an uplink is the answer to a request of one
deployment, and `Accepts` is the test by which `HandleUplinkEvent` of each
deployment that it is handed to takes it for its own: the device, and the *one* id
that an answer carries, the group id or the fragmentation-session index. A
deployment may ask and devices may answer at any time from registration on, also
after it has returned, so `Fleet` allows every order of answers that several
`Deployment`s produce. `IdsSeparate` is what the operator has to see to.

### Fragmentation

One payload from the request to a device. A byte is the number of its position, so
that a file tells which bytes it is made of, and the widths of the fields are
CONSTANTs. `SessionOf` is the arithmetic of `stepFragmentationSessionSetup` with its
conversions to `uint16` and `uint8`; `PaddedPayload`, `Encode` and `FragmentNumber`
are those of `stepEnqueue`, which computes the padding a second time. The frames are
sent in the order of their counters; a device refuses a counter it has passed,
misses any frame, and may set its session up late. `Encode` of the library is
external: the rows of the data, then parity rows, whose contents the model leaves
out with the decoder of the device.

### ClockSync

The loop over the gateways is stated by its result: of `GpsGateways`, those whose GPS
time it reads, the last one wins, and one whose duration `ptypes.Duration` refuses
leaves zero; of `TimeGateways` the last one gives the time field. `UplinkTime` has the
fallbacks from one to the other,
`TimeCorrection` the `% (1 << 32)` and the cast to `int32`. `AllowedErrors` says
independently of these what the metadata lets one expect: no error if all GPS times
convert, the error of some gateway's clock if there are only time fields, the age of
the uplink if there is neither, and either if some GPS time does not convert. The
device repeats a request with its current token and changes the token when it applies
an answer; the token has `Tokens` values and comes round.

`ptypes.Timestamp` returns the time that the numbers make together with its error, and
`timeField` has it when `continue` runs (`clocksync.go:38-42`). `Timestamp` does the
same: a `time` that is not valid (`InvalidErrors` says how far it may be off) replaces
a good one of an earlier gateway, and the fallback on the server's time is not taken,
although the comment at line 48 has it for when the field is not available.
`AllowedErrors` counts its error among those of the time fields. Left out is a valid
`time` of the year 1, the zero `time.Time`. The server does not look at
`ans_required`.

### Startup

`main` and the goroutine of `Execute`, each access to the global viper a step: the
name to read, the file read, a value looked up. A file is one of three roles, and its
keys are only in it. A getter that finds another file's values is a `log.Fatal`;
`initConfig` does not mind, and builds `config.C` from what is there. `DoTask` runs
the tasks of `run` in order, each of which may fail. `Exit` is the end of the process
by any of them, by a panic, by a kill (`Fatal`, any time) or by `Scanln`, whose return
ends `main`. `Signal` ends `Execute` only, as in the code, and the rest goes on. `bind` is where the
configuration has the API listen: `main` dials `localhost:8070` without TLS, whatever
that is (`websocket.go:64-69`, `api.go:31-44`), and without a timeout. When the API is
`"elsewhere"`, on another port or with TLS, `InitGrpcConnection` is never enabled and
`main` waits for ever.

### Server

Callers are the goroutines of `UpdateFirmware`, one per firmware, which come back at
each start, and clients of the API. `CreateDeployment` is `Refuse` or
`NewDeployment` (to the insert of the row), one `CreateDeploymentDevice` per device,
`Commit` or `Rollback`, `StartRun` and `Reply`. What a transaction has inserted is
not visible to others until it has ended (`Visible`; PostgreSQL's read committed);
`Commit` may return an error and have happened. `BeginRun`, `CreateMulticastGroup`
and `RunReturns` are what `Run` does to the world outside of a deployment. `Crash`
composes with every step of `Startup` that takes the process down: calls,
transactions and goroutines of `Run` are gone, the tables and the groups stay.

`DeploymentService` has no calls, transactions, queries or process: `Create` stores a
deployment with all its devices, `Start` takes it from `pending`, `Tell` needs a start,
`Status` reads everything at once, and `GoDown` forgets all but what is stored.

## 3. The runs

| run | instance | shows |
|---|---|---|
| `concurrent` | 2 devices, 2 handlers, 1 attempt, class C, with status, few failures | the safety invariants when handlers race each other and `Run`; what alone makes a done message untrue |
| `one_device` | 1 device, 2 handlers, 2 attempts, class B, no status | `Run` ends; the deployment implements `Rollout`, fairness included |
| `lost_update` | 1 device, 2 handlers | violated: a stored result is overwritten with null |
| `premature_success` | 2 devices, 2 handlers, few failures | violated: a step is left as completed by all devices while one of them is still to be asked |
| `blocked_publish` | 1 device, 2 handlers | violated: a handler waits for ever |
| `session_window` | 2 devices, 2 attempts, both group classes, every status request, prompt or any delay | nothing enqueued, requested or deleted too early, but for the overrun of Class B; a prompt `Run` meets the sessions |
| `loop_variable` | 2 deployments, 2 uplinks | violated: one of them may get nothing |
| `fleet` | 2 deployments with all options that are kept apart, 2 uplinks | no answer counts for the other deployment; the answer to a sole one is not lost |
| `fragmentation` | payloads of 1 to 9 bytes, fragment sizes 0 to 5, fields of 4, 8 and 6 values | a device that has the announced rows has the payload |
| `clock_sync` | clocks of 8 values, 2 tokens, 2 gateways, 3 requests | a correction is as exact as its metadata allows, unless it comes a round of tokens late |
| `config_race` | 1 start, all files there | violated: the server runs with the C2 client's file |
| `server` | 1 firmware, 1 client, 2 devices, 2 starts | nothing used early, everything known is stored, replies complete, every start ends with all firmwares answered or the named case; the API implements `DeploymentService` |

The `violation` runs show where the code differs from what its own comments and
docs say; `findings` in `PROJECT.json` quotes the lines.

The properties of `Deployment`, and what they are for:

- `KnowledgeSound`: rows ⊆ flags ⊆ what the device did, with stale row copies,
  errors and concurrent handlers.
- `PipelineOrder`: nobody is asked for, or believed to have done, a stage before
  the one it needs, with late answers and devices that fall behind.
- `DoneCoversEnrolled`: when `Run` can receive a done message, every device that
  could take part *when the step began* is done, although the loop that decided
  it was not atomic and the message may be old.
- `SuccessMeansAllDevices`, `OnlyLateAnswersMislead`: the stronger statement, about the
  devices that take part at the time of the receive, is what comments and log say
  (`fuota.go:489`, `909`, `1027`), and is false (`premature_success`): a device whose
  answer to the stage before is handled behind the done loop, or while the message
  waits, is left out. That is the only way to it: no order of the answers to the stage
  itself, no repetition, timeout or error makes a done loop wrong.
- `RowsFollowSteps`: the two tables agree.
- `RowsKeepResults`: false with concurrent handlers of one device (`lost_update`), and
  proved when no two uplinks of one device are handled at once.
- `RunTerminates`, `ImplementsRollout`: liveness and refinement.

And of the others:

- `DeletedAfterSessions`, `EnqueuedAfterStart`, `StatusAfterSessions`,
  `EnqueuedBeforeEnd`: the window that moves with every attempt against those the
  devices kept; the first and the third allow `Overrun`.
- `RegistryStable`, `NoCrossTalk`, `SoleAnswerCounts`: the fan-out neither mixes
  deployments up nor loses the answer when there is one deployment only, although the
  goroutines read the wrong function (`loop_variable`).
- `FileIsPayload`, `AllHeardMeansAllRows`: two computations of the padding, three
  truncations and two ways to count agree, for options that fit the frames (`Fits`).
- `ClockAgrees`, `AnswersMatchClock`: a correction is right modulo the wrap of both
  clocks, however late, and is applied to the clock it was computed for, until the
  token has come round: an answer as late as that is taken for a new one.
- `SetUpBeforeUse`: the globals (`storage.DB`, `as.DeviceClient`,
  `eventhandler.Get`) are set when a call or a deployment uses them. Only the order of
  the tasks ensures it.
- `EverythingKnownIsStored`, `StatusListsAllDevices`: crashes, rollbacks and commits
  that fail leave no id or group without its row, and no row without its devices.
- `ImplementsService`: of two tables that are written one row at a time and read by two
  queries without a transaction, anybody sees a deployment whole or not at all, as if
  `CreateDeployment` and `GetDeploymentStatus` each happened at one instant; and no
  deployment is started twice, or after a commit that returned an error.
- `UpdatesAnswered`: whatever starts comes to wait for a line of input with every
  listed firmware answered, or goes down, or `main` waits in `grpc.Dial` for an API that
  is configured to be elsewhere (`DialsInVain`), which does happen and which nothing in
  the code prevents. There is no other way to get stuck: not between `main`, the API
  and the tasks it comes after, nor between a firmware's answer and its deployment.

Bounds, and why they are enough. Two devices: the properties relate one device to
another (one done, one late) or one to the deployment. Two handlers: each race is
between two goroutines, of one device or of two. One attempt lets a step be left
both ways; two add the repeated request, the answer to the first attempt in the
second, and a message left over. Class C with status and class B without together
take every step. `Handlers` bounds goroutines that are alive at once, not
uplinks: a slot is reused, but one stuck at `publish` stays taken. The two-device runs
leave out some failures (`FewFailures`): they do not go on after a lost result or
after `Run` has failed, nor from an enqueue that left gaps, and follow an unsent request
only as an unanswered one, to which it is equivalent for `Run`. In the status step they
handle one answer at a time (`OneAnswerInStatusStep`), in all others and after `Run` has
returned any two at once. `one_device`,
with two handlers of the same device, and the proofs have no such bound. In
`SessionWindow`, `Horizon` covers all attempts, the window and the delays of up to a
session in between. In `Fleet`, two
deployments and two uplinks make every confusion of two; one device is in both, in
one or in none of them. In `Fragmentation` the limits of all three fields lie inside
the options, so that options fit, just fit and do not. In `ClockSync` the times 6 to
8 reach the wrap at 8, any clock of the device comes before it, and three requests with
two tokens make a repeated answer that is older than a correction, or older than a
round of tokens. In `Server` a firmware of
the process and a client make two calls at once, of which one may be cut off by the
crash and come back; with three ids none is taken twice. The proofs have none of
these bounds. Symmetry is used in safety runs only. Deadlock is not checked: `Run`
returns, processes are started a bounded number of times, and the last state of a run
is one in which nothing is left to do.

Fairness. `Run`'s calls and timers return and the Go scheduler runs every
goroutine that can run, hence `WF(RunStep)` and `WF(HandlerStep(h))` in
`Deployment`, `WF(Step(r))` in `EventHandler` and `WF(HandlerStep(r))` in `Fleet`.
In `Server`, `Execute`, `Main`, `Panic` and each call of the API are fair: its calls
are answered with a result or an error. Nothing is assumed of devices, the network,
signals, the standard input, crashes or restarts, nor that a deployment ever ends in
`Fleet` or `Server`. `SessionWindow`, `Fragmentation` and `ClockSync` have safety
properties only.

## 4. The proofs

All for any set of devices, handlers, deployments and uplinks, any attempt count
and any timeouts.

`DeploymentProofs`. The properties are not inductive on their own: a
`RowsKeepResults`-like claim about a handler's row copy, for one, depends on what
the handler will write. `IInv` adds what each program counter of a handler knows
(that its device did the stage, that the flag is set, that its copy of the row is
covered by the flags, that the devices it has passed in the done loop were done if
they were enrolled), and how `requested` and the flags follow `stage`. The proof
has one lemma for the steps of `Run`, one for the arrival of an answer and one for
the steps of a handler; `FollowsFacts` and `StageFacts` are the order of the
stages. It gives `TypeCorrect`, `KnowledgeIsSound`, `PipelineIsOrdered`,
`DoneIsTrueForEnrolled` and `RowsFollowRun`. The key argument for the fourth:
`enrolled` is fixed when the step begins, flags only ever become true, and a
handler that found a participant undone does not publish; so whoever reaches
`publish` for this stage, in whatever attempt, has seen every enrolled device done.

`DeploymentRefinesRollout` maps `opened` to the columns up to `stage`, `ended` to
the return of `Run` and `confirmed` to the flags, and shows from `IInv` that every
step is a step of `Rollout` or a stutter.

`SessionWindowProofs` has both group classes and no assumption on the timeouts but for
the last theorem. Its invariant bounds every queued or accepted session by the
*latest* window, plus `Overrun`: windows only move forward, since the clock does, and a
device's window is that of some earlier attempt. `EnqueueMeetsSessions` bounds from the other
side, for a prompt `Run`: attempt k begins exactly `(k - 1) * UnicastTimeout` after
the first, so that no session starts before the first one, and the last enqueue is
before its end if `SessionOutlastsRetries` (a session is longer than all retries but
the first).

`EventHandlerProofs` shows that what a loop has started and has left is the map.

`FleetProofs` builds on it: the steps of `Fleet` are steps of `EventHandler` or leave
it alone. `AnswersOwn` says that a flag was set by an uplink of a call that has it
still; the case that matters is the call of a function for an uplink to *another*
deployment, where the test passes only if device and id are common, which
`IdsSeparate` excludes. What the shared loop variable holds does not matter.

`ServerProofs`: none of the three properties is inductive. `TasksInv` ties the tasks
to the process, and `TasksFacts` that the API is the last of them; `UseInv` says that
calls, deployments and queries exist only when all are done, since each begins at the
API and a crash ends them all. `StoredInv` has what every point of a call may rely
on: after a commit its id is stored, a deployment that was started is stored, and a
stored deployment has all its devices, because only `Commit` stores and it stores
both. The proof goes by process steps, panics, call steps, deployments and queries.

It also counts: `ServerTypeOK` needs that `NewV4` finds an id. Each call uses one at
most, clients call once and C2's firmwares once in each life of the process, so that
the ids in use and the calls that may still come (`UsedIds`, `Remaining`) are never
more than `starts * Cardinality(Firmwares) + Cardinality(Clients)`; a crash gives the
calls of the firmwares back, and `starts` goes up by one for it. That there are as
many ids as that is the assumption on `Ids`: a UUID is never used twice.

`ServerRefinesService` maps `pending` to the ids of calls that have committed, and a
status to its first query. The steps need `IdsInv`: two calls never share an id, an id
is in no table before its commit, and `Run` is started between the commit and the
reply. So a commit is `Create`, `StartRun` takes from `pending` what nobody puts back,
and the second query is invisible, because no other commit touches the rows of the
deployment it reads.

`DeploymentRaceProofs` says what makes the two properties fail that are false in
general. `RowsKept` proves `RowsKeepResults` for any number of devices answering at
once, from `OneUplinkPerDevice`: with no two uplinks of one device handled at a time,
the copy a handler will write is what the row has plus its own stage
(`RowCopiesFresh`). This is a condition on every state of a behaviour, not a fact of the
code: nothing orders the goroutines of `ServeHTTP`, and `lost_update` is what happens
without it. `OnlyLateAnswers` has no condition. It takes every step of the deployment
in turn and shows that what a done loop has seen stays true, or that the step is
`SetDeviceState` of another goroutine for a stage that the loop's own stage needs:
steps of `Run` and arriving uplinks touch neither flags nor loops, a flag of the loop's own stage
only helps, and the loop itself moves on only past a device that is done or takes no
part.

`FragmentationProofs` is arithmetic first: the padding fills the last row
(`PaddingFillsRow`), so the padded payload is a whole number of rows, byte p is byte
`(p - 1) % s` of row `(p - 1) \div s`, counted from zero (`ByteOfRow`). When the
options fit (`Fits`), the truncations change nothing. `IInv` then says of every
fragment under way, and of every one a device has, that it is the row of its number.
`AllHeardMeansAllRows` needs the frames too: the frame counter is the number of the
fragment less one and frames are sent in the order of their counters, so a device that
refuses counters it has passed refuses no row it lacks.

`ClockSyncProofs` treats clocks as numbers modulo `Modulus` (`SameClock`). `IInv` says
that an uplink holds the device's clock of when it was received, and an answer the
correction from the clock of its generation to network time, up to its allowed error;
both stay true under `Tick` since both clocks go at one rate. That the device applies
an answer to the clock it was made for is counting: the token is the number of
corrections modulo `Tokens`, so of two counts less than `Tokens` apart only equal ones
have the same token (`TokenIdentifiesClock`). How many requests a device makes is not
bounded; an answer that is a whole round late is excepted in both properties, by
`lag` in the first. Nothing is assumed of a `time` that does not convert. `Int32` is shown to pick the representative that
the sum needs; the maximum over gateways exists because there are finitely many.

Every safety invariant and safety action property that a run checks is so a theorem,
under the conditions named above; `SuccessMeansAllDevices`, `EveryFunctionIsCalled`,
`ConfigIsServers` and `PublishIsReceived` are false. Only model-checked are the liveness properties
`RunTerminates`, `SoleAnswerCounts`, `UpdatesAnswered` and the fairness part of
`ImplementsRollout`, which are out of the prover's reach.

## 5. The plan

Done, in this order: `FuotaStages`, `Rollout`, `Deployment` with its proofs,
`SessionWindow` and `EventHandler` with theirs; `Fragmentation`, `ClockSync`,
`Fleet` and `Startup`; `Server`; the proofs of `Fleet` and `Server`, and of the prompt
`Run` in `SessionWindow`; the proofs of `Fragmentation` and `ClockSync`, those about
the races of `Deployment`, the types of `Server` and `DeploymentService` with its
refinement. What is left, most useful first:

1. A status reply with its columns: how far a device may be ahead of its deployment
   in a reply, given `RowsFollowSteps` of the rows.
2. An abstract specification of `SessionWindow`: a session of the group as one
   interval, which the attempts only extend.
3. The safety part of `UpdatesAnswered`: a firmware that is not answered has a call in
   progress or a failed one that is about to take the process down.

## 6. What is not modelled

HTTP, gRPC, JSON and protobuf decoding, key derivation, the bytes of commands, TLS and
credentials, logging and `deployment_log`, with `GetDeploymentDeviceLogs` that reads
it; the SQL of the migrations; the values of the configuration and the `configfile`
command; the files of `createBinFile`; `storage/update.go` and the functions of
`websocket.go` that nothing calls; generated code and test doubles. The parity rows of
the fragments and the decoder of a device are in a library and in firmware.

Where a comment says otherwise than the code, beside the runs that are `violation`s:

- The group is not to be deleted before the session has expired (`fuota.go:757-759`),
  and the timeout has another meaning for Class B (`fuota.go:106-107`); the server takes
  2^n seconds for both (`fuota.go:1063`), so a Class-B session is cut off, and asked for
  its status, by `Overrun` too early. The properties of `SessionWindow` allow exactly
  that. A constant offset needs no interleaving to be seen and has no run of its own.
- The server's time is for when the time field is not available (`clocksync.go:48`);
  a time field that does not convert is used all the same (`clocksync.go:38-42`).

Seen while modelling, and stated by no property, since no doc, comment or test that
we found says otherwise:

- Errors of the multicast enqueue are overwritten (`fuota.go:1322`); the deployment
  is recorded as enqueued all the same.
- FragSize 0 and payloads that do not fit their fields are not refused
  (`fuota.go:933`, `967`; `fuota_server.go:33`).
- An API that listens elsewhere than on port 8070, or with TLS, keeps `main` waiting for
  ever (`websocket.go:64-69`, `api.go:31-44`).
- The C2 client gives all its deployments the same ids (`websocket.go:237-245`), so
  that firmwares with a common device do not satisfy `IdsSeparate`.
- Deployments are not resumed after a restart, and C2's are requested again.
- A signal ends one goroutine only, and the end of the standard input ends the process
  (`root_run.go:38`, `main.go:68`).
- `multicast_ping_slot_period` is never copied from the request
  (`fuota_server.go:30`), and `FPort` is compared after a truncation to 8 bits
  (`eventhandler.go:141`).
- `stepFragSessionStatus` logs requests whose enqueue failed (`fuota.go:1412`).
