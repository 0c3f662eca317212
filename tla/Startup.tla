------------------------------- MODULE Startup -------------------------------
(***************************************************************************)
(* The process of the server: main (main.go, internal/api/websocket.go)     *)
(* connects to C2 and asks for a deployment per firmware, while a goroutine *)
(* runs cmd.Execute (cmd/root.go, cmd/root_run.go), which reads the         *)
(* configuration and sets up the parts of the server.  Both read files      *)
(* through the one global viper.                                            *)
(*                                                                          *)
(* Files are known by their roles: "server" is chirpstack-fuota-server.toml *)
(* (or the file of --config), "boot" and "runtime" are the C2 files         *)
(* c2int_boot_config.toml and c2int_runtime_config.toml.  Keys are only in  *)
(* the file in which the code looks for them.                               *)
(***************************************************************************)
EXTENDS Naturals, Sequences

CONSTANTS
  Files,      \* the files that exist
  Firmwares,  \* the firmware versions C2 may list
  MaxStarts   \* BOUND: how often the process is started

ASSUME StartupAssumption ==
  /\ Files \subseteq {"boot", "server", "runtime"}
  /\ MaxStarts \in Nat

VARIABLES
  process,   \* "up" or "down"
  starts,    \* how often it was started
  viper,     \* the configName and the values (config) of the global viper
  config,    \* the file that config.C is built from
  bind,      \* where its fuota_server.api has the API listen, see Binds
  exec,      \* pc of the goroutine of Execute
  taskDone,  \* how many of the Tasks are done
  main,      \* pc of the goroutine of main
  getter,    \* how many getC2... functions of InitWSConnection have returned
  listed,    \* firmwares that handleMessage has still to handle
  updating   \* firmwares whose goroutine UpdateFirmware was started

startupVars ==
  <<process, starts, viper, config, bind, exec, taskDone, main, getter, listed, updating>>

\* On the port that main dials and without TLS, or on another one or with TLS.
Binds == {"asDialled", "elsewhere"}

TasksApiFirst == <<"storage", "api", "as", "eventhandler">>
\* The tasks of run that have an effect, in its order.
Tasks == <<"storage", "as", "eventhandler", "api">>

SetUp == {Tasks[i] : i \in 1..taskDone}

Init ==
  /\ process = "down"
  /\ starts = 0
  /\ viper = [name |-> "boot", values |-> "boot"]
  /\ config = "none"
  /\ bind = "none"
  /\ exec = "ended"
  /\ taskDone = 0
  /\ main = "ended"
  /\ getter = 0
  /\ listed = {}
  /\ updating = {}

\* The process ends: log.Fatal, panic, or main returns.
Exit ==
  /\ process' = "down"
  /\ starts' = starts
  /\ viper' = [name |-> "boot", values |-> "boot"]
  /\ config' = "none"
  /\ bind' = "none"
  /\ exec' = "ended"
  /\ taskDone' = 0
  /\ main' = "ended"
  /\ getter' = 0
  /\ listed' = {}
  /\ updating' = {}

\* Package initialisation reads the boot file for the defaults of the AS client
\* (getChirpstackServer, getChirpstackToken); main starts Execute and goes on.
\* With --config Execute reads that file without setting a name.
Start ==
  /\ process = "down"
  /\ starts < MaxStarts
  /\ "boot" \in Files
  /\ process' = "up"
  /\ starts' = starts + 1
  /\ viper' = [name |-> "boot", values |-> "boot"]
  /\ config' = "none"
  /\ bind' = "none"
  /\ exec' \in {"setName", "readConfig"}
  /\ taskDone' = 0
  /\ main' = "setName"
  /\ getter' = 0
  /\ listed' = {}
  /\ updating' = {}

-----------------------------------------------------------------------------
(* The goroutine of Execute.                                               *)

InitConfigSetName ==
  /\ exec = "setName"
  /\ exec' = "readInConfig"
  /\ viper' = [viper EXCEPT !.name = "server"]
  /\ UNCHANGED <<process, starts, config, bind, taskDone, main, getter, listed, updating>>

\* A file that does not exist is not an error: viper keeps the values it has.
InitConfigRead ==
  /\ exec = "readInConfig"
  /\ exec' = "unmarshal"
  /\ viper' = [viper EXCEPT !.values = IF viper.name \in Files THEN viper.name ELSE @]
  /\ UNCHANGED <<process, starts, config, bind, taskDone, main, getter, listed, updating>>

\* The file of --config must be there.
InitConfigReadFlag ==
  /\ exec = "readConfig"
  /\ IF "server" \in Files
       THEN /\ exec' = "unmarshal"
            /\ viper' = [viper EXCEPT !.values = "server"]
            /\ UNCHANGED <<process, starts, config, bind, taskDone, main, getter, listed, updating>>
       ELSE Exit

\* The keys of the API may come from that file, from the environment or from
\* the defaults of root.go.
InitConfigUnmarshal ==
  /\ exec = "unmarshal"
  /\ exec' = "tasks"
  /\ config' = viper.values
  /\ bind' \in Binds
  /\ UNCHANGED <<process, starts, viper, taskDone, main, getter, listed, updating>>

\* Task t of run, when its turn has come; the error of a task is fatal.
DoTask(t) ==
  /\ exec = "tasks"
  /\ taskDone < Len(Tasks)
  /\ t = Tasks[taskDone + 1]
  /\ \/ /\ taskDone' = taskDone + 1
        /\ UNCHANGED <<process, starts, viper, config, bind, exec, main, getter, listed, updating>>
     \/ Exit

\* Pings until the database answers; then the migrations must succeed.
SetupStorage == DoTask("storage")

\* The dial blocks for a second at most.
SetupApplicationServerClient == DoTask("as")

\* That its HTTP server cannot listen is logged, and no error of the task.
SetupEventHandler == DoTask("eventhandler")

SetupAPI == DoTask("api")

\* run returns and Execute with it: only this goroutine ends.
Signal ==
  /\ exec = "tasks"
  /\ taskDone = Len(Tasks)
  /\ exec' = "stopped"
  /\ UNCHANGED <<process, starts, viper, config, bind, taskDone, main, getter, listed, updating>>

Execute ==
  \/ InitConfigSetName \/ InitConfigRead \/ InitConfigReadFlag
  \/ InitConfigUnmarshal
  \/ SetupStorage \/ SetupApplicationServerClient \/ SetupEventHandler \/ SetupAPI

-----------------------------------------------------------------------------
(* The goroutine of main.                                                  *)

\* getC2Username, getC2Password and getC2serverUrl, then getApplicationId.
GetterFile == IF getter < 3 THEN "boot" ELSE "runtime"

GetterSetName ==
  /\ main = "setName"
  /\ main' = "readInConfig"
  /\ viper' = [viper EXCEPT !.name = GetterFile]
  /\ UNCHANGED <<process, starts, config, bind, exec, taskDone, getter, listed, updating>>

\* Here a file that does not exist is fatal.
GetterRead ==
  /\ main = "readInConfig"
  /\ IF viper.name \in Files
       THEN /\ viper' = [viper EXCEPT !.values = viper.name]
            /\ main' = "get"
            /\ UNCHANGED <<process, starts, config, bind, exec, taskDone, getter, listed, updating>>
       ELSE Exit

\* InitWSConnection gets its next value.
GetC2Value ==
  /\ main = "get"
  /\ GetterFile = "boot"
  /\ getter' = getter + 1
  /\ main' = IF getter' < 3 THEN "setName" ELSE "dialC2"
  /\ UNCHANGED <<process, starts, viper, config, bind, exec, taskDone, listed, updating>>

\* handleMessage: createBinFile and createDeploymentRequest for one firmware.
CreateDeploymentRequest(f) ==
  /\ main = "get"
  /\ GetterFile = "runtime"
  /\ f \in listed
  /\ listed' = listed \ {f}
  /\ updating' = updating \cup {f}
  /\ main' = IF listed' = {} THEN "scanln" ELSE "setName"
  /\ UNCHANGED <<process, starts, viper, config, bind, exec, taskDone, getter>>

\* A value that is not in the values that viper has now is fatal.
GetString ==
  IF viper.values = GetterFile
    THEN GetC2Value \/ \E f \in Firmwares : CreateDeploymentRequest(f)
    ELSE main = "get" /\ Exit

InitWSConnection ==
  /\ main = "dialC2"
  /\ main' = "dialAPI"
  /\ UNCHANGED <<process, starts, viper, config, bind, exec, taskDone, getter, listed, updating>>

DialReaches == "api" \in SetUp /\ bind = "asDialled"

\* grpc.Dial WithBlock, to localhost:8070 and WithInsecure whatever the API is
\* configured to be: it comes back once the API listens there, if it ever does.
InitGrpcConnection ==
  /\ main = "dialAPI"
  /\ DialReaches
  /\ main' = "checkForFirmwareUpdate"
  /\ UNCHANGED <<process, starts, viper, config, bind, exec, taskDone, getter, listed, updating>>

\* A list that is not JSON is no list.
CheckForFirmwareUpdate ==
  /\ main = "checkForFirmwareUpdate"
  /\ listed' \in SUBSET Firmwares
  /\ main' = IF listed' = {} THEN "scanln" ELSE "setName"
  /\ UNCHANGED <<process, starts, viper, config, bind, exec, taskDone, getter, updating>>

\* A line or the end of the standard input: main returns, whatever runs.
Scanln == main = "scanln" /\ Exit

Main ==
  \/ GetterSetName \/ GetterRead \/ GetString
  \/ InitWSConnection \/ InitGrpcConnection \/ CheckForFirmwareUpdate

\* A call that can fail and is fatal, two goroutines in one map of viper
\* (viperBindEnvs), or a kill: at any time.
Fatal == process = "up" /\ Exit

Next == Start \/ Execute \/ Signal \/ Main \/ Scanln \/ Fatal

\* Calls return, the database and the network server answer in the end; whether
\* a line is typed or a signal comes is open.
Spec ==
  /\ Init
  /\ [][Next]_startupVars
  /\ WF_startupVars(Execute)
  /\ WF_startupVars(Main)

-----------------------------------------------------------------------------
(* Correctness.                                                            *)

\* The configuration of the server is its own file, when that exists
\* (README.md:82-83); root.go:72 reads it through the viper that main uses too.
ConfigIsServers == "server" \in Files => config \in {"none", "server"}
=============================================================================
