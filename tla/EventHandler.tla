----------------------------- MODULE EventHandler -----------------------------
(***************************************************************************)
(* The registry of uplink functions (internal/eventhandler).  Run of every *)
(* deployment registers its HandleUplinkEvent and unregisters it when it   *)
(* returns; ServeHTTP is called, in a goroutine of net/http, for each      *)
(* event the network server posts, and starts one goroutine per registered *)
(* function.                                                               *)
(*                                                                         *)
(* The read lock is held for the whole of ServeHTTP's loop, the write lock *)
(* for one map operation, which is therefore a single step.                *)
(*                                                                         *)
(* The module is built as Go 1.15 (go.mod), where `for id, f := range` has *)
(* ONE variable f for all iterations.  The goroutines read it when they    *)
(* run, without synchronisation: they see the value it had when they were  *)
(* started, or any later one.                                              *)
(***************************************************************************)
EXTENDS FiniteSets

CONSTANTS
  Deployments,  \* the ids of the deployments that may be run
  NoFunc,       \* the value of f before the first iteration
  Requests      \* BOUND: the uplink events posted

\* What is recorded of a goroutine that has called nothing yet.
NotStarted == "not started"
Ready      == "ready"

ASSUME EventHandlerAssumption ==
  /\ {NoFunc, NotStarted, Ready} \cap Deployments = {}
  /\ NoFunc \notin {NotStarted, Ready}

VARIABLES
  running,        \* where the Run of each deployment is
  eventHandlers,  \* h.eventHandlers: the ids with a registered function
  serve,          \* where each ServeHTTP call is
  left,           \* the ids its loop has not visited
  f,              \* its loop variable, shared with the goroutines it started
  goroutine       \* per call and iteration: the function its goroutine called

vars == <<running, eventHandlers, serve, left, f, goroutine>>

TypeOK ==
  /\ running \in [Deployments -> {"new", "running", "returned"}]
  /\ eventHandlers \in SUBSET Deployments
  /\ serve \in [Requests -> {"posted", "loop", "returned"}]
  /\ left \in [Requests -> SUBSET Deployments]
  /\ f \in [Requests -> Deployments \cup {NoFunc}]
  /\ goroutine \in [Requests -> [Deployments -> Deployments \cup {NotStarted, Ready}]]

Init ==
  /\ running = [id \in Deployments |-> "new"]
  /\ eventHandlers = {}
  /\ serve = [r \in Requests |-> "posted"]
  /\ left = [r \in Requests |-> {}]
  /\ f = [r \in Requests |-> NoFunc]
  /\ goroutine = [r \in Requests |-> [id \in Deployments |-> NotStarted]]

NoLock == TRUE
\* h.Lock() succeeds when no ServeHTTP holds the read lock.
LockAvailable == \A r \in Requests : serve[r] # "loop"

\* The first statement of Run.
RegisterUplinkEventFunc(id) ==
  /\ running[id] = "new"
  /\ LockAvailable
  /\ running' = [running EXCEPT ![id] = "running"]
  /\ eventHandlers' = eventHandlers \cup {id}
  /\ UNCHANGED <<serve, left, f, goroutine>>

\* The deferred call of Run.
UnregisterUplinkEventFunc(id) ==
  /\ running[id] = "running"
  /\ LockAvailable
  /\ running' = [running EXCEPT ![id] = "returned"]
  /\ eventHandlers' = eventHandlers \ {id}
  /\ UNCHANGED <<serve, left, f, goroutine>>

\* h.RLock(), then the loop over the registered functions.
ServeHTTP(r) ==
  /\ serve[r] = "posted"
  /\ serve' = [serve EXCEPT ![r] = "loop"]
  /\ left' = [left EXCEPT ![r] = eventHandlers]
  /\ UNCHANGED <<running, eventHandlers, f, goroutine>>

LoopVarShadowed(r, id) == f[r]
\* The value the range clause assigns to f in iteration id.
LoopVar(r, id) == id

\* One iteration: the loop variable moves on and a goroutine is started.
StartGoroutine(r, id) ==
  /\ serve[r] = "loop"
  /\ id \in left[r]
  /\ f' = [f EXCEPT ![r] = LoopVar(r, id)]
  /\ goroutine' = [goroutine EXCEPT ![r][id] = Ready]
  /\ left' = [left EXCEPT ![r] = @ \ {id}]
  /\ UNCHANGED <<running, eventHandlers, serve>>

\* The deferred h.RUnlock().  Requests for other events, on the clock-sync port
\* or with a bad body return without a loop.
ReturnFromServeHTTP(r) ==
  /\ \/ serve[r] = "loop" /\ left[r] = {}
     \/ serve[r] = "posted"
  /\ serve' = [serve EXCEPT ![r] = "returned"]
  /\ UNCHANGED <<running, eventHandlers, left, f, goroutine>>

\* `f(context.Background(), pl)` in the goroutine of iteration id.
Call(r, id) ==
  /\ goroutine[r][id] = Ready
  /\ goroutine' = [goroutine EXCEPT ![r][id] = f[r]]
  /\ UNCHANGED <<running, eventHandlers, serve, left, f>>

Step(r) == \/ ServeHTTP(r)
           \/ ReturnFromServeHTTP(r)
           \/ \E id \in Deployments : StartGoroutine(r, id) \/ Call(r, id)

Next ==
  \/ \E id \in Deployments : RegisterUplinkEventFunc(id) \/ UnregisterUplinkEventFunc(id)
  \/ \E r \in Requests : Step(r)

\* Goroutines that can run do; a deployment may run forever.
Fairness == \A r \in Requests : WF_vars(Step(r))

Spec == Init /\ [][Next]_vars /\ Fairness

-----------------------------------------------------------------------------
(* Correctness.                                                            *)

Started(r) == {id \in Deployments : goroutine[r][id] # NotStarted}

\* The map does not change under the loop that ranges over it: what the loop has
\* visited and what it has left is what is registered.
RegistryStable ==
  \A r \in Requests : serve[r] = "loop" => Started(r) \cup left[r] = eventHandlers

\* `Multiple functions can be registered simultaneously` (eventhandler.go:93):
\* an uplink is handed to each function registered when it arrived.
EveryFunctionIsCalled ==
  \A r \in Requests, id \in Deployments :
    id \in Started(r) ~> \E i \in Deployments : goroutine[r][i] = id
=============================================================================
