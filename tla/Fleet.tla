-------------------------------- MODULE Fleet --------------------------------
(***************************************************************************)
(* Several deployments behind one event handler: EventHandler, with the    *)
(* answers that the uplinks carry and the test by which HandleUplinkEvent  *)
(* of each deployment takes an answer for its own (internal/fuota).  What  *)
(* a deployment asks and when is the subject of module Deployment; here it *)
(* may have asked for anything once it runs.                               *)
(*                                                                         *)
(* An answer names its device and ONE id, the multicast-group or the       *)
(* fragmentation-session index, but not the deployment it answers.         *)
(***************************************************************************)
EXTENDS EventHandler

CONSTANTS
  Devices,   \* the devices of all deployments
  GroupIDs,  \* the values of MulticastGroupID
  Indexes,   \* the values of FragmentationSessionIndex
  NoUplink   \* the content of a call before its uplink has come in

VARIABLES
  opts,    \* per deployment, the options that matter here
  uplink,  \* per ServeHTTP call, the exchange that its uplink answers
  flags    \* the exchanges that deployments take for completed

fleetVars == <<opts, uplink, flags>>

Options == [Devices : SUBSET Devices, McGroupID : GroupIDs, FragIndex : Indexes]

\* The ids that answers carry.
Kinds == {"McGroupID", "FragIndex"}

\* A request of deployment `from` to a device, and its answer.
Exchanges == [from : Deployments, dev : Devices, kind : Kinds]

ASSUME FleetAssumption == NoUplink \notin Exchanges

\* Deployments with a common device differ in both ids: the operator sees to it,
\* the server does not check.
IdsSeparate(o) ==
  \A p, q \in Deployments :
    p # q /\ o[p].Devices \cap o[q].Devices # {}
      => \A kind \in Kinds : o[p][kind] # o[q][kind]

FleetInit ==
  /\ Init
  /\ opts \in {o \in [Deployments -> Options] : IdsSeparate(o)}
  /\ uplink = [r \in Requests |-> NoUplink]
  /\ flags = {}

\* The network server posts the uplink in which a device answers a deployment
\* that runs or has run: early or late, once or more often.
ReceiveAnswer(r, e) ==
  /\ running[e.from] # "new"
  /\ e.dev \in opts[e.from].Devices
  /\ ServeHTTP(r)
  /\ uplink' = [uplink EXCEPT ![r] = e]
  /\ UNCHANGED <<opts, flags>>

AcceptsAnyId(p, u) == u.dev \in opts[p].Devices
\* The device is one of the deployment's, and the id in the answer is its id.
Accepts(p, u) == u.dev \in opts[p].Devices /\ opts[u.from][u.kind] = opts[p][u.kind]

\* The goroutine of iteration id calls HandleUplinkEvent of the deployment in f;
\* there is one, since the loop has assigned f before it starts a goroutine.
HandleUplinkEvent(r, id) ==
  /\ Call(r, id)
  /\ flags' = IF f[r] # NoFunc /\ Accepts(f[r], uplink[r])
                THEN flags \cup {[uplink[r] EXCEPT !.from = f[r]]}
                ELSE flags
  /\ UNCHANGED <<opts, uplink>>

\* Run begins or returns.
RunStep(id) ==
  /\ RegisterUplinkEventFunc(id) \/ UnregisterUplinkEventFunc(id)
  /\ UNCHANGED fleetVars

HandlerStep(r) ==
  \/ \E e \in Exchanges : ReceiveAnswer(r, e)
  \/ ReturnFromServeHTTP(r) /\ UNCHANGED fleetVars
  \/ \E id \in Deployments : \/ StartGoroutine(r, id) /\ UNCHANGED fleetVars
                             \/ HandleUplinkEvent(r, id)

FleetNext ==
  \/ \E id \in Deployments : RunStep(id)
  \/ \E r \in Requests : HandlerStep(r)

allVars == <<vars, fleetVars>>

FleetSpec ==
  /\ FleetInit
  /\ [][FleetNext]_allVars
  /\ \A r \in Requests : WF_allVars(HandlerStep(r))

-----------------------------------------------------------------------------
(* Correctness.                                                            *)

FleetTypeOK ==
  /\ TypeOK
  /\ opts \in [Deployments -> Options]
  /\ uplink \in [Requests -> Exchanges \cup {NoUplink}]
  /\ flags \in SUBSET Exchanges

\* A deployment takes a stage of a device for done only when an answer of this
\* device to THIS deployment has come in, though every uplink is handed to all
\* deployments and to some of them twice (eventhandler.go:152-158).  It needs
\* deployments with a common device to differ in both ids.
NoCrossTalk == flags \subseteq {uplink[r] : r \in Requests}

\* An answer that comes in while its deployment is the only one is not lost in
\* the event handler, even when the deployment returns in the meantime.
SoleAnswerCounts ==
  \A r \in Requests :
    serve[r] = "returned" /\ uplink[r] # NoUplink /\ Started(r) = {uplink[r].from}
      ~> uplink[r] \in flags
=============================================================================
