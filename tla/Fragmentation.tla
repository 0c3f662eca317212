---------------------------- MODULE Fragmentation ----------------------------
(***************************************************************************)
(* From the payload of a request to the file of a device: the options that *)
(* CreateDeployment copies (internal/api/fuota_server.go), the session     *)
(* that stepFragmentationSessionSetup announces, the fragments that        *)
(* stepEnqueue sends (internal/fuota/fuota.go), and the file that a device *)
(* puts together, with fields of the width that the frames have.           *)
(*                                                                         *)
(* Bytes are the numbers of their position, and 0 is a byte of padding.    *)
(***************************************************************************)
EXTENDS Integers, Sequences

CONSTANTS
  Uint8,           \* 2^8: the values of FragSize, Padding and an option of type uint8
  Uint16,          \* 2^16: the values of NbFrag
  IndexN,          \* 2^14: the values of N in a data fragment
  GroupIDs,        \* 4: the groups of McGroupBitMask
  Lengths,         \* BOUND: the lengths of a payload
  FragSizes,       \* BOUND: FragmentationFragmentSize
  Redundancies,    \* BOUND: FragmentationRedundancy
  MulticastGroups  \* BOUND: MulticastGroupId

ASSUME FragmentationAssumption ==
  /\ {Uint8, Uint16, IndexN, GroupIDs} \subseteq Nat \ {0}
  /\ Lengths \subseteq Nat \ {0}
  /\ FragSizes \cup Redundancies \cup MulticastGroups \subseteq Nat

VARIABLES
  pc,         \* where Run is
  opts,       \* d.opts
  announced,  \* the payload of FragSessionSetupReq
  fragments,  \* the fragments of stepEnqueue
  next,       \* how many of them its loop has passed to the network server
  queue,      \* the multicast queue of the network server
  session,    \* the session that the device has set up, or NoSession
  received,   \* the fragments it has received, one per number
  fCnt,       \* the next frame counter it accepts
  missed      \* history: a fragment was refused or lost

runVars    == <<pc, opts, announced, fragments, next>>
deviceVars == <<session, received, fCnt>>
vars       == <<runVars, queue, deviceVars, missed>>

NoSession == [nbFrag |-> 0, fragSize |-> 0, padding |-> 0, group |-> FALSE]

-----------------------------------------------------------------------------
(* The arithmetic of the two steps.                                        *)

\* `padding := (FragSize - (len(Payload) % FragSize)) % FragSize`
Padding(length, fragSize) == (fragSize - (length % fragSize)) % fragSize

PaddedPayload(o) ==
  [i \in 1..(o.length + Padding(o.length, o.fragSize)) |-> IF i <= o.length THEN i ELSE 0]

Untruncated(n, width) == n
\* uint8(n), uint16(n)
Truncate(n, width) == n % width

SessionWithoutPadding(o) ==
  [nbFrag |-> o.length \div o.fragSize, fragSize |-> o.fragSize,
   padding |-> Padding(o.length, o.fragSize), group |-> o.groupID < GroupIDs]
\* FragSessionSetupReq.
SessionOf(o) ==
  LET padding == Padding(o.length, o.fragSize)
  IN  [nbFrag   |-> Truncate((o.length + padding) \div o.fragSize, Uint16),
       fragSize |-> Truncate(o.fragSize, Uint8),
       padding  |-> Truncate(padding, Uint8),
       group    |-> o.groupID \in 0..(GroupIDs - 1)]

\* fragmentation.Encode: the rows of the data, then the parity rows, which are
\* marked by an empty sequence.
Encode(data, fragSize, redundancy) ==
  [i \in 1..((Len(data) \div fragSize) + redundancy) |->
     IF i * fragSize <= Len(data)
       THEN [j \in 1..fragSize |-> data[((i - 1) * fragSize) + j]]
     ELSE <<>>]

FragmentNumberFromZero(i) == (i - 1) % IndexN
\* `N: uint16(i + 1)`, of which the frame carries 14 bits; i counts from 1 here.
FragmentNumber(i) == i % IndexN

\* `FCnt: uint32(i)`
FrameCounter(i) == i - 1

-----------------------------------------------------------------------------
(* The request: any payload and any options.                                *)

Init ==
  /\ pc = "setup"
  /\ \E length \in Lengths, fragSize \in FragSizes, redundancy \in Redundancies,
        groupID \in MulticastGroups :
       opts = [length |-> length, fragSize |-> fragSize, redundancy |-> redundancy,
               groupID |-> Truncate(groupID, Uint8)]
  /\ announced = NoSession
  /\ fragments = <<>>
  /\ next = 0
  /\ queue = {}
  /\ session = NoSession
  /\ received = {}
  /\ fCnt = 0
  /\ missed = FALSE

\* stepFragmentationSessionSetup.  FragSize 0 divides by zero.
SessionSetup ==
  /\ pc = "setup"
  /\ IF opts.fragSize = 0
       THEN pc' = "panic" /\ UNCHANGED announced
       ELSE pc' = "announced" /\ announced' = SessionOf(opts)
  /\ UNCHANGED <<opts, fragments, next, queue, deviceVars, missed>>

\* stepEnqueue up to its loop, when the session step is over.
FragmentPayload ==
  /\ pc = "announced"
  /\ fragments' = Encode(PaddedPayload(opts), opts.fragSize, opts.redundancy)
  /\ pc' = "enqueue"
  /\ UNCHANGED <<opts, announced, next, queue, deviceVars, missed>>

\* One iteration of the loop that enqueues: its error is not looked at.
Enqueue ==
  /\ pc = "enqueue"
  /\ next < Len(fragments)
  /\ next' = next + 1
  /\ \/ /\ queue' = queue \cup {[fCnt |-> FrameCounter(next'), n |-> FragmentNumber(next'),
                                data |-> fragments[next']]}
        /\ UNCHANGED missed
     \/ missed' = TRUE /\ UNCHANGED queue
  /\ UNCHANGED <<pc, opts, announced, fragments, deviceVars>>

EnqueueCompleted ==
  /\ pc = "enqueue"
  /\ next = Len(fragments)
  /\ pc' = "completed"
  /\ UNCHANGED <<opts, announced, fragments, next, queue, deviceVars, missed>>

-----------------------------------------------------------------------------
(* The network server and one device.                                       *)

\* The device carries out a FragSessionSetupReq, when it gets one: before the
\* fragments, between them or never.
SetUpSession ==
  /\ announced # NoSession
  /\ session = NoSession
  /\ session' = announced
  /\ UNCHANGED <<runVars, queue, received, fCnt, missed>>

Accepts(f) == session # NoSession /\ session.group /\ f.fCnt >= fCnt

\* The next frame of the multicast queue is sent.  The device may not hear it,
\* and takes no frame whose counter it has passed.
Transmit(f) ==
  /\ f \in queue
  /\ \A g \in queue : f.fCnt <= g.fCnt
  /\ queue' = queue \ {f}
  /\ \/ /\ Accepts(f)
        /\ received' = {g \in received : g.n # f.n} \cup {[n |-> f.n, data |-> f.data]}
        /\ fCnt' = f.fCnt + 1
        /\ UNCHANGED missed
     \/ UNCHANGED <<received, fCnt, missed>> /\ session # NoSession /\ ~Accepts(f)
     \/ missed' = TRUE /\ UNCHANGED <<received, fCnt>>
  /\ UNCHANGED <<runVars, session>>

Next ==
  \/ SessionSetup \/ FragmentPayload \/ Enqueue \/ EnqueueCompleted
  \/ SetUpSession
  \/ \E f \in queue : Transmit(f)

Spec == Init /\ [][Next]_vars

-----------------------------------------------------------------------------
(* Correctness.                                                            *)

\* Every field that goes on the air has the width of its place in the frame.
TypeOK ==
  /\ pc \in {"setup", "announced", "enqueue", "completed", "panic"}
  /\ opts.length \in Lengths /\ opts.fragSize \in FragSizes
  /\ opts.redundancy \in Redundancies /\ opts.groupID \in 0..(Uint8 - 1)
  /\ {announced, session} \subseteq
       [nbFrag : 0..(Uint16 - 1), fragSize : 0..(Uint8 - 1), padding : 0..(Uint8 - 1),
        group : BOOLEAN]
  /\ next \in 0..Len(fragments)
  /\ \A f \in queue : f.fCnt \in Nat /\ f.n \in 0..(IndexN - 1)
  /\ \A f \in received : f.n \in 0..(IndexN - 1)
  /\ fCnt \in Nat
  /\ missed \in BOOLEAN

\* The options that the formats of the commands can carry.
Fits ==
  /\ opts.fragSize \in 1..(Uint8 - 1)
  /\ Len(PaddedPayload(opts)) \div opts.fragSize < Uint16
  /\ (Len(PaddedPayload(opts)) \div opts.fragSize) + opts.redundancy < IndexN
  /\ opts.groupID < GroupIDs

HasAllRows == 1..session.nbFrag \subseteq {f.n : f \in received}

Row(i) == (CHOOSE f \in received : f.n = i).data

\* What the device stores: the rows one after the other, without the padding.
File ==
  [p \in 1..(session.nbFrag * session.fragSize - session.padding) |->
     Row(((p - 1) \div session.fragSize) + 1)[((p - 1) % session.fragSize) + 1]]

\* The session is announced in one step and the fragments are cut in another,
\* each with its own arithmetic (fuota.go:933-934, 1292-1293): what a device
\* holds when the announced rows are there is the payload, for options that fit.
FileIsPayload ==
  Fits /\ session # NoSession /\ HasAllRows => File = [i \in 1..opts.length |-> i]

\* A device that has heard every fragment has every row it was told of: numbers
\* and frame counters (fuota.go:1305, 1325) are such that none is taken for
\* another one or refused.
AllHeardMeansAllRows ==
  Fits /\ pc = "completed" /\ queue = {} /\ ~missed /\ session # NoSession => HasAllRows
=============================================================================
