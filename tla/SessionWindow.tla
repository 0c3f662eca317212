---------------------------- MODULE SessionWindow ----------------------------
(***************************************************************************)
(* The clock of a deployment: when the multicast session of each device is *)
(* open, and when Run enqueues the fragments, asks for their status and    *)
(* deletes the group (internal/fuota/fuota.go).                            *)
(*                                                                         *)
(* Every attempt of the session step moves sessionStartTime and            *)
(* sessionEndTime, but a device keeps the window of the last request that  *)
(* it accepted.  Requests wait in the queue of the device, so it may       *)
(* accept one late, or never; its answer may be lost.  A tick is a second. *)
(***************************************************************************)
EXTENDS Naturals

CONSTANTS
  Devices,              \* the devices with a fragmentation-session
  UnicastTimeout,       \* opts.UnicastTimeout
  UnicastAttemptCount,  \* opts.UnicastAttemptCount
  SessionTimeout,       \* what Run takes the session to last: 1 << opts.MulticastTimeout
  ClassBOverrun,        \* by how much longer a Class-B device takes it to last
  Horizon               \* BOUND: the clock stops here

ASSUME SessionWindowAssumption ==
  /\ UnicastTimeout \in Nat
  /\ UnicastAttemptCount \in Nat
  /\ SessionTimeout \in Nat
  /\ ClassBOverrun \in Nat
  /\ Horizon \in Nat

VARIABLES
  groupType,         \* opts.MulticastGroupType
  statusRequest,     \* opts.RequestFragmentationSessionStatus
  prompt,            \* TRUE: Run, its calls and its timers are never late
  now,               \* time.Now()
  pc,                \* where Run is
  attempt,           \* the attempt counter of the step it is in
  timer,             \* when the time.After of its select fires
  sessionStartTime,  \* d.sessionStartTime; 0 is the zero time.Time
  sessionEndTime,    \* d.sessionEndTime
  pending,           \* per device, the session starts of the requests in its queue
  opensAt,           \* per device, the start of the session it accepted, or 0
  closesAt,          \* per device, its end
  answered,          \* the devices whose answer has come in
  enqueuedAt,        \* history: when the fragments were enqueued, or 0
  statusAt           \* history: when status was first requested, or 0

options     == <<groupType, statusRequest, prompt>>
sessionVars == <<sessionStartTime, sessionEndTime>>
deviceVars  == <<pending, opensAt, closesAt, answered>>
vars        == <<options, now, pc, attempt, timer, sessionVars, deviceVars, enqueuedAt, statusAt>>

GroupTypes == {"CLASS_B", "CLASS_C"}
StatusRequests == {"AFTER_FRAGMENT_ENQUEUE", "AFTER_SESSION_TIMEOUT", "NO_REQUEST"}

Init ==
  /\ groupType \in GroupTypes
  /\ statusRequest \in StatusRequests
  /\ prompt \in BOOLEAN
  /\ now = 1
  /\ pc = "attempt"
  /\ attempt = 0
  /\ timer = 0
  /\ sessionStartTime = 0
  /\ sessionEndTime = 0
  /\ pending = [d \in Devices |-> {}]
  /\ opensAt = [d \in Devices |-> 0]
  /\ closesAt = [d \in Devices |-> 0]
  /\ answered = {}
  /\ enqueuedAt = 0
  /\ statusAt = 0

-----------------------------------------------------------------------------
(* stepMulticastClassBSessionSetup and stepMulticastClassCSessionSetup: they *)
(* compute the same window, though MulticastTimeout `has a different meaning *)
(* for Class-B and Class-C groups` (fuota.go:106-107).                       *)

SessionEndOfFirstAttempt(start) ==
  IF attempt = 0 THEN start + SessionTimeout ELSE sessionEndTime
\* The session lasts SessionTimeout from its start.
SessionEnd(start) == start + SessionTimeout

AttemptsExhaustedOneLater(n) == n > UnicastAttemptCount + 1
AttemptsExhausted(n) == n > UnicastAttemptCount

\* The head of devLoop.  The window of the attempt is computed before its
\* requests are sent, and requests that are already queued keep theirs.
NextAttempt ==
  /\ pc = "attempt"
  /\ attempt' = attempt + 1
  /\ IF AttemptsExhausted(attempt')
       THEN pc' = "beforeEnqueue" /\ UNCHANGED sessionVars
       ELSE /\ pc' = "send"
            /\ sessionStartTime' = now + UnicastTimeout
            /\ sessionEndTime' = SessionEnd(sessionStartTime')
  /\ UNCHANGED <<options, now, timer, deviceVars, enqueuedAt, statusAt>>

SelectTimeoutOfSession == UnicastTimeout + SessionTimeout
\* The duration passed to time.After.
SelectTimeout == UnicastTimeout

\* Some of the devices that have not answered are sent the request: for the
\* others the enqueue fails.  Then the timer of the select starts.
SendRequests ==
  /\ pc = "send"
  /\ \E sent \in SUBSET (Devices \ answered) :
       pending' = [d \in Devices |->
                     IF d \in sent THEN pending[d] \cup {sessionStartTime} ELSE pending[d]]
  /\ timer' = now + SelectTimeout
  /\ pc' = "select"
  /\ UNCHANGED <<options, now, attempt, sessionVars, opensAt, closesAt, answered,
                 enqueuedAt, statusAt>>

Timeout ==
  /\ pc = "select"
  /\ now >= timer
  /\ pc' = "attempt"
  /\ UNCHANGED <<options, now, attempt, timer, sessionVars, deviceVars, enqueuedAt, statusAt>>

\* multicastSessionSetupDone: module Deployment shows that it may be received
\* before all devices have answered, but not before one has.
ReceiveDone ==
  /\ pc = "select"
  /\ answered # {}
  /\ pc' = "beforeEnqueue"
  /\ UNCHANGED <<options, now, attempt, timer, sessionVars, deviceVars, enqueuedAt, statusAt>>

\* How much longer the session is open at a device than Run waits for it: 2^n
\* beacon periods of 128 seconds for Class B, 2^n seconds for Class C.
Overrun == IF groupType = "CLASS_B" THEN ClassBOverrun ELSE 0

\* The device accepts a queued request: its session is the one of the request.
DeviceAccept(d) ==
  /\ \E start \in pending[d] :
       /\ opensAt' = [opensAt EXCEPT ![d] = start]
       /\ closesAt' = [closesAt EXCEPT ![d] = start + SessionTimeout + Overrun]
       /\ pending' = [pending EXCEPT ![d] = {t \in @ : t > start}]
  /\ answered' \in {answered, answered \cup {d}}
  /\ UNCHANGED <<options, now, pc, attempt, timer, sessionVars, enqueuedAt, statusAt>>

-----------------------------------------------------------------------------
(* The steps that wait for the session: stepEnqueue, stepFragSessionStatus, *)
(* stepWaitUntilTimeout, stepDeleteMulticastGroup.                          *)

NoSleep(t) == TRUE
\* `time.Sleep(d.sessionStartTime.Sub(time.Now()))` and its siblings are over.
Slept(t) == now >= t

StepAfterEnqueue == IF statusRequest = "NO_REQUEST" THEN "beforeDelete" ELSE "beforeStatus"

EnqueueFragments ==
  /\ pc = "beforeEnqueue"
  /\ Slept(sessionStartTime)
  /\ enqueuedAt' = now
  /\ pc' = StepAfterEnqueue
  /\ UNCHANGED <<options, now, attempt, timer, sessionVars, deviceVars, statusAt>>

StatusAfterStart == sessionStartTime
\* What stepFragSessionStatus sleeps until before its first request.
StatusNotBefore == IF statusRequest = "AFTER_SESSION_TIMEOUT" THEN sessionEndTime ELSE 0

\* stepFragSessionStatus: the first request is sent, if there is an attempt.
\* Its retries come later and do not touch the window.
RequestStatus ==
  /\ pc = "beforeStatus"
  /\ Slept(StatusNotBefore)
  /\ statusAt' = IF UnicastAttemptCount > 0 THEN now ELSE statusAt
  /\ pc' = "beforeDelete"
  /\ UNCHANGED <<options, now, attempt, timer, sessionVars, deviceVars, enqueuedAt>>

\* stepWaitUntilTimeout and stepDeleteMulticastGroup.
DeleteMulticastGroup ==
  /\ pc = "beforeDelete"
  /\ Slept(sessionEndTime)
  /\ pc' = "deleted"
  /\ UNCHANGED <<options, now, attempt, timer, sessionVars, deviceVars, enqueuedAt, statusAt>>

-----------------------------------------------------------------------------
RunStep == \/ NextAttempt \/ SendRequests \/ Timeout \/ ReceiveDone
           \/ EnqueueFragments \/ RequestStatus \/ DeleteMulticastGroup

\* Run sits in a select or in a sleep that is not over yet.
Waiting == \/ pc = "select" /\ now < timer
           \/ pc = "beforeEnqueue" /\ ~Slept(sessionStartTime)
           \/ pc = "beforeStatus" /\ ~Slept(StatusNotBefore)
           \/ pc = "beforeDelete" /\ ~Slept(sessionEndTime)
           \/ pc = "deleted"

Tick == /\ now < Horizon
        /\ prompt => Waiting
        /\ now' = now + 1
        /\ UNCHANGED <<options, pc, attempt, timer, sessionVars, deviceVars, enqueuedAt, statusAt>>

Next == RunStep \/ (\E d \in Devices : DeviceAccept(d)) \/ Tick

Spec == Init /\ [][Next]_vars

-----------------------------------------------------------------------------
(* Correctness.                                                            *)

TypeOK ==
  /\ groupType \in GroupTypes
  /\ statusRequest \in StatusRequests
  /\ prompt \in BOOLEAN
  /\ now \in Nat
  /\ pc \in {"attempt", "send", "select", "beforeEnqueue", "beforeStatus",
             "beforeDelete", "deleted"}
  /\ attempt \in 0..(UnicastAttemptCount + 1)
  /\ timer \in Nat
  /\ sessionStartTime \in Nat
  /\ sessionEndTime \in Nat
  /\ pending \in [Devices -> SUBSET Nat]
  /\ opensAt \in [Devices -> Nat]
  /\ closesAt \in [Devices -> Nat]
  /\ answered \in SUBSET Devices
  /\ enqueuedAt \in Nat
  /\ statusAt \in Nat

HasSession(d) == closesAt[d] # 0

\* `We don't want to cleanup the multicast-group before the multicast-session
\* has expired` (fuota.go:759), as far as the code keeps it: when the group is
\* deleted, the session of every device is over, whichever attempt it was set up
\* by, but for what a Class-B session lasts longer than Run thinks.
DeletedAfterSessions ==
  pc = "deleted" => \A d \in Devices : closesAt[d] <= now + Overrun

\* `waiting with enqueue until multicast-session starts` (fuota.go:1287): no
\* device is still waiting for its session to open when fragments are enqueued,
\* also if it was set up by an earlier attempt, or accepts a request late.
EnqueuedAfterStart ==
  enqueuedAt # 0 => \A d \in Devices : opensAt[d] <= enqueuedAt

\* With AFTER_SESSION_TIMEOUT no device is asked for its status while its
\* session is open (fuota.go:1351), again but for what a Class-B session lasts
\* longer than Run thinks.
StatusAfterSessions ==
  statusRequest = "AFTER_SESSION_TIMEOUT" /\ statusAt # 0
    => \A d \in Devices : closesAt[d] <= statusAt + Overrun

\* A Run that is never late enqueues the fragments while the session of each
\* device is open, whichever attempt it was set up by.  This takes a session
\* longer than all retries but the first.
EnqueuedBeforeEnd ==
  prompt /\ enqueuedAt # 0 => \A d \in Devices : HasSession(d) => enqueuedAt < closesAt[d]
=============================================================================
