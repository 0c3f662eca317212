------------------------- MODULE SessionWindowProofs -------------------------
(***************************************************************************)
(* Proofs about SessionWindow, for any number of devices and attempts, any *)
(* timeouts and any delays of Run, of its requests and of the answers.     *)
(***************************************************************************)
EXTENDS SessionWindow, TLAPS

\* The session is, or will be, the one of the last attempt.
WindowOfLastAttempt ==
  /\ sessionStartTime <= now + UnicastTimeout
  /\ sessionEndTime <= sessionStartTime + SessionTimeout
  /\ pc = "send" \/ (\E d \in Devices : pending[d] # {})
       => sessionEndTime = sessionStartTime + SessionTimeout

\* No request and no device is ahead of it.
NoDeviceAhead ==
  \A d \in Devices : /\ \A start \in pending[d] : start <= sessionStartTime
                     /\ opensAt[d] <= sessionStartTime
                     /\ closesAt[d] <= sessionEndTime + Overrun

\* Each step that sleeps has slept until the window says so.
StepsSlept ==
  /\ enqueuedAt # 0 => sessionStartTime <= enqueuedAt
  /\ statusAt # 0 /\ statusRequest = "AFTER_SESSION_TIMEOUT" => sessionEndTime <= statusAt
  /\ pc = "deleted" => sessionEndTime <= now

\* The window does not move once a step has relied on it.
NothingReliedOnYet ==
  /\ pc \in {"attempt", "send", "select"} => enqueuedAt = 0 /\ statusAt = 0
  /\ pc \in {"beforeEnqueue", "beforeStatus"} => statusAt = 0

AttemptBound == pc \in {"attempt", "send", "select"} => attempt <= UnicastAttemptCount

IInv == /\ TypeOK
        /\ AttemptBound
        /\ WindowOfLastAttempt
        /\ NoDeviceAhead
        /\ StepsSlept
        /\ NothingReliedOnYet

LEMMA OverrunType == Overrun \in Nat
  BY SessionWindowAssumption DEF Overrun

LEMMA InitEstablishes == Init => IInv
  BY OverrunType, SessionWindowAssumption
  DEF Init, IInv, TypeOK, AttemptBound, WindowOfLastAttempt, NoDeviceAhead, StepsSlept,
      NothingReliedOnYet

LEMMA NextPreserves ==
  ASSUME IInv, [Next]_vars
  PROVE  IInv'
  <1> USE SessionWindowAssumption
      DEF IInv, TypeOK, AttemptBound, options, sessionVars, deviceVars
  <1>0. Overrun \in Nat /\ Overrun' = Overrun
    <2>1. groupType' = groupType
      BY DEF Next, RunStep, NextAttempt, SendRequests, Timeout, ReceiveDone, EnqueueFragments,
             RequestStatus, DeleteMulticastGroup, DeviceAccept, Tick, vars
    <2> QED
      BY <2>1, OverrunType DEF Overrun
  <1>1. CASE NextAttempt
    <2>1. CASE AttemptsExhausted(attempt')
      BY <1>0, <1>1, <2>1 DEF NextAttempt, AttemptsExhausted, WindowOfLastAttempt,
                        NoDeviceAhead, StepsSlept, NothingReliedOnYet
    <2>2. CASE ~AttemptsExhausted(attempt')
      <3>1. /\ pc' = "send"
            /\ attempt' \in Nat /\ attempt' <= UnicastAttemptCount
            /\ sessionStartTime' = now + UnicastTimeout
            /\ sessionEndTime' = sessionStartTime' + SessionTimeout
            /\ UNCHANGED <<options, now, timer, deviceVars, enqueuedAt, statusAt>>
        BY <1>1, <2>2 DEF NextAttempt, AttemptsExhausted, SessionEnd
      <3>2. sessionStartTime <= sessionStartTime' /\ sessionEndTime <= sessionEndTime'
        BY <3>1 DEF WindowOfLastAttempt
      <3>3. enqueuedAt = 0 /\ statusAt = 0
        BY <1>1 DEF NextAttempt, NothingReliedOnYet
      <3> QED
        BY <1>0, <3>1, <3>2, <3>3 DEF WindowOfLastAttempt, NoDeviceAhead, StepsSlept,
                                NothingReliedOnYet
    <2> QED
      BY <2>1, <2>2
  <1>2. CASE SendRequests
    BY <1>0, <1>2 DEF SendRequests, SelectTimeout, WindowOfLastAttempt, NoDeviceAhead,
                StepsSlept, NothingReliedOnYet
  <1>3. CASE Timeout \/ ReceiveDone
    BY <1>0, <1>3 DEF Timeout, ReceiveDone, WindowOfLastAttempt, NoDeviceAhead, StepsSlept,
                NothingReliedOnYet
  <1>4. ASSUME NEW d \in Devices, DeviceAccept(d) PROVE IInv'
    BY <1>0, <1>4 DEF DeviceAccept, WindowOfLastAttempt, NoDeviceAhead,
                StepsSlept, NothingReliedOnYet
  <1>5. CASE EnqueueFragments \/ RequestStatus \/ DeleteMulticastGroup
    BY <1>0, <1>5 DEF EnqueueFragments, RequestStatus, DeleteMulticastGroup, StepAfterEnqueue,
                Slept, StatusNotBefore, WindowOfLastAttempt, NoDeviceAhead, StepsSlept,
                NothingReliedOnYet
  <1>6. CASE Tick
    BY <1>0, <1>6 DEF Tick, WindowOfLastAttempt, NoDeviceAhead, StepsSlept, NothingReliedOnYet
  <1>7. CASE UNCHANGED vars
    BY <1>0, <1>7 DEF vars, WindowOfLastAttempt, NoDeviceAhead, StepsSlept, NothingReliedOnYet
  <1> QED
    BY <1>1, <1>2, <1>3, <1>4, <1>5, <1>6, <1>7 DEF Next, RunStep

THEOREM Invariance == Spec => []IInv
  BY InitEstablishes, NextPreserves, PTL DEF Spec

\* The types of the module, the bound on the attempts included.
THEOREM TypeCorrect == Spec => []TypeOK
  <1>1. IInv => TypeOK
    BY DEF IInv
  <1> QED
    BY <1>1, Invariance, PTL

\* The group outlives the session of every device of a Class-C group, in whatever
\* attempt it was set up; of a Class-B group it outlives as much of it as the
\* window that Run computes (fuota.go:759, 1063).
THEOREM GroupOutlivesSessions == Spec => []DeletedAfterSessions
  <1>1. ASSUME IInv PROVE DeletedAfterSessions
    <2> SUFFICES ASSUME pc = "deleted", NEW d \in Devices
                 PROVE  closesAt[d] <= now + Overrun
      BY DEF DeletedAfterSessions
    <2>1. closesAt[d] <= sessionEndTime + Overrun /\ sessionEndTime <= now
      BY <1>1 DEF IInv, NoDeviceAhead, StepsSlept
    <2>2. /\ opensAt[d] \in Nat /\ closesAt[d] \in Nat /\ now \in Nat
          /\ {sessionStartTime, sessionEndTime, enqueuedAt, statusAt} \subseteq Nat
      BY <1>1 DEF IInv, TypeOK
    <2> QED
      BY <2>1, <2>2, OverrunType
  <1> QED
    BY <1>1, Invariance, PTL

\* No device is still waiting for its session when the fragments are enqueued.
THEOREM EnqueueWaitsForSessions == Spec => []EnqueuedAfterStart
  <1>1. ASSUME IInv PROVE EnqueuedAfterStart
    <2> SUFFICES ASSUME enqueuedAt # 0, NEW d \in Devices
                 PROVE  opensAt[d] <= enqueuedAt
      BY DEF EnqueuedAfterStart
    <2>1. opensAt[d] <= sessionStartTime /\ sessionStartTime <= enqueuedAt
      BY <1>1 DEF IInv, NoDeviceAhead, StepsSlept
    <2>2. /\ opensAt[d] \in Nat /\ closesAt[d] \in Nat /\ now \in Nat
          /\ {sessionStartTime, sessionEndTime, enqueuedAt, statusAt} \subseteq Nat
      BY <1>1 DEF IInv, TypeOK
    <2> QED
      BY <2>1, <2>2, OverrunType
  <1> QED
    BY <1>1, Invariance, PTL

\* A status request sent after the session timeout meets no open session of a
\* Class-C group; Class B takes the same path (fuota.go:1351), and may still have
\* the rest of its session to go.
THEOREM StatusWaitsForSessions == Spec => []StatusAfterSessions
  <1>1. ASSUME IInv PROVE StatusAfterSessions
    <2> SUFFICES ASSUME statusRequest = "AFTER_SESSION_TIMEOUT", statusAt # 0, NEW d \in Devices
                 PROVE  closesAt[d] <= statusAt + Overrun
      BY DEF StatusAfterSessions
    <2>1. closesAt[d] <= sessionEndTime + Overrun /\ sessionEndTime <= statusAt
      BY <1>1 DEF IInv, NoDeviceAhead, StepsSlept
    <2>2. /\ opensAt[d] \in Nat /\ closesAt[d] \in Nat /\ now \in Nat
          /\ {sessionStartTime, sessionEndTime, enqueuedAt, statusAt} \subseteq Nat
      BY <1>1 DEF IInv, TypeOK
    <2> QED
      BY <2>1, <2>2, OverrunType
  <1> QED
    BY <1>1, Invariance, PTL

-----------------------------------------------------------------------------
(* A Run that is never late.                                               *)

\* The time that n select timeouts take.
Waited(n) == n * UnicastTimeout

\* The session is longer than all the retries.
SessionOutlastsRetries ==
  UnicastAttemptCount > 0 => Waited(UnicastAttemptCount - 1) < SessionTimeout

\* When Run is in attempt n no more than n select timeouts have gone by.
OnTime ==
  prompt =>
    /\ pc = "attempt" => now <= 1 + Waited(attempt)
    /\ pc = "send" => now <= 1 + Waited(attempt - 1)
    /\ pc = "select" => now <= timer /\ timer <= 1 + Waited(attempt)
    /\ pc \in {"attempt", "send", "select"} =>
         sessionStartTime <= 1 + Waited(attempt)
    /\ pc = "beforeEnqueue" =>
         /\ now <= 1 + Waited(UnicastAttemptCount)
         /\ sessionStartTime <= 1 + Waited(UnicastAttemptCount)
    /\ enqueuedAt # 0 => enqueuedAt <= 1 + Waited(UnicastAttemptCount)

\* No session starts before the first select timeout, and none without an attempt.
SessionsNotBeforeFirst ==
  /\ now >= 1
  /\ pc = "send" => attempt > 0
  /\ attempt > 0 /\ pc \in {"attempt", "send", "select"} =>
       sessionStartTime >= 1 + UnicastTimeout
  /\ \A d \in Devices :
       /\ \A start \in pending[d] : start >= 1 + UnicastTimeout /\ UnicastAttemptCount > 0
       /\ closesAt[d] # 0 => /\ closesAt[d] >= 1 + UnicastTimeout + SessionTimeout
                             /\ UnicastAttemptCount > 0
LEMMA WaitedInNat == ASSUME NEW n \in Nat PROVE Waited(n) \in Nat
  BY SessionWindowAssumption DEF Waited

LEMMA WaitedSuccessor ==
  ASSUME NEW n \in Nat, n > 0
  PROVE  Waited(n) = Waited(n - 1) + UnicastTimeout
  BY SessionWindowAssumption DEF Waited

LEMMA WaitedMonotone ==
  ASSUME NEW m \in Nat, NEW n \in Nat, m <= n
  PROVE  Waited(m) <= Waited(n)
  <1>1. PICK k \in Nat : n = m + k
    <2>1. n - m \in Nat /\ n = m + (n - m)
      OBVIOUS
    <2> QED
      BY <2>1
  <1>2. n * UnicastTimeout = m * UnicastTimeout + k * UnicastTimeout /\ k * UnicastTimeout \in Nat
    BY <1>1, SessionWindowAssumption
  <1>3. m * UnicastTimeout \in Nat
    BY SessionWindowAssumption
  <1> QED
    BY <1>2, <1>3 DEF Waited

PInv == IInv /\ OnTime /\ SessionsNotBeforeFirst

LEMMA InitOnTime == Init => PInv
  <1>1. Waited(0) \in Nat
    BY WaitedInNat
  <1> QED
    BY <1>1, InitEstablishes, SessionWindowAssumption
    DEF Init, PInv, OnTime, SessionsNotBeforeFirst

LEMMA NextOnTime ==
  ASSUME PInv, [Next]_vars
  PROVE  PInv'
  <1> USE SessionWindowAssumption DEF options, sessionVars, deviceVars
  <1>0. IInv' /\ IInv
    BY NextPreserves DEF PInv
  <1>a. TypeOK /\ TypeOK' /\ AttemptBound /\ AttemptBound'
    BY <1>0 DEF IInv
  <1>b. /\ attempt \in Nat /\ attempt' \in Nat
        /\ now \in Nat /\ timer \in Nat /\ sessionStartTime \in Nat /\ enqueuedAt \in Nat
        /\ UnicastTimeout \in Nat /\ UnicastAttemptCount \in Nat
    BY <1>a DEF TypeOK
  <1>c. Waited(attempt) \in Nat /\ Waited(attempt') \in Nat
    BY <1>b, WaitedInNat
  <1>d. attempt <= UnicastAttemptCount => Waited(attempt) <= Waited(UnicastAttemptCount)
    BY <1>b, WaitedMonotone
  <1>e. Waited(UnicastAttemptCount) \in Nat
    BY <1>b, WaitedInNat
  <1>f. OnTime /\ SessionsNotBeforeFirst
    BY DEF PInv
  <1>1. CASE NextAttempt
    <2>1. OnTime'
      <3>1. attempt' = attempt + 1 /\ pc = "attempt"
        BY <1>1 DEF NextAttempt
      <3>2. Waited(attempt') = Waited(attempt) + UnicastTimeout /\ attempt' - 1 = attempt
        BY <1>b, <3>1, WaitedSuccessor
      <3> QED
        BY <1>1, <1>a, <1>b, <1>c, <1>d, <1>e, <1>f, <3>1, <3>2
        DEF NextAttempt, AttemptsExhausted, OnTime, AttemptBound, TypeOK
    <2>2. SessionsNotBeforeFirst'
      BY <1>1, <1>a, <1>b, <1>f
      DEF NextAttempt, AttemptsExhausted, SessionsNotBeforeFirst, AttemptBound, TypeOK
    <2> QED
      BY <1>0, <2>1, <2>2 DEF PInv
  <1>2. CASE SendRequests
    <2>1. OnTime'
      <3>1. pc = "send" /\ attempt > 0
        BY <1>2, <1>f DEF SendRequests, SessionsNotBeforeFirst
      <3>2. Waited(attempt) = Waited(attempt - 1) + UnicastTimeout
        BY <1>b, <3>1, WaitedSuccessor
      <3>3. Waited(attempt - 1) \in Nat
        BY <1>b, <3>1, WaitedInNat
      <3> QED
        BY <1>2, <1>b, <1>c, <1>f, <3>1, <3>2, <3>3 DEF SendRequests, SelectTimeout, OnTime
    <2>2. SessionsNotBeforeFirst'
      BY <1>2, <1>a, <1>b, <1>f
      DEF SendRequests, SessionsNotBeforeFirst, AttemptBound, TypeOK
    <2> QED
      BY <1>0, <2>1, <2>2 DEF PInv
  <1>3. CASE Timeout \/ ReceiveDone
    <2>1. OnTime'
      <3>1. pc = "select" /\ attempt <= UnicastAttemptCount
        BY <1>3, <1>a DEF Timeout, ReceiveDone, AttemptBound
      <3>2. /\ UNCHANGED <<prompt, now, timer, attempt, sessionStartTime, enqueuedAt>>
            /\ pc' \in {"attempt", "beforeEnqueue"}
        BY <1>3 DEF Timeout, ReceiveDone
      <3> QED
        BY <1>b, <1>c, <1>d, <1>e, <1>f, <3>1, <3>2 DEF OnTime
    <2>2. SessionsNotBeforeFirst'
      BY <1>3, <1>b, <1>f DEF Timeout, ReceiveDone, SessionsNotBeforeFirst
    <2> QED
      BY <1>0, <2>1, <2>2 DEF PInv
  <1>4. ASSUME NEW d \in Devices, DeviceAccept(d) PROVE PInv'
    <2>1. OnTime'
      BY <1>4, <1>f DEF DeviceAccept, OnTime
    <2>2. SessionsNotBeforeFirst'
      BY <1>4, <1>a, <1>f, OverrunType DEF DeviceAccept, SessionsNotBeforeFirst, TypeOK
    <2> QED
      BY <1>0, <2>1, <2>2 DEF PInv
  <1>5. CASE EnqueueFragments \/ RequestStatus \/ DeleteMulticastGroup
    <2>1. OnTime'
      BY <1>5, <1>b, <1>e, <1>f
      DEF EnqueueFragments, RequestStatus, DeleteMulticastGroup, StepAfterEnqueue, OnTime
    <2>2. SessionsNotBeforeFirst'
      BY <1>5, <1>f
      DEF EnqueueFragments, RequestStatus, DeleteMulticastGroup, StepAfterEnqueue,
          SessionsNotBeforeFirst
    <2> QED
      BY <1>0, <2>1, <2>2 DEF PInv
  <1>6. CASE Tick
    <2>1. OnTime'
      BY <1>6, <1>b, <1>c, <1>e, <1>f DEF Tick, Waiting, Slept, OnTime
    <2>2. SessionsNotBeforeFirst'
      BY <1>6, <1>b, <1>f DEF Tick, SessionsNotBeforeFirst
    <2> QED
      BY <1>0, <2>1, <2>2 DEF PInv
  <1>7. CASE UNCHANGED vars
    BY <1>7, <1>0, <1>f DEF vars, PInv, OnTime, SessionsNotBeforeFirst
  <1> QED
    BY <1>1, <1>2, <1>3, <1>4, <1>5, <1>6, <1>7 DEF Next, RunStep

\* A prompt Run enqueues while every session is open, for any number of devices
\* and attempts, when the session is longer than all the retries.
THEOREM EnqueueMeetsSessions ==
  ASSUME SessionOutlastsRetries
  PROVE  Spec => []EnqueuedBeforeEnd
  <1>1. ASSUME PInv PROVE EnqueuedBeforeEnd
    <2> SUFFICES ASSUME prompt, enqueuedAt # 0, NEW d \in Devices, HasSession(d)
                 PROVE  enqueuedAt < closesAt[d]
      BY DEF EnqueuedBeforeEnd
    <2>1. /\ enqueuedAt <= 1 + Waited(UnicastAttemptCount)
          /\ closesAt[d] >= 1 + UnicastTimeout + SessionTimeout
          /\ UnicastAttemptCount > 0
      BY <1>1 DEF PInv, OnTime, SessionsNotBeforeFirst, HasSession
    <2>2. UnicastAttemptCount - 1 \in Nat /\ Waited(UnicastAttemptCount - 1) \in Nat
      BY <2>1, WaitedInNat, SessionWindowAssumption
    <2>3. Waited(UnicastAttemptCount) = Waited(UnicastAttemptCount - 1) + UnicastTimeout
      BY <2>1, WaitedSuccessor, SessionWindowAssumption
    <2>4. Waited(UnicastAttemptCount - 1) < SessionTimeout
      BY <2>1 DEF SessionOutlastsRetries
    <2>5. enqueuedAt \in Nat /\ closesAt[d] \in Nat
      BY <1>1 DEF PInv, IInv, TypeOK
    <2> QED
      BY <2>1, <2>2, <2>3, <2>4, <2>5, SessionWindowAssumption
  <1>2. Spec => []PInv
    BY InitOnTime, NextOnTime, PTL DEF Spec
  <1> QED
    BY <1>1, <1>2, PTL
=============================================================================
