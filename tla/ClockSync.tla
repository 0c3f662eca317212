------------------------------ MODULE ClockSync ------------------------------
(***************************************************************************)
(* Clock synchronisation (internal/eventhandler/clocksync.go): a device     *)
(* sends its time, the server answers with a correction to it.  Requests    *)
(* and answers take any time and are lost; a device that gets no answer     *)
(* asks again with the same token, so that several answers to one token     *)
(* may be on their way to it, and the token comes round after Tokens        *)
(* corrections.                                                             *)
(*                                                                          *)
(* The unit is a second of GPS time.  Clocks on the air have Modulus        *)
(* values (2^32); the times that gateways report do not wrap.               *)
(***************************************************************************)
EXTENDS Integers, FiniteSets, FiniteSetsExt

CONSTANTS
  Modulus,      \* 2^32: the values of DeviceTime on the air
  LeapSeconds,  \* GPS time is ahead of UTC by this much
  MaxSkew,      \* how far the time of a gateway without GPS is off
  InvalidErrors, \* how far a Timestamp that ptypes.Timestamp refuses may be off
  MaxGateways,  \* BOUND: the gateways that receive one uplink
  Absent,       \* a field of rxInfo that is nil
  Invalid,      \* a Duration that ptypes.Duration refuses
  StartTime,    \* the time at which the model starts
  Horizon,      \* BOUND: the time at which it stops
  MaxRequests,  \* BOUND: the requests sent
  Tokens        \* 16: the values of TokenReq

ASSUME ClockSyncAssumption ==
  /\ Modulus \in Nat \ {0} /\ Modulus % 2 = 0
  /\ LeapSeconds \in Nat
  /\ MaxSkew \in Nat
  /\ InvalidErrors \subseteq Int
  /\ MaxGateways \in Nat
  /\ StartTime \in Nat /\ StartTime > LeapSeconds + MaxSkew
  /\ Horizon \in Nat
  /\ MaxRequests \in Nat
  /\ Tokens \in Nat \ {0}
  /\ Absent \notin Int /\ Invalid \notin Int /\ Absent # Invalid

VARIABLES
  now,          \* the GPS time
  deviceClock,  \* the clock of the device, modulo Modulus
  token,        \* its TokenReq counter
  corrections,  \* history: how many corrections it has applied
  allowed,      \* history: by how much the last one may leave the clock off
  lag,          \* history: the corrections since the request that it answers
  requests,     \* how many requests it has sent
  uplinks,      \* requests on their way to ServeHTTP, or in its goroutine
  downlinks     \* answers in the device queue

vars == <<now, deviceClock, token, corrections, allowed, lag, requests, uplinks,
          downlinks>>

-----------------------------------------------------------------------------
(* The computation of the server.                                          *)

\* A Timestamp of an uplink received at time t, and whether its seconds and
\* nanoseconds are in their ranges.
Timestamps(t) ==
  {[valid |-> TRUE, value |-> t - LeapSeconds + s] : s \in -MaxSkew..MaxSkew}
  \cup {[valid |-> FALSE, value |-> t - LeapSeconds + s] : s \in InvalidErrors}

Nil == [valid |-> FALSE, value |-> Absent]

\* The fields of one gateway's rxInfo.
RxInfo(t) == [timeSinceGpsEpoch : {Absent, Invalid, t},
              time : {Nil} \cup Timestamps(t)]

RxInfos(t) == UNION {[1..n -> RxInfo(t)] : n \in 0..MaxGateways}

\* gps.Time(t).TimeSinceGPSEpoch()
TimeSinceGPSEpoch(t) == t + LeapSeconds

GpsWithoutTimeGateways(rxInfo) ==
  {i \in DOMAIN rxInfo : rxInfo[i].timeSinceGpsEpoch # Absent /\ rxInfo[i].time = Nil}
\* The loop over pl.RxInfo reads the GPS time of these gateways, and the time
\* field, valid or not, of those of the others that have one.
GpsGateways(rxInfo) == {i \in DOMAIN rxInfo : rxInfo[i].timeSinceGpsEpoch # Absent}
TimeGateways(rxInfo) ==
  {i \in DOMAIN rxInfo \ GpsGateways(rxInfo) : rxInfo[i].time # Nil}

\* ptypes.Duration: 0, with an error, for a duration that does not convert.
Duration(d) == IF d = Invalid THEN 0 ELSE d

\* ptypes.Timestamp: with its error for one that is not valid it returns the time
\* that its numbers make nevertheless.  timeField has it when `continue` runs, so
\* the fallbacks below take it for a time like any other.
Timestamp(ts) == ts.value

\* The time of the uplink: GPS time, else the time field, else the server's time.
\* Of several gateways the last one wins, and one whose Duration does not convert
\* resets what was read before it.  0, and the server's time in place of the zero
\* time.Time, is "nothing read".
UplinkTime(rxInfo) ==
  LET gps == GpsGateways(rxInfo)
      timed == TimeGateways(rxInfo)
      timeSinceGPSEpoch ==
        IF gps = {} THEN 0 ELSE Duration(rxInfo[Max(gps)].timeSinceGpsEpoch)
      timeField == IF timed = {} THEN now - LeapSeconds ELSE Timestamp(rxInfo[Max(timed)].time)
  IN  IF timeSinceGPSEpoch # 0 THEN timeSinceGPSEpoch ELSE TimeSinceGPSEpoch(timeField)

NoCast(n) == n
\* int32(n), for Modulus = 2^32.
Int32(n) == LET m == n % Modulus IN IF m < Modulus \div 2 THEN m ELSE m - Modulus

\* networkGPSTime - deviceGPSTime.
TimeCorrection(uplinkTime, deviceTime) == Int32((uplinkTime % Modulus) - deviceTime)

NoToken(tokenReq) == 0
TokenAns(tokenReq) == tokenReq

-----------------------------------------------------------------------------
(* What a reader of the answer may expect, stated without the code: the     *)
(* error that an answer computed from this metadata may leave.              *)

\* None, when all GPS times convert.  Else, a gateway whose GPS time converts may
\* have come last; failing that it is the error of the clock of some gateway that
\* reports a time only, whether the time converts or not; and failing that the
\* delay until the uplink is handled.
AllowedErrors(rxInfo, receivedAt) ==
  LET gateways == DOMAIN rxInfo
      gps == {i \in gateways : rxInfo[i].timeSinceGpsEpoch # Absent}
      sound == {i \in gps : rxInfo[i].timeSinceGpsEpoch # Invalid}
      others == {i \in gateways \ gps : rxInfo[i].time # Nil}
      fallback == IF others = {} THEN 0..(now - receivedAt)
                  ELSE {rxInfo[i].time.value + LeapSeconds - receivedAt : i \in others}
  IN  IF sound = {} THEN fallback ELSE IF sound = gps THEN {0} ELSE {0} \cup fallback

-----------------------------------------------------------------------------
Init ==
  /\ now = StartTime
  /\ deviceClock \in 0..(Modulus - 1)
  /\ token = 0
  /\ corrections = 0
  /\ allowed = {}
  /\ lag = 0
  /\ requests = 0
  /\ uplinks = {}
  /\ downlinks = {}

\* The clocks run at the same rate.
Tick ==
  /\ now < Horizon
  /\ now' = now + 1
  /\ deviceClock' = (deviceClock + 1) % Modulus
  /\ UNCHANGED <<token, corrections, allowed, lag, requests, uplinks, downlinks>>

\* The device sends AppTimeReq, for the first time or again.
AppTimeReq ==
  /\ requests < MaxRequests
  /\ requests' = requests + 1
  /\ uplinks' = uplinks \cup {[deviceTime |-> deviceClock, tokenReq |-> token,
                              receivedAt |-> now, corrections |-> corrections]}
  /\ UNCHANGED <<now, deviceClock, token, corrections, allowed, lag, downlinks>>

\* handleClockSyncCommand and handleClockSyncAppTimeReq, to the enqueue.
HandleAppTimeReq(up, rxInfo) ==
  /\ up \in uplinks
  /\ uplinks' = uplinks \ {up}
  /\ downlinks' = downlinks \cup
       {[timeCorrection |-> TimeCorrection(UplinkTime(rxInfo), up.deviceTime),
         tokenAns       |-> TokenAns(up.tokenReq),
         allowed        |-> AllowedErrors(rxInfo, up.receivedAt),
         corrections    |-> up.corrections]}
  /\ UNCHANGED <<now, deviceClock, token, corrections, allowed, lag, requests>>

\* The uplink is not posted, its body is refused, or the enqueue fails.
LoseRequest(up) ==
  /\ up \in uplinks
  /\ uplinks' = uplinks \ {up}
  /\ UNCHANGED <<now, deviceClock, token, corrections, allowed, lag, requests, downlinks>>

\* The device applies an answer to its current token, and ignores another one.
AppTimeAns(down) ==
  /\ down \in downlinks
  /\ downlinks' = downlinks \ {down}
  /\ IF down.tokenAns = token
       THEN /\ deviceClock' = (deviceClock + down.timeCorrection) % Modulus
            /\ token' = (token + 1) % Tokens
            /\ corrections' = corrections + 1
            /\ allowed' = down.allowed
            /\ lag' = corrections - down.corrections
       ELSE UNCHANGED <<deviceClock, token, corrections, allowed, lag>>
  /\ UNCHANGED <<now, requests, uplinks>>

LoseAnswer(down) ==
  /\ down \in downlinks
  /\ downlinks' = downlinks \ {down}
  /\ UNCHANGED <<now, deviceClock, token, corrections, allowed, lag, requests, uplinks>>

Next ==
  \/ Tick
  \/ AppTimeReq
  \/ \E up \in uplinks :
       \/ \E rxInfo \in RxInfos(up.receivedAt) : HandleAppTimeReq(up, rxInfo)
       \/ LoseRequest(up)
  \/ \E down \in downlinks : AppTimeAns(down) \/ LoseAnswer(down)

Spec == Init /\ [][Next]_vars

-----------------------------------------------------------------------------
(* Correctness.                                                            *)

\* A correction has the 32 bits, sign included, that AppTimeAns has for it.
TypeOK ==
  /\ now \in Nat
  /\ deviceClock \in 0..(Modulus - 1)
  /\ token \in 0..(Tokens - 1)
  /\ corrections \in 0..MaxRequests
  /\ allowed \in SUBSET Int
  /\ lag \in 0..MaxRequests
  /\ requests \in 0..MaxRequests
  /\ \A up \in uplinks : /\ up.deviceTime \in 0..(Modulus - 1)
                         /\ up.tokenReq \in 0..(Tokens - 1)
                         /\ up.receivedAt \in StartTime..now
  /\ \A down \in downlinks : /\ 2 * down.timeCorrection \in -Modulus..(Modulus - 1)
                             /\ down.tokenAns \in 0..(Tokens - 1)

\* A device that has applied a correction is as close to the network's time as
\* the metadata of the uplink allowed (clocksync.go:30-53), however late it was
\* handled and delivered, across the wrap of both clocks and whatever its clock
\* showed before: exactly, when a gateway had GPS time.  Only an answer that comes
\* a whole round of tokens late is excepted.
ClockAgrees ==
  corrections > 0 /\ lag < Tokens =>
    \E error \in allowed : (deviceClock - now - error) % Modulus = 0

\* The answers a device would apply are those to its clock as it is now: until
\* its token has come round, an answer to the clock before a correction does not
\* carry its token, and one to the current clock does (clocksync.go:90-93).
AnswersMatchClock ==
  \A down \in downlinks :
    corrections - down.corrections < Tokens =>
      (down.tokenAns = token <=> down.corrections = corrections)
=============================================================================
