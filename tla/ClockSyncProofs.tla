--------------------------- MODULE ClockSyncProofs ---------------------------
(***************************************************************************)
(* Proofs about ClockSync: for any modulus, any clock of the device, any    *)
(* number of gateways and any metadata they report, and any delays and      *)
(* losses, the corrections that the server computes set the device's clock. *)
(***************************************************************************)
EXTENDS ClockSync, FiniteSetTheorems, WellFoundedInduction, TLAPS

-----------------------------------------------------------------------------
(* Clocks that show the same value: equality modulo Modulus.               *)

SameClock(a, b) == \E k \in Int : a = b + k * Modulus

LEMMA SameClockRefl == \A a \in Int : SameClock(a, a)
  <1> TAKE a \in Int
  <1>1. 0 \in Int /\ a = a + 0 * Modulus
    BY ClockSyncAssumption
  <1> QED
    BY <1>1 DEF SameClock

LEMMA SameClockSum ==
  ASSUME NEW a \in Int, NEW b \in Int, NEW c \in Int, NEW d \in Int,
         SameClock(a, b), SameClock(c, d)
  PROVE  SameClock(a + c, b + d) /\ SameClock(a - c, b - d)
  <1>1. PICK k \in Int : a = b + k * Modulus
    BY DEF SameClock
  <1>2. PICK l \in Int : c = d + l * Modulus
    BY DEF SameClock
  <1>3. /\ (k + l) * Modulus = k * Modulus + l * Modulus
        /\ (k - l) * Modulus = k * Modulus - l * Modulus
        /\ k * Modulus \in Int /\ l * Modulus \in Int
    BY ClockSyncAssumption
  <1>4. /\ k + l \in Int /\ a + c = (b + d) + (k + l) * Modulus
        /\ k - l \in Int /\ a - c = (b - d) + (k - l) * Modulus
    BY <1>1, <1>2, <1>3
  <1> QED
    BY <1>4 DEF SameClock

LEMMA SameClockModulo ==
  ASSUME NEW a \in Int
  PROVE  /\ a % Modulus \in 0..(Modulus - 1)
         /\ SameClock(a % Modulus, a) /\ SameClock(a, a % Modulus)
  <1>1. /\ a % Modulus \in 0..(Modulus - 1)
        /\ a \div Modulus \in Int
        /\ a = Modulus * (a \div Modulus) + (a % Modulus)
    BY ClockSyncAssumption
  <1> DEFINE k == a \div Modulus
  <1> HIDE DEF k
  <1>2. k \in Int /\ a = Modulus * k + (a % Modulus)
    BY <1>1 DEF k
  <1>3. /\ k \in Int /\ a = (a % Modulus) + k * Modulus
        /\ -k \in Int /\ a % Modulus = a + (-k) * Modulus
    BY <1>1, <1>2, ClockSyncAssumption
  <1> QED
    BY <1>1, <1>3 DEF SameClock

\* The same with the device's clock and a sum of times.
LEMMA SameClockTransitive ==
  ASSUME NEW a \in Int, NEW b \in Int, NEW c \in Int, SameClock(a, b), SameClock(b, c)
  PROVE  SameClock(a, c)
  <1>1. SameClock(a + b, b + c)
    BY SameClockSum
  <1>2. SameClock((a + b) - b, (b + c) - b)
    BY <1>1, SameClockRefl, SameClockSum
  <1>3. (a + b) - b = a /\ (b + c) - b = c
    OBVIOUS
  <1> QED
    BY <1>2, <1>3

LEMMA SameClockZero ==
  ASSUME NEW a \in Int, SameClock(a, 0)
  PROVE  a % Modulus = 0
  <1>1. PICK k \in Int : a = 0 + k * Modulus
    BY DEF SameClock
  <1>2. Modulus \in Nat \ {0} /\ a = k * Modulus
    BY <1>1, ClockSyncAssumption
  <1> QED
    BY <1>2

-----------------------------------------------------------------------------
(* The computation of the server.                                          *)

Less == {p \in Nat \X Nat : p[1] < p[2]}

LEMMA LeastExists ==
  ASSUME NEW T \in SUBSET Nat, T # {}
  PROVE  \E m \in T : \A t \in T : m <= t
  <1>1. IsWellFoundedOn(Less, Nat)
    BY NatLessThanWellFounded DEF OpToRel, Less
  <1>2. PICK m \in T : \A t \in T : <<t, m>> \notin Less
    BY <1>1, WFMin
  <1>3. ASSUME NEW t \in T PROVE m <= t
    <2>1. t \in Nat /\ m \in Nat /\ <<t, m>> \notin Less
      BY <1>2
    <2> QED
      BY <2>1 DEF Less
  <1> QED
    BY <1>2, <1>3

\* The last of several gateways exists.
LEMMA MaxOfGateways ==
  ASSUME NEW n \in Nat, NEW S \in SUBSET (1..n), S # {}
  PROVE  Max(S) \in S
  <1> DEFINE T == {n - i : i \in S}
  <1>1. T \in SUBSET Nat /\ T # {}
    <2>1. \A i \in S : i \in 1..n /\ n - i \in Nat
      OBVIOUS
    <2>2. T \in SUBSET Nat
      BY <2>1
    <2>3. PICK i \in S : TRUE
      OBVIOUS
    <2>4. n - i \in T
      OBVIOUS
    <2> QED
      BY <2>2, <2>4
  <1>2. PICK m \in T : \A t \in T : m <= t
    BY <1>1, LeastExists
  <1>3. PICK x \in S : m = n - x
    BY <1>2
  <1>4. ASSUME NEW y \in S PROVE x >= y
    <2>1. n - y \in T
      OBVIOUS
    <2>2. n - x <= n - y
      BY <1>2, <1>3, <2>1
    <2>3. x \in 1..n /\ y \in 1..n
      OBVIOUS
    <2> QED
      BY <2>2, <2>3
  <1> QED
    BY <1>4 DEF Max

\* int32() shows the same clock, and has the 32 bits.
LEMMA Int32Same ==
  ASSUME NEW n \in Int
  PROVE  /\ Int32(n) \in Int /\ SameClock(Int32(n), n)
         /\ 2 * Int32(n) \in -Modulus..(Modulus - 1)
  <1> DEFINE m == n % Modulus
  <1>1. m \in 0..(Modulus - 1) /\ SameClock(m, n)
    BY SameClockModulo
  <1>2. Modulus \in Nat /\ 2 * (Modulus \div 2) = Modulus /\ Modulus \div 2 \in Nat
    BY ClockSyncAssumption
  <1> HIDE DEF m
  <1>3. CASE m < Modulus \div 2
    <2>1. Int32(n) = m
      BY <1>3 DEF Int32, m
    <2> QED
      BY <1>1, <1>2, <1>3, <2>1
  <1>4. CASE ~(m < Modulus \div 2)
    <2>1. Int32(n) = m - Modulus
      BY <1>4 DEF Int32, m
    <2>2. -1 \in Int /\ 0 - Modulus = 0 + (-1) * Modulus
      BY <1>2
    <2>3. SameClock(0 - Modulus, 0)
      BY <2>2 DEF SameClock
    <2>4. SameClock(m + (0 - Modulus), n + 0)
      BY <1>1, <1>2, <2>3, SameClockSum
    <2>5. m + (0 - Modulus) = m - Modulus /\ n + 0 = n
      BY <1>1, <1>2
    <2> QED
      BY <1>1, <1>2, <1>4, <2>1, <2>4, <2>5
  <1> QED
    BY <1>3, <1>4

LEMMA TimeCorrectionSame ==
  ASSUME NEW u \in Int, NEW deviceTime \in Int
  PROVE  /\ TimeCorrection(u, deviceTime) \in Int
         /\ SameClock(TimeCorrection(u, deviceTime), u - deviceTime)
         /\ 2 * TimeCorrection(u, deviceTime) \in -Modulus..(Modulus - 1)
  <1> DEFINE c == (u % Modulus) - deviceTime
  <1>1. u % Modulus \in Int /\ SameClock(u % Modulus, u)
    BY SameClockModulo, ClockSyncAssumption
  <1>2. c \in Int /\ SameClock(c, u - deviceTime)
    <2>1. SameClock(deviceTime, deviceTime)
      BY SameClockRefl
    <2>2. SameClock((u % Modulus) - deviceTime, u - deviceTime)
      BY <1>1, <2>1, SameClockSum
    <2> QED
      BY <1>1, <2>2
  <1>3. TimeCorrection(u, deviceTime) = Int32(c)
    BY DEF TimeCorrection
  <1> HIDE DEF c
  <1> QED
    BY <1>2, <1>3, Int32Same, SameClockTransitive

\* The time that the server computes for an uplink is off by what its metadata
\* allows, whatever the gateways report and in whatever order.
LEMMA UplinkTimeError ==
  ASSUME NEW t \in Nat, t > LeapSeconds + MaxSkew, now \in Nat, t <= now,
         NEW rxInfo \in RxInfos(t)
  PROVE  /\ UplinkTime(rxInfo) \in Int
         /\ AllowedErrors(rxInfo, t) \subseteq Int
         /\ UplinkTime(rxInfo) - t \in AllowedErrors(rxInfo, t)
  <1> USE ClockSyncAssumption
  <1> DEFINE gps == GpsGateways(rxInfo)
             timed == TimeGateways(rxInfo)
  <1>1. PICK n \in 0..MaxGateways : rxInfo \in [1..n -> RxInfo(t)]
    BY DEF RxInfos
  <1>2. DOMAIN rxInfo = 1..n /\ n \in Nat
    BY <1>1
  <1>3. \A i \in 1..n : /\ rxInfo[i].timeSinceGpsEpoch \in {Absent, Invalid, t}
                        /\ rxInfo[i].time = Nil \/ rxInfo[i].time.value \in Int
    <2>1. \A ts \in Timestamps(t) : ts.value \in Int
      BY DEF Timestamps
    <2> QED
      BY <1>1, <2>1 DEF RxInfo
  <1>4. gps \in SUBSET (1..n) /\ timed \in SUBSET (1..n)
    BY <1>2 DEF GpsGateways, TimeGateways
  <1>5. /\ gps = {i \in DOMAIN rxInfo : rxInfo[i].timeSinceGpsEpoch # Absent}
        /\ timed = {i \in DOMAIN rxInfo \ gps : rxInfo[i].time # Nil}
    BY DEF GpsGateways, TimeGateways
  <1> DEFINE read == IF gps = {} THEN 0 ELSE Duration(rxInfo[Max(gps)].timeSinceGpsEpoch)
             field == IF timed = {} THEN now - LeapSeconds
                      ELSE rxInfo[Max(timed)].time.value
             allowed_ == AllowedErrors(rxInfo, t)
  <1>6. UplinkTime(rxInfo) = IF read # 0 THEN read ELSE field + LeapSeconds
    BY DEF UplinkTime, TimeSinceGPSEpoch, Timestamp
  <1> DEFINE sound == {i \in gps : rxInfo[i].timeSinceGpsEpoch # Invalid}
             fallback == IF timed = {} THEN 0..(now - t)
                         ELSE {rxInfo[i].time.value + LeapSeconds - t : i \in timed}
  <1>7. allowed_ = IF sound = {} THEN fallback
                   ELSE IF sound = gps THEN {0} ELSE {0} \cup fallback
    BY <1>5 DEF AllowedErrors
  <1>8. fallback \subseteq Int
    <2>1. \A i \in timed : rxInfo[i].time.value \in Int
      BY <1>3, <1>4, <1>5
    <2>2. \A i \in timed : rxInfo[i].time.value + LeapSeconds - t \in Int
      BY <2>1
    <2> HIDE DEF timed
    <2> QED
      BY <2>2
  \* What is computed without a GPS time is an error of the fallback.
  <1>9. field \in Int /\ (field + LeapSeconds) - t \in fallback
    <2>1. CASE timed = {}
      BY <2>1
    <2>2. CASE timed # {}
      <3>1. Max(timed) \in timed
        BY <1>2, <1>4, <2>2, MaxOfGateways
      <3>2. rxInfo[Max(timed)].time.value \in Int
        BY <1>3, <1>4, <1>5, <3>1
      <3>3. field = rxInfo[Max(timed)].time.value
        BY <2>2
      <3>4. rxInfo[Max(timed)].time.value + LeapSeconds - t \in fallback
        BY <2>2, <3>1
      <3> QED
        BY <3>2, <3>3, <3>4
    <2> QED
      BY <2>1, <2>2
  \* The GPS time that is read is 0, unless it is sound.
  <1>10. /\ sound = {} => read = 0
         /\ sound # {} => read \in {0, t}
         /\ sound # {} /\ sound = gps => read = t
    <2>1. ASSUME gps # {} PROVE Max(gps) \in gps
      BY <1>2, <1>4, <2>1, MaxOfGateways
    <2>2. \A i \in gps : rxInfo[i].timeSinceGpsEpoch \in {Invalid, t}
      BY <1>3, <1>4, <1>5
    <2> QED
      BY <2>1, <2>2 DEF Duration
  <1> HIDE DEF read, field, fallback, sound, allowed_
  <1>11. CASE read = 0
    <2>1. UplinkTime(rxInfo) = field + LeapSeconds
      BY <1>6, <1>11
    <2>2. ~(sound # {} /\ sound = gps)
      BY <1>10, <1>11
    <2> QED
      BY <1>7, <1>8, <1>9, <2>1, <2>2 DEF allowed_
  <1>12. CASE read # 0
    <2>1. read = t /\ sound # {} /\ UplinkTime(rxInfo) = t
      BY <1>6, <1>10, <1>12
    <2>2. 0 \in allowed_ /\ allowed_ \subseteq Int
      BY <1>7, <1>8, <2>1
    <2> QED
      BY <2>1, <2>2 DEF allowed_
  <1> QED
    BY <1>11, <1>12

-----------------------------------------------------------------------------
(* The inductive invariant.                                                *)

\* The token of a device that has applied c corrections.
Follows(c, tk) == \E k \in Int : c = tk + k * Tokens

\* The messages in flight, with the numbers that the model gives them.
MessagesOK ==
  /\ \A up \in uplinks : /\ up.deviceTime \in 0..(Modulus - 1)
                         /\ up.receivedAt \in StartTime..now
                         /\ up.corrections \in 0..corrections
                         /\ up.tokenReq \in 0..(Tokens - 1)
                         /\ Follows(up.corrections, up.tokenReq)
  /\ \A down \in downlinks : /\ down.timeCorrection \in Int
                             /\ 2 * down.timeCorrection \in -Modulus..(Modulus - 1)
                             /\ down.corrections \in 0..corrections
                             /\ down.tokenAns \in 0..(Tokens - 1)
                             /\ Follows(down.corrections, down.tokenAns)
                             /\ down.allowed \subseteq Int

NumbersOK ==
  /\ now \in Nat /\ now >= StartTime
  /\ deviceClock \in 0..(Modulus - 1)
  /\ requests \in 0..MaxRequests
  /\ corrections \in Nat
  /\ token \in 0..(Tokens - 1) /\ Follows(corrections, token)
  /\ lag \in 0..corrections
  /\ allowed \subseteq Int

\* Every correction has used up a request, and every message is one.
RequestsBound ==
  /\ IsFiniteSet(uplinks) /\ IsFiniteSet(downlinks)
  /\ corrections + Cardinality(uplinks) + Cardinality(downlinks) <= requests

\* Between two corrections the clock of the device runs with the network's, so
\* that the error an uplink shows is the error of the clock when it is answered.
UplinksShowClock ==
  \A up \in uplinks : up.corrections = corrections =>
    SameClock(deviceClock - now, up.deviceTime - up.receivedAt)

DownlinksSetClock ==
  \A down \in downlinks : down.corrections = corrections =>
    \E error \in down.allowed : SameClock((deviceClock - now) + down.timeCorrection, error)

ClockSet ==
  corrections > 0 /\ lag < Tokens =>
    \E error \in allowed : SameClock(deviceClock - now, error)

IInv == /\ NumbersOK
        /\ MessagesOK
        /\ RequestsBound
        /\ UplinksShowClock
        /\ DownlinksSetClock
        /\ ClockSet

-----------------------------------------------------------------------------

\* While there is a request, or an answer, corrections are fewer than requests.
LEMMA CorrectionsBound ==
  ASSUME NumbersOK, RequestsBound
  PROVE  corrections <= MaxRequests
  <1>1. Cardinality(uplinks) \in Nat /\ Cardinality(downlinks) \in Nat
    BY FS_CardinalityType DEF RequestsBound
  <1>2. /\ corrections \in Nat /\ requests \in 0..MaxRequests /\ MaxRequests \in Nat
        /\ corrections + Cardinality(uplinks) + Cardinality(downlinks) <= requests
    BY ClockSyncAssumption DEF NumbersOK, RequestsBound
  <1> QED
    BY <1>1, <1>2

\* Two multiples of Tokens that are less than Tokens apart are the same.
LEMMA SameRound ==
  ASSUME NEW m \in Int, -Tokens < m * Tokens, m * Tokens < Tokens
  PROVE  m = 0
  <1>1. Tokens \in Nat \ {0}
    BY ClockSyncAssumption
  <1>2. CASE m >= 1
    <2>1. (m - 1) * Tokens >= 0 /\ m * Tokens = (m - 1) * Tokens + Tokens
      BY <1>1, <1>2
    <2> QED
      BY <1>1, <2>1
  <1>3. CASE m <= -1
    <2>1. (-1 - m) * Tokens >= 0 /\ m * Tokens = -((-1 - m) * Tokens) - Tokens
      BY <1>1, <1>3
    <2> QED
      BY <1>1, <2>1
  <1> QED
    BY <1>2, <1>3

\* The token of an answer tells how many corrections it follows, of the last
\* Tokens of them.
LEMMA TokenIdentifiesClock ==
  ASSUME NumbersOK, MessagesOK
  PROVE  AnswersMatchClock
  <1> SUFFICES ASSUME NEW down \in downlinks, corrections - down.corrections < Tokens
               PROVE  down.tokenAns = token <=> down.corrections = corrections
    BY DEF AnswersMatchClock
  <1>1. PICK k \in Int : corrections = token + k * Tokens
    BY DEF NumbersOK, Follows
  <1>2. PICK l \in Int : down.corrections = down.tokenAns + l * Tokens
    BY DEF MessagesOK, Follows
  <1>3. /\ Tokens \in Nat \ {0} /\ corrections \in Nat /\ down.corrections \in 0..corrections
        /\ token \in 0..(Tokens - 1) /\ down.tokenAns \in 0..(Tokens - 1)
    BY ClockSyncAssumption DEF NumbersOK, MessagesOK
  <1>4. /\ k - l \in Int /\ (k - l) * Tokens = k * Tokens - l * Tokens
        /\ k * Tokens \in Int /\ l * Tokens \in Int /\ (k - l) * Tokens \in Int
    BY <1>3
  <1> DEFINE m == k - l
  <1>5. m \in Int /\ corrections - down.corrections = (token - down.tokenAns) + m * Tokens
        /\ m * Tokens \in Int
    BY <1>1, <1>2, <1>3, <1>4
  <1> HIDE DEF m
  <1>6. CASE down.tokenAns = token
    <2>1. corrections - down.corrections = m * Tokens
      BY <1>3, <1>5, <1>6
    <2>2. m = 0
      BY <1>3, <1>5, <2>1, SameRound
    <2>3. m * Tokens = 0
      BY <1>3, <2>2
    <2> QED
      BY <1>3, <1>6, <2>1, <2>3
  <1>7. CASE down.corrections = corrections
    <2> DEFINE turns == m * Tokens
    <2>1. turns \in Int /\ corrections - down.corrections = (token - down.tokenAns) + turns
      BY <1>5
    <2> HIDE DEF turns
    <2>2. -Tokens < turns /\ turns < Tokens /\ (turns = 0 => down.tokenAns = token)
      <3>1. corrections - down.corrections = 0
        BY <1>3, <1>7
      <3>2. 0 = (token - down.tokenAns) + turns
        BY <2>1, <3>1
      <3>3. \A a, b \in 0..(Tokens - 1) : \A x \in Int : 0 = (a - b) + x =>
              -Tokens < x /\ x < Tokens /\ (x = 0 => b = a)
        BY <1>3
      <3> QED
        BY <1>3, <2>1, <3>2, <3>3
    <2>3. m = 0
      BY <1>5, <2>2, SameRound DEF turns
    <2>4. turns = 0
      BY <1>3, <2>3 DEF turns
    <2> QED
      BY <1>7, <2>2, <2>4
  <1> QED
    BY <1>6, <1>7

\* The device counts a correction and its token on together.
LEMMA NextToken ==
  ASSUME NEW c \in Nat, NEW tk \in 0..(Tokens - 1), Follows(c, tk)
  PROVE  (tk + 1) % Tokens \in 0..(Tokens - 1) /\ Follows(c + 1, (tk + 1) % Tokens)
  <1>1. Tokens \in Nat \ {0} /\ tk + 1 \in Nat
    BY ClockSyncAssumption
  <1>2. PICK k \in Int : c = tk + k * Tokens
    BY DEF Follows
  <1> DEFINE q == (tk + 1) \div Tokens
             r == (tk + 1) % Tokens
  <1>3. q \in Int /\ r \in 0..(Tokens - 1) /\ tk + 1 = Tokens * q + r
    BY <1>1
  <1> HIDE DEF q, r
  <1>4. /\ (k + q) * Tokens = k * Tokens + Tokens * q /\ k + q \in Int
        /\ k * Tokens \in Int /\ Tokens * q \in Int
    BY <1>1, <1>3
  <1>5. c + 1 = r + (k + q) * Tokens
    BY <1>2, <1>3, <1>4
  <1> QED
    BY <1>3, <1>4, <1>5 DEF Follows, r

LEMMA InitEstablishes == Init => IInv
  <1> SUFFICES ASSUME Init PROVE IInv
    OBVIOUS
  <1> USE ClockSyncAssumption DEF Init
  <1>1. NumbersOK
    <2>1. 0 = 0 + 0 * Tokens
      OBVIOUS
    <2> QED
      BY <2>1 DEF NumbersOK, Follows
  <1>2. RequestsBound
    BY FS_EmptySet DEF RequestsBound
  <1> QED
    BY <1>1, <1>2 DEF IInv, MessagesOK, UplinksShowClock, DownlinksSetClock, ClockSet

-----------------------------------------------------------------------------
(* The steps.                                                              *)

LEMMA TickPreserves ==
  ASSUME IInv, Tick
  PROVE  IInv'
  <1> USE DEF IInv
  <1>1. /\ now' = now + 1 /\ deviceClock' = (deviceClock + 1) % Modulus
        /\ UNCHANGED <<token, corrections, allowed, lag, requests, uplinks, downlinks>>
    BY DEF Tick
  <1>2. /\ now \in Nat /\ deviceClock \in Int /\ deviceClock + 1 \in Int
        /\ corrections \in Nat
    BY ClockSyncAssumption DEF NumbersOK
  <1>3. deviceClock' \in 0..(Modulus - 1) /\ SameClock(deviceClock', deviceClock + 1)
    BY <1>1, <1>2, SameClockModulo
  <1>4. now' \in Int /\ deviceClock' \in Int /\ SameClock(now', now + 1)
    BY <1>1, <1>2, <1>3, SameClockRefl, ClockSyncAssumption
  <1>5. SameClock(deviceClock' - now', deviceClock - now)
    <2>1. SameClock(deviceClock' - now', (deviceClock + 1) - (now + 1))
      BY <1>2, <1>3, <1>4, SameClockSum
    <2>2. (deviceClock + 1) - (now + 1) = deviceClock - now
      BY <1>2
    <2> QED
      BY <2>1, <2>2
  <1>6. NumbersOK' /\ MessagesOK' /\ RequestsBound'
    BY <1>1, <1>2, <1>3, ClockSyncAssumption DEF NumbersOK, MessagesOK, RequestsBound
  <1>7. deviceClock - now \in Int /\ deviceClock' - now' \in Int
    BY <1>2, <1>4
  <1>8. UplinksShowClock'
    <2> SUFFICES ASSUME NEW up \in uplinks, up.corrections = corrections
                 PROVE  SameClock(deviceClock' - now', up.deviceTime - up.receivedAt)
      BY <1>1 DEF UplinksShowClock
    <2>1. up.deviceTime - up.receivedAt \in Int
      BY <1>2, ClockSyncAssumption DEF MessagesOK
    <2>2. SameClock(deviceClock - now, up.deviceTime - up.receivedAt)
      BY DEF UplinksShowClock
    <2> QED
      BY <1>5, <1>7, <2>1, <2>2, SameClockTransitive
  <1>9. DownlinksSetClock'
    <2> SUFFICES ASSUME NEW down \in downlinks, down.corrections = corrections
                 PROVE  \E error \in down.allowed :
                          SameClock((deviceClock' - now') + down.timeCorrection, error)
      BY <1>1 DEF DownlinksSetClock
    <2>1. PICK error \in down.allowed :
            SameClock((deviceClock - now) + down.timeCorrection, error)
      BY DEF DownlinksSetClock
    <2>2. down.timeCorrection \in Int /\ error \in Int
      BY DEF MessagesOK
    <2>3. SameClock((deviceClock' - now') + down.timeCorrection,
                    (deviceClock - now) + down.timeCorrection)
      BY <1>5, <1>7, <2>2, SameClockRefl, SameClockSum
    <2>4. /\ (deviceClock' - now') + down.timeCorrection \in Int
          /\ (deviceClock - now) + down.timeCorrection \in Int
      BY <1>7, <2>2
    <2>5. SameClock((deviceClock' - now') + down.timeCorrection, error)
      BY <2>1, <2>2, <2>3, <2>4, SameClockTransitive
    <2> QED
      BY <2>5
  <1>10. ClockSet'
    <2> SUFFICES ASSUME corrections > 0, lag < Tokens
                 PROVE  \E error \in allowed : SameClock(deviceClock' - now', error)
      BY <1>1 DEF ClockSet
    <2>1. PICK error \in allowed : SameClock(deviceClock - now, error)
      BY DEF ClockSet
    <2>2. error \in Int
      BY DEF NumbersOK
    <2> QED
      BY <1>5, <1>7, <2>1, <2>2, SameClockTransitive
  <1> QED
    BY <1>6, <1>8, <1>9, <1>10

LEMMA AppTimeReqPreserves ==
  ASSUME IInv, AppTimeReq
  PROVE  IInv'
  <1> USE DEF IInv
  <1> DEFINE up_ == [deviceTime |-> deviceClock, tokenReq |-> token,
                     receivedAt |-> now, corrections |-> corrections]
  <1>1. /\ requests < MaxRequests /\ requests' = requests + 1
        /\ uplinks' = uplinks \cup {up_}
        /\ UNCHANGED <<now, deviceClock, token, corrections, allowed, lag, downlinks>>
    BY DEF AppTimeReq
  <1>2. NumbersOK'
    BY <1>1, ClockSyncAssumption DEF NumbersOK
  <1>3. /\ up_.deviceTime = deviceClock /\ up_.tokenReq = token
        /\ up_.receivedAt = now /\ up_.corrections = corrections
    OBVIOUS
  <1> HIDE DEF up_
  <1>4. MessagesOK'
    BY <1>1, <1>3, ClockSyncAssumption DEF MessagesOK, NumbersOK
  <1>5. RequestsBound'
    <2>1. /\ IsFiniteSet(uplinks') /\ Cardinality(uplinks') <= Cardinality(uplinks) + 1
          /\ Cardinality(uplinks) \in Nat /\ Cardinality(uplinks') \in Nat
      <3>1. IsFiniteSet(uplinks) /\ Cardinality(uplinks) \in Nat
        BY FS_CardinalityType DEF RequestsBound
      <3>2. /\ IsFiniteSet(uplinks')
            /\ Cardinality(uplinks') = IF up_ \in uplinks THEN Cardinality(uplinks)
                                       ELSE Cardinality(uplinks) + 1
        BY <1>1, <3>1, FS_AddElement
      <3> QED
        BY <3>1, <3>2
    <2>2. /\ corrections \in Nat /\ requests \in Nat /\ Cardinality(downlinks) \in Nat
          /\ corrections + Cardinality(uplinks) + Cardinality(downlinks) <= requests
      BY FS_CardinalityType, ClockSyncAssumption DEF NumbersOK, RequestsBound
    <2>3. corrections + Cardinality(uplinks') + Cardinality(downlinks) <= requests + 1
      BY <2>1, <2>2
    <2> QED
      BY <1>1, <2>1, <2>3 DEF RequestsBound
  <1>6. SameClock(deviceClock - now, deviceClock - now)
    BY SameClockRefl, ClockSyncAssumption DEF NumbersOK
  <1>7. UplinksShowClock'
    BY <1>1, <1>3, <1>6 DEF UplinksShowClock
  <1> QED
    BY <1>1, <1>2, <1>4, <1>5, <1>7 DEF DownlinksSetClock, ClockSet

\* The answer sets the clock that the request has shown, whenever it is handled.
LEMMA AnswerSetsClock ==
  ASSUME IInv, NEW up \in uplinks, NEW rxInfo \in RxInfos(up.receivedAt)
  PROVE  LET c == TimeCorrection(UplinkTime(rxInfo), up.deviceTime)
             errors == AllowedErrors(rxInfo, up.receivedAt)
         IN  /\ c \in Int /\ 2 * c \in -Modulus..(Modulus - 1)
             /\ errors \subseteq Int
             /\ up.corrections = corrections =>
                  \E error \in errors : SameClock((deviceClock - now) + c, error)
  <1> USE DEF IInv
  <1> DEFINE u == UplinkTime(rxInfo)
             c == TimeCorrection(u, up.deviceTime)
             t == up.receivedAt
             errors == AllowedErrors(rxInfo, t)
             drift == deviceClock - now
  <1>1. /\ t \in Nat /\ t > LeapSeconds + MaxSkew /\ now \in Nat /\ t <= now
        /\ up.deviceTime \in Int /\ deviceClock \in Int
    BY ClockSyncAssumption DEF MessagesOK, NumbersOK
  <1>2. u \in Int /\ errors \subseteq Int /\ u - t \in errors
    BY <1>1, UplinkTimeError
  <1>3. /\ c \in Int /\ 2 * c \in -Modulus..(Modulus - 1)
        /\ SameClock(c, u - up.deviceTime)
    BY <1>1, <1>2, TimeCorrectionSame
  <1>4. ASSUME up.corrections = corrections
        PROVE  SameClock(drift + c, u - t)
    <2>1. SameClock(drift, up.deviceTime - t)
      BY <1>4 DEF UplinksShowClock
    <2>2. /\ drift \in Int /\ up.deviceTime - t \in Int /\ u - up.deviceTime \in Int
      BY <1>1, <1>2
    <2> HIDE DEF u, c, t, drift
    <2>3. SameClock(drift + c, (up.deviceTime - t) + (u - up.deviceTime))
      BY <1>3, <2>1, <2>2, SameClockSum
    <2>4. (up.deviceTime - t) + (u - up.deviceTime) = u - t
      BY <1>1, <1>2
    <2> QED
      BY <2>3, <2>4
  <1> HIDE DEF u
  <1>5. up.corrections = corrections => \E error \in errors : SameClock(drift + c, error)
    BY <1>2, <1>4
  <1> QED
    BY <1>2, <1>3, <1>5 DEF u

LEMMA HandlePreserves ==
  ASSUME IInv, NEW up \in uplinks, NEW rxInfo \in RxInfos(up.receivedAt),
         HandleAppTimeReq(up, rxInfo)
  PROVE  IInv'
  <1> USE DEF IInv
  <1> DEFINE c == TimeCorrection(UplinkTime(rxInfo), up.deviceTime)
             errors == AllowedErrors(rxInfo, up.receivedAt)
             down_ == [timeCorrection |-> c, tokenAns |-> up.tokenReq,
                       allowed |-> errors, corrections |-> up.corrections]
  <1>1. /\ uplinks' = uplinks \ {up} /\ downlinks' = downlinks \cup {down_}
        /\ UNCHANGED <<now, deviceClock, token, corrections, allowed, lag, requests>>
    BY DEF HandleAppTimeReq, TokenAns
  <1>2. /\ c \in Int /\ 2 * c \in -Modulus..(Modulus - 1) /\ errors \subseteq Int
        /\ up.corrections = corrections =>
             \E error \in errors : SameClock((deviceClock - now) + c, error)
    BY AnswerSetsClock
  <1> HIDE DEF c, errors
  <1>3. /\ down_.timeCorrection = c /\ down_.tokenAns = up.tokenReq
        /\ down_.allowed = errors /\ down_.corrections = up.corrections
    OBVIOUS
  <1> HIDE DEF down_
  <1>4. NumbersOK' /\ UplinksShowClock' /\ ClockSet'
    BY <1>1 DEF NumbersOK, UplinksShowClock, ClockSet
  <1>5. MessagesOK'
    BY <1>1, <1>2, <1>3 DEF MessagesOK
  <1>6. DownlinksSetClock'
    BY <1>1, <1>2, <1>3 DEF DownlinksSetClock
  <1>7. RequestsBound'
    <2>1. /\ IsFiniteSet(uplinks') /\ Cardinality(uplinks') = Cardinality(uplinks) - 1
          /\ IsFiniteSet(downlinks') /\ Cardinality(downlinks') <= Cardinality(downlinks) + 1
          /\ Cardinality(uplinks) \in Nat /\ Cardinality(uplinks') \in Nat
          /\ Cardinality(downlinks) \in Nat /\ Cardinality(downlinks') \in Nat
      <3>1. /\ IsFiniteSet(uplinks) /\ Cardinality(uplinks) \in Nat
            /\ IsFiniteSet(downlinks) /\ Cardinality(downlinks) \in Nat
        BY FS_CardinalityType DEF RequestsBound
      <3>2. IsFiniteSet(uplinks') /\ Cardinality(uplinks') = Cardinality(uplinks) - 1
        BY <1>1, <3>1, FS_RemoveElement
      <3>3. /\ IsFiniteSet(downlinks')
            /\ Cardinality(downlinks') = IF down_ \in downlinks THEN Cardinality(downlinks)
                                         ELSE Cardinality(downlinks) + 1
        BY <1>1, <3>1, FS_AddElement
      <3>4. Cardinality(uplinks') \in Nat
        BY <3>2, FS_CardinalityType
      <3> QED
        BY <3>1, <3>2, <3>3, <3>4
    <2>2. /\ corrections \in Nat /\ requests \in Nat
          /\ corrections + Cardinality(uplinks) + Cardinality(downlinks) <= requests
      BY ClockSyncAssumption DEF NumbersOK, RequestsBound
    <2>3. corrections + Cardinality(uplinks') + Cardinality(downlinks') <= requests
      BY <2>1, <2>2
    <2> QED
      BY <1>1, <2>1, <2>3 DEF RequestsBound
  <1> QED
    BY <1>4, <1>5, <1>6, <1>7

LEMMA LossPreserves ==
  ASSUME IInv,
         \/ \E up \in uplinks : LoseRequest(up)
         \/ \E down \in downlinks : LoseAnswer(down)
  PROVE  IInv'
  <1> USE DEF IInv
  <1>1. /\ \/ (\E up \in uplinks : uplinks' = uplinks \ {up}) /\ downlinks' = downlinks
           \/ (\E down \in downlinks : downlinks' = downlinks \ {down}) /\ uplinks' = uplinks
        /\ UNCHANGED <<now, deviceClock, token, corrections, allowed, lag, requests>>
    BY DEF LoseRequest, LoseAnswer
  <1>2. uplinks' \subseteq uplinks /\ downlinks' \subseteq downlinks
    BY <1>1
  <1>3. NumbersOK' /\ MessagesOK' /\ UplinksShowClock' /\ DownlinksSetClock' /\ ClockSet'
    BY <1>1, <1>2
    DEF NumbersOK, MessagesOK, UplinksShowClock, DownlinksSetClock, ClockSet
  <1>4. RequestsBound'
    <2>1. /\ IsFiniteSet(uplinks') /\ Cardinality(uplinks') <= Cardinality(uplinks)
          /\ IsFiniteSet(downlinks') /\ Cardinality(downlinks') <= Cardinality(downlinks)
          /\ Cardinality(uplinks) \in Nat /\ Cardinality(uplinks') \in Nat
          /\ Cardinality(downlinks) \in Nat /\ Cardinality(downlinks') \in Nat
      BY <1>2, FS_Subset, FS_CardinalityType DEF RequestsBound
    <2>2. /\ corrections \in Nat /\ requests \in Nat
          /\ corrections + Cardinality(uplinks) + Cardinality(downlinks) <= requests
      BY ClockSyncAssumption DEF NumbersOK, RequestsBound
    <2>3. corrections + Cardinality(uplinks') + Cardinality(downlinks') <= requests
      BY <2>1, <2>2
    <2> QED
      BY <1>1, <2>1, <2>3 DEF RequestsBound
  <1> QED
    BY <1>3, <1>4

LEMMA AppTimeAnsPreserves ==
  ASSUME IInv, NEW down \in downlinks, AppTimeAns(down)
  PROVE  IInv'
  <1> USE DEF IInv
  <1>1. CASE down.tokenAns # token
    <2>1. LoseAnswer(down)
      BY <1>1 DEF AppTimeAns, LoseAnswer
    <2> QED
      BY <2>1, LossPreserves
  <1>2. CASE down.tokenAns = token
    <2>1. /\ downlinks' = downlinks \ {down}
          /\ deviceClock' = (deviceClock + down.timeCorrection) % Modulus
          /\ token' = (token + 1) % Tokens
          /\ corrections' = corrections + 1
          /\ allowed' = down.allowed
          /\ lag' = corrections - down.corrections
          /\ UNCHANGED <<now, requests, uplinks>>
      BY <1>2 DEF AppTimeAns
    <2>2. lag' < Tokens => down.corrections = corrections
      BY <1>2, <2>1, TokenIdentifiesClock DEF AnswersMatchClock
    <2>3. /\ deviceClock \in Int /\ now \in Nat /\ down.timeCorrection \in Int
          /\ deviceClock + down.timeCorrection \in Int
          /\ corrections \in Nat /\ down.corrections \in 0..corrections
      BY ClockSyncAssumption DEF NumbersOK, MessagesOK
    <2>4. /\ deviceClock' \in 0..(Modulus - 1) /\ deviceClock' \in Int
          /\ SameClock(deviceClock', deviceClock + down.timeCorrection)
      BY <2>1, <2>3, SameClockModulo, ClockSyncAssumption
    <2>5. token' \in 0..(Tokens - 1) /\ Follows(corrections', token')
      BY <2>1, <2>3, NextToken DEF NumbersOK
    <2>6. NumbersOK'
      BY <2>1, <2>3, <2>4, <2>5 DEF NumbersOK, MessagesOK
    <2>7. MessagesOK'
      BY <2>1, <2>3 DEF MessagesOK
    <2>8. UplinksShowClock' /\ DownlinksSetClock'
      BY <2>1, <2>3 DEF MessagesOK, UplinksShowClock, DownlinksSetClock
    <2>9. ASSUME lag' < Tokens
          PROVE  \E error \in allowed' : SameClock(deviceClock' - now', error)
      <3>1. PICK error \in down.allowed :
              SameClock((deviceClock - now) + down.timeCorrection, error)
        BY <2>2, <2>9 DEF DownlinksSetClock
      <3>2. error \in Int
        BY DEF MessagesOK
      <3>3. SameClock(deviceClock' - now, (deviceClock + down.timeCorrection) - now)
        BY <2>3, <2>4, SameClockRefl, SameClockSum
      <3>4. /\ (deviceClock + down.timeCorrection) - now
                 = (deviceClock - now) + down.timeCorrection
            /\ deviceClock' - now \in Int
            /\ (deviceClock - now) + down.timeCorrection \in Int
        BY <2>3, <2>4
      <3>5. SameClock(deviceClock' - now, error)
        BY <3>1, <3>2, <3>3, <3>4, SameClockTransitive
      <3> QED
        BY <2>1, <3>5
    <2>10. RequestsBound'
      <3>1. /\ IsFiniteSet(downlinks') /\ Cardinality(downlinks') = Cardinality(downlinks) - 1
            /\ Cardinality(uplinks) \in Nat
            /\ Cardinality(downlinks) \in Nat /\ Cardinality(downlinks') \in Nat
        BY <2>1, FS_RemoveElement, FS_CardinalityType DEF RequestsBound
      <3>2. /\ requests \in Nat
            /\ corrections + Cardinality(uplinks) + Cardinality(downlinks) <= requests
        BY ClockSyncAssumption DEF NumbersOK, RequestsBound
      <3>3. (corrections + 1) + Cardinality(uplinks) + Cardinality(downlinks') <= requests
        BY <2>3, <3>1, <3>2
      <3> QED
        BY <2>1, <3>1, <3>3 DEF RequestsBound
    <2> QED
      BY <2>6, <2>7, <2>8, <2>9, <2>10 DEF ClockSet
  <1> QED
    BY <1>1, <1>2

THEOREM Invariance == Spec => []IInv
  <1>1. ASSUME IInv, [Next]_vars PROVE IInv'
    <2>1. CASE UNCHANGED vars
      BY <1>1, <2>1
      DEF vars, IInv, NumbersOK, MessagesOK, RequestsBound, UplinksShowClock,
          DownlinksSetClock, ClockSet
    <2> QED
      BY <1>1, <2>1, TickPreserves, AppTimeReqPreserves, HandlePreserves, LossPreserves,
         AppTimeAnsPreserves
      DEF Next
  <1> QED
    BY <1>1, InitEstablishes, PTL DEF Spec

-----------------------------------------------------------------------------
(* The properties.                                                         *)

\* The types of the module: every correction has 32 bits, and a device is never
\* corrected more often than it has asked.
THEOREM TypeCorrect == Spec => []TypeOK
  <1>1. ASSUME IInv PROVE TypeOK
    <2> USE <1>1 DEF IInv
    <2>1. corrections \in 0..MaxRequests /\ lag \in 0..MaxRequests
      BY CorrectionsBound, ClockSyncAssumption DEF NumbersOK
    <2> QED
      BY <2>1 DEF TypeOK, NumbersOK, MessagesOK
  <1> QED
    BY <1>1, Invariance, PTL

\* A device applies the answers to its clock as it is, and no others, until its
\* tokens come round (clocksync.go:90-93), over any number of rounds.
THEOREM DeviceAppliesItsAnswers == Spec => []AnswersMatchClock
  <1>1. IInv => AnswersMatchClock
    BY TokenIdentifiesClock DEF IInv
  <1> QED
    BY <1>1, Invariance, PTL

\* A corrected clock agrees with the network's to what the metadata allowed, for
\* every modulus and every reading, order and number of gateways, times that do
\* not convert among them.
THEOREM CorrectionSetsClock == Spec => []ClockAgrees
  <1>1. ASSUME IInv PROVE ClockAgrees
    <2> SUFFICES ASSUME corrections > 0, lag < Tokens
                 PROVE  \E error \in allowed : (deviceClock - now - error) % Modulus = 0
      BY DEF ClockAgrees
    <2>1. PICK error \in allowed : SameClock(deviceClock - now, error)
      BY <1>1 DEF IInv, ClockSet
    <2>2. error \in Int /\ deviceClock - now \in Int
      BY <1>1, ClockSyncAssumption DEF IInv, NumbersOK
    <2>3. SameClock((deviceClock - now) - error, error - error)
      BY <2>1, <2>2, SameClockRefl, SameClockSum
    <2>4. (deviceClock - now) - error \in Int /\ error - error = 0
      BY <2>2
    <2> QED
      BY <2>3, <2>4, SameClockZero
  <1> QED
    BY <1>1, Invariance, PTL
=============================================================================
