------------------------- MODULE FragmentationProofs -------------------------
(***************************************************************************)
(* Proofs about Fragmentation: for any length of the payload, any options   *)
(* and fields of any width, the file that a device puts together is the     *)
(* payload, and a device that has heard every fragment can put it together. *)
(***************************************************************************)
EXTENDS Fragmentation, TLAPS

-----------------------------------------------------------------------------
(* The arithmetic of padding and rows.                                     *)

LEMMA TimesMonotone ==
  ASSUME NEW a \in Nat, NEW b \in Nat, NEW c \in Nat, a <= b
  PROVE  a * c <= c * b
  <1>1. PICK d \in Nat : b = a + d
    <2>1. b - a \in Nat /\ b = a + (b - a)
      OBVIOUS
    <2> QED
      BY <2>1
  <1>2. c * b = c * a + c * d
    BY <1>1
  <1>3. c * d \in Nat /\ a * c = c * a /\ c * a \in Nat
    OBVIOUS
  <1> QED
    BY <1>2, <1>3

LEMMA DivMod ==
  ASSUME NEW n \in Nat, NEW s \in Nat \ {0}
  PROVE  /\ n \div s \in Nat /\ n % s \in 0..(s - 1)
         /\ n = s * (n \div s) + (n % s)
  OBVIOUS

LEMMA DivUnique ==
  ASSUME NEW k \in Nat, NEW s \in Nat \ {0}, NEW r \in 0..(s - 1)
  PROVE  (s * k + r) \div s = k /\ (s * k + r) % s = r
  OBVIOUS

\* The padding fills the last row, and no more.
LEMMA PaddingFillsRow ==
  ASSUME NEW length \in Nat, NEW s \in Nat \ {0}
  PROVE  /\ Padding(length, s) \in 0..(s - 1)
         /\ length + Padding(length, s) \in Nat
         /\ (length + Padding(length, s)) \div s \in Nat
         /\ length + Padding(length, s) = s * ((length + Padding(length, s)) \div s)
  <1> DEFINE q == length \div s
             r == length % s
  <1>1. q \in Nat /\ r \in 0..(s - 1) /\ length = s * q + r
    BY DivMod
  <1>2. Padding(length, s) = (s - r) % s
    BY DEF Padding
  <1> HIDE DEF q, r
  <1>3. CASE r = 0
    <2>1. Padding(length, s) = 0
      BY <1>2, <1>3
    <2>2. (s * q + 0) \div s = q
      BY <1>1, DivUnique
    <2> QED
      BY <1>1, <1>3, <2>1, <2>2
  <1>4. CASE r # 0
    <2>1. s - r \in 0..(s - 1)
      BY <1>1, <1>4
    <2>2. Padding(length, s) = s - r
      BY <1>2, <2>1
    <2>3. s * (q + 1) = s * q + s
      BY <1>1
    <2>4. q + 1 \in Nat /\ length + (s - r) = s * (q + 1) + 0
      BY <1>1, <2>3
    <2>5. (s * (q + 1) + 0) \div s = q + 1
      BY <2>4, DivUnique
    <2> QED
      BY <1>1, <2>1, <2>2, <2>3, <2>4, <2>5
  <1> QED
    BY <1>3, <1>4

\* Byte p of k rows of s bytes is a byte of one of the rows.
LEMMA ByteOfRow ==
  ASSUME NEW k \in Nat, NEW s \in Nat \ {0}, NEW p \in 1..(s * k)
  PROVE  LET i == ((p - 1) \div s) + 1
             j == ((p - 1) % s) + 1
         IN  i \in 1..k /\ j \in 1..s /\ ((i - 1) * s) + j = p
  <1> DEFINE q == (p - 1) \div s
             r == (p - 1) % s
  <1>1. s * k \in Nat /\ p \in Nat /\ p - 1 \in Nat /\ p - 1 < s * k
    OBVIOUS
  <1>2. q \in Nat /\ r \in 0..(s - 1) /\ p - 1 = s * q + r
    BY <1>1, DivMod
  <1> HIDE DEF q, r
  <1>3. q < k
    <2> SUFFICES ASSUME q >= k PROVE FALSE
      BY <1>2
    <2>1. s * q >= s * k
      BY <1>2
    <2> QED
      BY <1>1, <1>2, <2>1
  <1>4. ((q + 1) - 1) * s = s * q
    BY <1>2
  <1>5. q + 1 \in 1..k /\ r + 1 \in 1..s /\ (((q + 1) - 1) * s) + (r + 1) = p
    BY <1>1, <1>2, <1>3, <1>4
  <1> QED
    BY <1>5 DEF q, r

\* The number of rows of a payload.
NbRows(o) == (o.length + Padding(o.length, o.fragSize)) \div o.fragSize

OptionsOK(o) ==
  /\ o.length \in Nat /\ o.fragSize \in Nat \ {0} /\ o.redundancy \in Nat /\ o.groupID \in Nat

LEMMA PaddedRows ==
  ASSUME NEW o, OptionsOK(o)
  PROVE  /\ Padding(o.length, o.fragSize) \in 0..(o.fragSize - 1)
         /\ NbRows(o) \in Nat
         /\ Len(PaddedPayload(o)) = o.fragSize * NbRows(o)
         /\ Len(PaddedPayload(o)) \div o.fragSize = NbRows(o)
         /\ o.length + Padding(o.length, o.fragSize) = o.fragSize * NbRows(o)
         /\ \A p \in 1..(o.fragSize * NbRows(o)) :
              PaddedPayload(o)[p] = IF p <= o.length THEN p ELSE 0
  <1> DEFINE n == o.length + Padding(o.length, o.fragSize)
  <1>1. /\ Padding(o.length, o.fragSize) \in 0..(o.fragSize - 1)
        /\ n \in Nat /\ NbRows(o) \in Nat /\ n = o.fragSize * NbRows(o)
    BY PaddingFillsRow DEF OptionsOK, NbRows
  <1>2. PaddedPayload(o) = [i \in 1..n |-> IF i <= o.length THEN i ELSE 0]
    BY DEF PaddedPayload
  <1> HIDE DEF n
  <1>3. Len(PaddedPayload(o)) = n
    BY <1>1, <1>2
  <1>4. n \div o.fragSize = NbRows(o)
    BY DEF NbRows, n
  <1>5. \A p \in 1..n : PaddedPayload(o)[p] = IF p <= o.length THEN p ELSE 0
    BY <1>2
  <1> QED
    BY <1>1, <1>3, <1>4, <1>5 DEF n

\* The fragments are the rows, and redundancy more.
LEMMA FragmentsAreRows ==
  ASSUME NEW o, OptionsOK(o)
  PROVE  LET frags == Encode(PaddedPayload(o), o.fragSize, o.redundancy)
         IN  /\ Len(frags) = NbRows(o) + o.redundancy
             /\ \A i \in 1..NbRows(o) :
                  frags[i] = [j \in 1..o.fragSize |->
                                IF ((i - 1) * o.fragSize) + j <= o.length
                                  THEN ((i - 1) * o.fragSize) + j ELSE 0]
  <1> DEFINE s == o.fragSize
             data == PaddedPayload(o)
             frags == Encode(data, s, o.redundancy)
             row(i) == [j \in 1..s |-> data[((i - 1) * s) + j]]
  <1>1. /\ NbRows(o) \in Nat /\ s \in Nat \ {0} /\ o.redundancy \in Nat
        /\ Len(data) = s * NbRows(o) /\ Len(data) \div s = NbRows(o)
        /\ \A p \in 1..(s * NbRows(o)) : data[p] = IF p <= o.length THEN p ELSE 0
    BY PaddedRows DEF OptionsOK
  <1>2. frags = [i \in 1..(NbRows(o) + o.redundancy) |->
                   IF i * s <= Len(data) THEN row(i) ELSE <<>>]
    BY <1>1 DEF Encode
  <1> HIDE DEF data, frags, s
  <1>3. Len(frags) = NbRows(o) + o.redundancy
    BY <1>1, <1>2
  <1>4. ASSUME NEW i \in 1..NbRows(o)
        PROVE  frags[i] = [j \in 1..s |-> IF ((i - 1) * s) + j <= o.length
                                            THEN ((i - 1) * s) + j ELSE 0]
    <2>1. i \in 1..(NbRows(o) + o.redundancy) /\ i \in Nat /\ i <= NbRows(o)
      BY <1>1
    <2>2. i * s <= s * NbRows(o)
      BY <1>1, <2>1, TimesMonotone
    <2>3. frags[i] = row(i)
      BY <1>1, <1>2, <2>1, <2>2
    <2>4. ASSUME NEW j \in 1..s
          PROVE  ((i - 1) * s) + j \in 1..(s * NbRows(o))
      <3>1. (i - 1) * s = i * s - s
        BY <1>1, <2>1
      <3>2. i * s \in Nat /\ (i - 1) * s \in Nat /\ s * NbRows(o) \in Nat
        BY <1>1, <2>1
      <3> QED
        BY <1>1, <2>2, <3>1, <3>2
    <2>5. \A j \in 1..s : data[((i - 1) * s) + j]
                            = IF ((i - 1) * s) + j <= o.length
                                THEN ((i - 1) * s) + j ELSE 0
      BY <1>1, <2>4
    <2> QED
      BY <2>3, <2>5
  <1> QED
    BY <1>3, <1>4 DEF data, frags, s

-----------------------------------------------------------------------------
(* The inductive invariant.                                                *)

Frags == Encode(PaddedPayload(opts), opts.fragSize, opts.redundancy)

OptsOK ==
  /\ opts.length \in Lengths /\ opts.fragSize \in FragSizes
  /\ opts.redundancy \in Redundancies /\ opts.groupID \in 0..(Uint8 - 1)

\* Both steps compute from the same options.
StepsAgree ==
  /\ pc \in {"setup", "announced", "enqueue", "completed", "panic"}
  /\ announced = NoSession \/ (announced = SessionOf(opts) /\ opts.fragSize # 0)
  /\ session \in {NoSession, announced}
  /\ pc \in {"setup", "announced", "panic"} => fragments = <<>> /\ next = 0
  /\ pc \in {"announced", "enqueue", "completed"} => opts.fragSize # 0
  /\ pc \in {"enqueue", "completed"} => fragments = Frags
  /\ pc = "completed" => next = Len(fragments)
  /\ next \in Nat /\ next <= Len(fragments)

\* What is queued and received are fragments that the loop has passed.
QueueOK ==
  \A f \in queue : \E i \in 1..next :
    f = [fCnt |-> FrameCounter(i), n |-> FragmentNumber(i), data |-> fragments[i]]

ReceivedOK ==
  \A f \in received : \E i \in 1..next : f = [n |-> FragmentNumber(i), data |-> fragments[i]]

\* The queue is ahead of the device's counter.
CountersOK ==
  /\ fCnt \in Nat /\ fCnt <= next
  /\ \A f \in queue : fCnt <= f.fCnt

\* Nothing is lost but what is missed.
NothingElseLost ==
  /\ missed \in BOOLEAN
  /\ Fits /\ ~missed =>
       \A i \in 1..next : \/ \E f \in queue : f.fCnt = FrameCounter(i)
                          \/ \E f \in received : f.n = FragmentNumber(i)

IInv == /\ OptsOK
        /\ StepsAgree
        /\ QueueOK
        /\ ReceivedOK
        /\ CountersOK
        /\ NothingElseLost

-----------------------------------------------------------------------------

LEMMA OptsType ==
  ASSUME OptsOK, opts.fragSize # 0
  PROVE  OptionsOK(opts)
  <1>1. Uint8 \in Nat /\ Lengths \subseteq Nat /\ FragSizes \subseteq Nat
        /\ Redundancies \subseteq Nat
    BY FragmentationAssumption
  <1>2. /\ opts.length \in Lengths /\ opts.fragSize \in FragSizes
        /\ opts.redundancy \in Redundancies /\ opts.groupID \in 0..(Uint8 - 1)
    BY DEF OptsOK
  <1>3. opts.length \in Nat
    BY <1>1, <1>2
  <1>4. opts.fragSize \in Nat
    BY <1>1, <1>2
  <1>5. opts.redundancy \in Nat
    BY <1>1, <1>2
  <1>6. opts.groupID \in Nat
    BY <1>1, <1>2
  <1> QED
    BY <1>3, <1>4, <1>5, <1>6 DEF OptionsOK

LEMMA TruncateBounds ==
  ASSUME NEW w \in Nat \ {0}, NEW n \in Nat
  PROVE  Truncate(n, w) \in 0..(w - 1) /\ (n < w => Truncate(n, w) = n)
  BY DEF Truncate

\* Options that fit are announced as they are.
LEMMA FittingSession ==
  ASSUME OptsOK, Fits
  PROVE  /\ OptionsOK(opts)
         /\ SessionOf(opts) = [nbFrag   |-> NbRows(opts),
                               fragSize |-> opts.fragSize,
                               padding  |-> Padding(opts.length, opts.fragSize),
                               group    |-> TRUE]
         /\ NbRows(opts) + opts.redundancy < IndexN
  <1>1. opts.fragSize \in 1..(Uint8 - 1) /\ opts.fragSize # 0 /\ Uint8 \in Nat \ {0}
    BY FragmentationAssumption DEF Fits
  <1>2. OptionsOK(opts)
    BY <1>1, OptsType
  <1>3. /\ Padding(opts.length, opts.fragSize) \in 0..(opts.fragSize - 1)
        /\ NbRows(opts) \in Nat
        /\ Len(PaddedPayload(opts)) \div opts.fragSize = NbRows(opts)
    BY <1>2, PaddedRows
  <1>4. NbRows(opts) < Uint16 /\ NbRows(opts) + opts.redundancy < IndexN
        /\ opts.groupID < GroupIDs
    BY <1>3 DEF Fits
  <1>5. Uint16 \in Nat \ {0} /\ GroupIDs \in Nat
    BY FragmentationAssumption
  <1>6. /\ Truncate(NbRows(opts), Uint16) = NbRows(opts)
        /\ Truncate(opts.fragSize, Uint8) = opts.fragSize
        /\ Truncate(Padding(opts.length, opts.fragSize), Uint8)
             = Padding(opts.length, opts.fragSize)
    <2>1. opts.fragSize \in Nat /\ opts.fragSize < Uint8
      BY <1>1
    <2>2. /\ Padding(opts.length, opts.fragSize) \in Nat
          /\ Padding(opts.length, opts.fragSize) < Uint8
      BY <1>1, <1>3
    <2>3. Truncate(NbRows(opts), Uint16) = NbRows(opts)
      BY <1>3, <1>4, <1>5, TruncateBounds
    <2>4. Truncate(opts.fragSize, Uint8) = opts.fragSize
      BY <1>1, <2>1, TruncateBounds
    <2>5. Truncate(Padding(opts.length, opts.fragSize), Uint8)
             = Padding(opts.length, opts.fragSize)
      BY <1>1, <2>2, TruncateBounds
    <2> QED
      BY <2>3, <2>4, <2>5
  <1>7. opts.groupID \in 0..(GroupIDs - 1)
    BY <1>2, <1>4, <1>5 DEF OptionsOK
  <1> QED
    BY <1>2, <1>4, <1>6, <1>7 DEF SessionOf, NbRows

LEMMA InitEstablishes == Init => IInv
  <1> SUFFICES ASSUME Init PROVE IInv
    OBVIOUS
  <1>1. OptsOK
    <2>1. Uint8 \in Nat \ {0} /\ MulticastGroups \subseteq Nat
      BY FragmentationAssumption
    <2>2. \A n \in MulticastGroups : Truncate(n, Uint8) \in 0..(Uint8 - 1)
      BY <2>1, TruncateBounds
    <2> QED
      BY <2>2 DEF Init, OptsOK
  <1>2. /\ pc = "setup" /\ announced = NoSession /\ session = NoSession
        /\ fragments = <<>> /\ next = 0 /\ fCnt = 0
        /\ queue = {} /\ received = {} /\ missed = FALSE
    BY DEF Init
  <1>3. StepsAgree
    BY <1>2 DEF StepsAgree
  <1>4. QueueOK /\ ReceivedOK
    BY <1>2 DEF QueueOK, ReceivedOK
  <1>5. CountersOK
    BY <1>2 DEF CountersOK
  <1>6. NothingElseLost
    <2>1. missed \in BOOLEAN
      BY <1>2, Zenon
    <2>2. 1..next = {}
      BY <1>2
    <2> QED
      BY <2>1, <2>2, Zenon DEF NothingElseLost
  <1> QED
    BY <1>1, <1>3, <1>4, <1>5, <1>6 DEF IInv

LEMMA SessionSetupPreserves ==
  ASSUME IInv, SessionSetup
  PROVE  IInv'
  <1>1. UNCHANGED <<opts, fragments, next, queue, session, received, fCnt, missed>>
    BY DEF SessionSetup, deviceVars
  <1>2. OptsOK' /\ QueueOK' /\ ReceivedOK' /\ CountersOK' /\ NothingElseLost'
    BY <1>1 DEF IInv, OptsOK, QueueOK, ReceivedOK, CountersOK, NothingElseLost, Fits
  <1>3. StepsAgree'
    BY <1>1 DEF IInv, StepsAgree, SessionSetup
  <1> QED
    BY <1>2, <1>3 DEF IInv

LEMMA FragmentPayloadPreserves ==
  ASSUME IInv, FragmentPayload
  PROVE  IInv'
  <1>1. /\ pc = "announced" /\ pc' = "enqueue" /\ fragments' = Frags
        /\ UNCHANGED <<opts, announced, next, queue, session, received, fCnt, missed>>
    BY DEF FragmentPayload, deviceVars, Frags
  <1>2. next = 0 /\ opts.fragSize # 0
    BY <1>1 DEF IInv, StepsAgree
  <1>3. Len(fragments') \in Nat
    <2>1. OptionsOK(opts)
      BY <1>2, OptsType DEF IInv
    <2>2. Len(Frags) = NbRows(opts) + opts.redundancy
      BY <2>1, FragmentsAreRows DEF Frags
    <2> QED
      BY <1>1, <2>1, <2>2, PaddedRows DEF OptionsOK
  <1>4. Frags' = Frags
    BY <1>1 DEF Frags
  <1>5. StepsAgree'
    BY <1>1, <1>2, <1>3, <1>4 DEF IInv, StepsAgree
  <1>6. OptsOK' /\ QueueOK' /\ ReceivedOK' /\ CountersOK' /\ NothingElseLost'
    BY <1>1, <1>2 DEF IInv, OptsOK, QueueOK, ReceivedOK, CountersOK, NothingElseLost, Fits
  <1> QED
    BY <1>5, <1>6 DEF IInv

LEMMA EnqueuePreserves ==
  ASSUME IInv, Enqueue
  PROVE  IInv'
  <1> DEFINE item == [fCnt |-> FrameCounter(next'), n |-> FragmentNumber(next'),
                      data |-> fragments[next']]
  <1>1. /\ pc = "enqueue" /\ next < Len(fragments) /\ next' = next + 1
        /\ \/ queue' = queue \cup {item} /\ missed' = missed
           \/ missed' = TRUE /\ queue' = queue
        /\ UNCHANGED <<pc, opts, announced, fragments, session, received, fCnt>>
    BY DEF Enqueue, deviceVars
  <1>2. next \in Nat /\ next <= Len(fragments) /\ fCnt \in Nat /\ fCnt <= next
    BY DEF IInv, StepsAgree, CountersOK
  <1>3. fragments = Frags /\ Len(fragments) \in Nat
    <2>1. fragments = Frags /\ opts.fragSize # 0
      BY <1>1 DEF IInv, StepsAgree
    <2>2. OptionsOK(opts)
      BY <2>1, OptsType DEF IInv
    <2>3. Len(Frags) = NbRows(opts) + opts.redundancy
      BY <2>2, FragmentsAreRows DEF Frags
    <2> QED
      BY <2>1, <2>2, <2>3, PaddedRows DEF OptionsOK
  <1>4. next' \in Nat /\ next' <= Len(fragments) /\ 1..next \subseteq 1..next'
        /\ next' \in 1..next'
    BY <1>1, <1>2, <1>3
  <1>5. StepsAgree'
    BY <1>1, <1>4 DEF IInv, StepsAgree, Frags
  <1>6. item.fCnt = next /\ item.fCnt = FrameCounter(next')
    BY <1>1, <1>2 DEF FrameCounter
  <1>7. QueueOK'
    <2> SUFFICES ASSUME NEW f \in queue'
                 PROVE  \E i \in 1..next' :
                          f = [fCnt |-> FrameCounter(i), n |-> FragmentNumber(i),
                               data |-> fragments[i]]
      BY <1>1 DEF QueueOK
    <2>1. CASE f \in queue
      BY <1>4, <2>1 DEF IInv, QueueOK
    <2>2. CASE f = item
      BY <1>4, <2>2
    <2> QED
      BY <1>1, <2>1, <2>2
  <1>8. ReceivedOK'
    BY <1>1, <1>4 DEF IInv, ReceivedOK
  <1> HIDE DEF item
  <1>9. CountersOK'
    BY <1>1, <1>2, <1>6 DEF IInv, CountersOK
  <1>10. NothingElseLost'
    <2>1. missed' \in BOOLEAN
      BY <1>1 DEF IInv, NothingElseLost
    <2> SUFFICES ASSUME Fits', ~missed', NEW i \in 1..next'
                 PROVE  \/ \E f \in queue' : f.fCnt = FrameCounter(i)
                        \/ \E f \in received' : f.n = FragmentNumber(i)
      BY <1>1, <2>1 DEF NothingElseLost
    <2>2. Fits /\ ~missed /\ queue' = queue \cup {item}
      BY <1>1 DEF Fits, IInv, NothingElseLost
    <2>3. CASE i \in 1..next
      BY <1>1, <2>2, <2>3 DEF IInv, NothingElseLost
    <2>4. CASE i = next'
      BY <1>6, <2>2, <2>4
    <2> QED
      BY <1>1, <1>2, <2>3, <2>4
  <1>11. OptsOK'
    BY <1>1 DEF IInv, OptsOK
  <1> QED
    BY <1>5, <1>7, <1>8, <1>9, <1>10, <1>11 DEF IInv

LEMMA QuietStepsPreserve ==
  ASSUME IInv, EnqueueCompleted \/ SetUpSession \/ UNCHANGED vars
  PROVE  IInv'
  <1>1. /\ UNCHANGED <<opts, announced, fragments, next, queue, received, fCnt, missed>>
        /\ \/ pc = "enqueue" /\ next = Len(fragments) /\ pc' = "completed"
              /\ session' = session
           \/ pc' = pc /\ session' = announced
           \/ pc' = pc /\ session' = session
    BY DEF EnqueueCompleted, SetUpSession, vars, runVars, deviceVars
  <1>2. StepsAgree'
    BY <1>1 DEF IInv, StepsAgree, Frags
  <1>3. OptsOK' /\ QueueOK' /\ ReceivedOK' /\ CountersOK' /\ NothingElseLost'
    BY <1>1 DEF IInv, OptsOK, QueueOK, ReceivedOK, CountersOK, NothingElseLost, Fits
  <1> QED
    BY <1>2, <1>3 DEF IInv

LEMMA TransmitPreserves ==
  ASSUME IInv, NEW f \in queue, Transmit(f)
  PROVE  IInv'
  <1> DEFINE item == [n |-> f.n, data |-> f.data]
             taken == /\ Accepts(f)
                      /\ received' = {g \in received : g.n # f.n} \cup {item}
                      /\ fCnt' = f.fCnt + 1
                      /\ UNCHANGED missed
             refused == ~Accepts(f) /\ session # NoSession
                        /\ UNCHANGED <<received, fCnt, missed>>
             lost == missed' = TRUE /\ UNCHANGED <<received, fCnt>>
  <1>1. /\ queue' = queue \ {f} /\ (taken \/ refused \/ lost)
        /\ UNCHANGED <<pc, opts, announced, fragments, next, session>>
        /\ \A g \in queue : f.fCnt <= g.fCnt
    BY DEF Transmit, runVars
  <1>2. PICK i \in 1..next : f = [fCnt |-> FrameCounter(i), n |-> FragmentNumber(i),
                                  data |-> fragments[i]]
    BY DEF IInv, QueueOK
  <1>3. /\ next \in Nat /\ fCnt \in Nat /\ fCnt <= f.fCnt
        /\ f.fCnt = i - 1 /\ f.n = FragmentNumber(i) /\ f.data = fragments[i]
    BY <1>2 DEF IInv, StepsAgree, CountersOK, FrameCounter
  <1>4. item = [n |-> FragmentNumber(i), data |-> fragments[i]] /\ item.n = FragmentNumber(i)
    BY <1>3
  <1> HIDE DEF item
  \* A frame is known by its counter.
  <1>5. ASSUME NEW g \in queue, g.fCnt = f.fCnt
        PROVE  g = f
    <2>1. PICK k \in 1..next : g = [fCnt |-> FrameCounter(k), n |-> FragmentNumber(k),
                                    data |-> fragments[k]]
      BY DEF IInv, QueueOK
    <2>2. k = i
      BY <1>3, <1>5, <2>1 DEF FrameCounter
    <2> QED
      BY <1>2, <2>1, <2>2
  <1>6. \A g \in queue : g.fCnt \in Nat
    BY <1>3 DEF IInv, QueueOK, FrameCounter
  <1>7. OptsOK' /\ StepsAgree'
    BY <1>1 DEF IInv, OptsOK, StepsAgree, Frags
  <1>8. QueueOK'
    BY <1>1 DEF IInv, QueueOK
  <1>9. ReceivedOK'
    BY <1>1, <1>2, <1>4 DEF IInv, ReceivedOK
  <1>10. CountersOK'
    <2>1. CASE taken
      <3>1. fCnt' \in Nat /\ fCnt' <= next'
        BY <1>1, <1>3, <2>1
      <3>2. ASSUME NEW g \in queue' PROVE fCnt' <= g.fCnt
        <4>1. g \in queue /\ g # f
          BY <1>1
        <4>2. f.fCnt <= g.fCnt /\ g.fCnt # f.fCnt /\ g.fCnt \in Nat /\ f.fCnt \in Nat
          BY <1>1, <1>5, <1>6, <4>1
        <4> QED
          BY <2>1, <4>2
      <3> QED
        BY <3>1, <3>2 DEF CountersOK
    <2>2. CASE refused \/ lost
      BY <1>1, <2>2 DEF IInv, CountersOK
    <2> QED
      BY <1>1, <2>1, <2>2
  <1>11. NothingElseLost'
    <2>1. missed' \in BOOLEAN
      BY <1>1 DEF IInv, NothingElseLost
    <2> SUFFICES ASSUME Fits', ~missed', NEW k \in 1..next'
                 PROVE  \/ \E g \in queue' : g.fCnt = FrameCounter(k)
                        \/ \E g \in received' : g.n = FragmentNumber(k)
      BY <2>1 DEF NothingElseLost
    <2>2. Fits /\ ~missed /\ (taken \/ refused)
      BY <1>1 DEF Fits
    <2>3. CASE taken
      <3>1. \A g \in received : \E h \in received' : h.n = g.n
        BY <1>3, <1>4, <2>3
      <3>2. \E h \in received' : h.n = FragmentNumber(i)
        BY <1>4, <2>3
      <3>3. CASE \E g \in queue : g.fCnt = FrameCounter(k)
        <4>1. PICK g \in queue : g.fCnt = FrameCounter(k)
          BY <3>3
        <4>2. CASE g = f
          <5>1. k = i
            BY <1>1, <1>3, <4>1, <4>2 DEF FrameCounter
          <5> QED
            BY <3>2, <5>1
        <4>3. CASE g # f
          BY <1>1, <4>1, <4>3
        <4> QED
          BY <4>2, <4>3
      <3>4. CASE \E g \in received : g.n = FragmentNumber(k)
        BY <3>1, <3>4
      <3> QED
        BY <1>1, <2>2, <3>3, <3>4 DEF IInv, NothingElseLost
    \* A device in a session of options that fit refuses no frame.
    <2>4. CASE refused
      <3>1. session = SessionOf(opts)
        BY <2>4 DEF IInv, StepsAgree
      <3>2. session.group
        BY <2>2, <3>1, FittingSession DEF IInv
      <3>3. f.fCnt >= fCnt
        BY <1>3
      <3> QED
        BY <2>4, <3>2, <3>3 DEF Accepts
    <2> QED
      BY <2>2, <2>3, <2>4
  <1> QED
    BY <1>7, <1>8, <1>9, <1>10, <1>11 DEF IInv

THEOREM Invariance == Spec => []IInv
  <1>1. IInv /\ [Next]_vars => IInv'
    BY SessionSetupPreserves, FragmentPayloadPreserves, EnqueuePreserves,
       QuietStepsPreserve, TransmitPreserves
    DEF Next
  <1> QED
    BY <1>1, InitEstablishes, PTL DEF Spec

-----------------------------------------------------------------------------
(* The properties.                                                         *)

\* Every field that goes on the air has the width of its place in the frame.
THEOREM TypeCorrect == Spec => []TypeOK
  <1>1. ASSUME IInv PROVE TypeOK
    <2> USE <1>1 DEF IInv
    <2>1. \A w \in {Uint8, Uint16, IndexN} : w \in Nat \ {0}
      BY FragmentationAssumption
    <2>2. NoSession \in [nbFrag : 0..(Uint16 - 1), fragSize : 0..(Uint8 - 1),
                         padding : 0..(Uint8 - 1), group : BOOLEAN]
      BY <2>1 DEF NoSession
    <2>3. ASSUME opts.fragSize # 0
          PROVE  SessionOf(opts) \in [nbFrag : 0..(Uint16 - 1), fragSize : 0..(Uint8 - 1),
                                      padding : 0..(Uint8 - 1), group : BOOLEAN]
      <3>1. OptionsOK(opts)
        BY <2>3, OptsType
      <3>2. /\ Padding(opts.length, opts.fragSize) \in Nat
            /\ NbRows(opts) \in Nat /\ opts.fragSize \in Nat
        BY <3>1, PaddedRows DEF OptionsOK
      <3>3. /\ Truncate(NbRows(opts), Uint16) \in 0..(Uint16 - 1)
            /\ Truncate(opts.fragSize, Uint8) \in 0..(Uint8 - 1)
            /\ Truncate(Padding(opts.length, opts.fragSize), Uint8) \in 0..(Uint8 - 1)
        BY <2>1, <3>2, TruncateBounds
      <3> QED
        BY <3>3 DEF SessionOf, NbRows
    <2>4. {announced, session} \subseteq
            [nbFrag : 0..(Uint16 - 1), fragSize : 0..(Uint8 - 1), padding : 0..(Uint8 - 1),
             group : BOOLEAN]
      BY <2>2, <2>3 DEF StepsAgree
    <2>5. \A k \in Nat : FragmentNumber(k) \in 0..(IndexN - 1)
      <3>1. IndexN \in Nat \ {0}
        BY <2>1
      <3> QED
        BY <3>1 DEF FragmentNumber
    <2>6. next \in 0..Len(fragments)
      <3>1. Len(fragments) \in Nat
        <4>1. CASE fragments = <<>>
          BY <4>1
        <4>2. CASE fragments # <<>>
          <5>1. fragments = Frags /\ OptionsOK(opts)
            BY <4>2, OptsType DEF StepsAgree
          <5>2. Len(Frags) = NbRows(opts) + opts.redundancy
            BY <5>1, FragmentsAreRows DEF Frags
          <5> QED
            BY <5>1, <5>2, PaddedRows DEF OptionsOK
        <4> QED
          BY <4>1, <4>2
      <3> QED
        BY <3>1 DEF StepsAgree
    <2>7. ASSUME NEW f \in queue PROVE f.fCnt \in Nat /\ f.n \in 0..(IndexN - 1)
      <3>1. PICK k \in 1..next : f = [fCnt |-> FrameCounter(k), n |-> FragmentNumber(k),
                                      data |-> fragments[k]]
        BY DEF QueueOK
      <3>2. f.fCnt = k - 1 /\ f.n = FragmentNumber(k) /\ k \in Nat /\ k - 1 \in Nat
        BY <2>6, <3>1 DEF FrameCounter
      <3> QED
        BY <2>5, <3>2
    <2>8. ASSUME NEW f \in received PROVE f.n \in 0..(IndexN - 1)
      <3>1. PICK k \in 1..next : f = [n |-> FragmentNumber(k), data |-> fragments[k]]
        BY DEF ReceivedOK
      <3>2. f.n = FragmentNumber(k) /\ k \in Nat
        BY <2>6, <3>1
      <3> QED
        BY <2>5, <3>2
    <2> QED
      BY <2>4, <2>6, <2>7, <2>8
      DEF TypeOK, OptsOK, StepsAgree, CountersOK, NothingElseLost
  <1> QED
    BY <1>1, Invariance, PTL

\* For a payload and options of any size that the frames can carry, the rows that
\* a device was told of are the payload, although the session and the fragments
\* are computed apart (fuota.go:933-934, 1292-1293).
THEOREM DeviceHasPayload == Spec => []FileIsPayload
  <1>1. ASSUME IInv PROVE FileIsPayload
    <2> USE <1>1 DEF IInv
    <2> SUFFICES ASSUME Fits, session # NoSession, HasAllRows
                 PROVE  File = [p \in 1..opts.length |-> p]
      BY DEF FileIsPayload
    <2> DEFINE s == opts.fragSize
               nb == NbRows(opts)
    <2>1. /\ OptionsOK(opts) /\ nb + opts.redundancy < IndexN
          /\ session.nbFrag = nb /\ session.fragSize = s
          /\ session.padding = Padding(opts.length, s)
      BY FittingSession DEF StepsAgree
    <2>2. /\ nb \in Nat /\ s \in Nat \ {0} /\ opts.length \in Nat /\ opts.redundancy \in Nat
          /\ Padding(opts.length, s) \in Nat
          /\ opts.length + Padding(opts.length, s) = s * nb
      BY <2>1, PaddedRows DEF OptionsOK
    <2> HIDE DEF s, nb
    <2>3. (session.nbFrag * session.fragSize) - session.padding = opts.length
          /\ opts.length <= s * nb
      BY <2>1, <2>2
    <2>4. ASSUME NEW i \in 1..nb
          PROVE  Row(i) = [j \in 1..s |-> IF ((i - 1) * s) + j <= opts.length
                                            THEN ((i - 1) * s) + j ELSE 0]
      <3>1. PICK f \in received : f.n = i /\ Row(i) = f.data
        BY <2>1 DEF HasAllRows, Row
      <3>2. PICK k \in 1..next : f = [n |-> FragmentNumber(k), data |-> fragments[k]]
        BY DEF ReceivedOK
      <3>3. fragments = Frags /\ Len(Frags) = nb + opts.redundancy /\ next <= Len(Frags)
        <4>1. fragments # <<>>
          BY <3>2 DEF StepsAgree
        <4>2. fragments = Frags /\ next <= Len(Frags)
          BY <4>1 DEF StepsAgree
        <4> QED
          BY <2>1, <4>2, FragmentsAreRows DEF Frags, nb
      <3>4. k \in Nat /\ k < IndexN /\ IndexN \in Nat \ {0}
        BY <2>1, <2>2, <3>3, FragmentationAssumption DEF StepsAgree
      <3>5. FragmentNumber(k) = k
        BY <3>4 DEF FragmentNumber
      <3>6. k = i /\ Row(i) = Frags[i]
        BY <3>1, <3>2, <3>3, <3>5
      <3> QED
        BY <2>1, <3>6, FragmentsAreRows DEF Frags, nb, s
    <2>5. ASSUME NEW p \in 1..opts.length
          PROVE  Row(((p - 1) \div s) + 1)[((p - 1) % s) + 1] = p
      <3> DEFINE i == ((p - 1) \div s) + 1
                 j == ((p - 1) % s) + 1
      <3>1. p \in 1..(s * nb)
        BY <2>2, <2>3
      <3>2. i \in 1..nb /\ j \in 1..s /\ ((i - 1) * s) + j = p
        <4>1. nb \in Nat /\ s \in Nat \ {0}
          BY <2>2
        <4> QED
          BY <3>1, <4>1, ByteOfRow
      <3> HIDE DEF i, j
      <3>3. Row(i)[j] = IF ((i - 1) * s) + j <= opts.length THEN ((i - 1) * s) + j ELSE 0
        BY <2>4, <3>2
      <3>4. Row(i)[j] = p
        BY <3>2, <3>3
      <3> QED
        BY <3>4 DEF i, j
    <2>6. File = [p \in 1..opts.length |-> Row(((p - 1) \div s) + 1)[((p - 1) % s) + 1]]
      BY <2>1, <2>3 DEF File
    <2> QED
      BY <2>5, <2>6
  <1> QED
    BY <1>1, Invariance, PTL

\* A device that has missed nothing has every row, in whatever order it set up its
\* session and the server enqueued (fuota.go:1305, 1325).
THEOREM NothingHeardIsLost == Spec => []AllHeardMeansAllRows
  <1>1. ASSUME IInv PROVE AllHeardMeansAllRows
    <2> USE <1>1 DEF IInv
    <2> SUFFICES ASSUME Fits, pc = "completed", queue = {}, ~missed, session # NoSession,
                        NEW i \in 1..session.nbFrag
                 PROVE  \E f \in received : f.n = i
      BY DEF AllHeardMeansAllRows, HasAllRows
    <2>1. /\ OptionsOK(opts) /\ NbRows(opts) + opts.redundancy < IndexN
          /\ session.nbFrag = NbRows(opts)
      BY FittingSession DEF StepsAgree
    <2>2. NbRows(opts) \in Nat /\ opts.redundancy \in Nat /\ IndexN \in Nat \ {0}
      BY <2>1, PaddedRows, FragmentationAssumption DEF OptionsOK
    <2>3. next = NbRows(opts) + opts.redundancy
      BY <2>1, FragmentsAreRows DEF StepsAgree, Frags
    <2>4. i \in 1..next /\ i \in Nat /\ i < IndexN
      BY <2>1, <2>2, <2>3
    <2>5. FragmentNumber(i) = i
      BY <2>2, <2>4 DEF FragmentNumber
    <2> QED
      BY <2>4, <2>5 DEF NothingElseLost
  <1> QED
    BY <1>1, Invariance, PTL
=============================================================================
