--------------------------- MODULE CalibrationProofs ---------------------------
(***************************************************************************)
(* Theorems about Calibration, for every encoder, travel, tolerance and    *)
(* mounting that its assumptions allow, and any behaviour of the motors.   *)
(***************************************************************************)
EXTENDS Calibration, EncoderProofs

USE DEF Axis, Yaw, Pitch, YawMin, PitchMin, Complete, Points, None

-----------------------------------------------------------------------------
(* Type correctness, and which steps have been captured *)

CapturedInv ==
    \A i \in Points : i < step =>
        sample[i] \in Raws /\ at[i] \in 0 .. Full[MotorOf(i)]

\* A count that the axis really shows somewhere in its travel.
Reading(a, c) == \E p \in 0 .. Full[a] : c = Shown(a, p)

\* Every count on its way from a reliable motor to a sample is a reading of it.
ReadingInv ==
    \A a \in Axis \ Unreliable :
        /\ queue[a] # NoReply => queue[a].good /\ Reading(a, queue[a].raw)
        /\ a \in heard => Reading(a, count[a])
        /\ \A i \in PointsOf(a) : sample[i] # None => Reading(a, sample[i])

IInv == TypeOK /\ CapturedInv /\ ReadingInv

\* A count of the encoder fits into its word.
LEMMA CountsFit == /\ Counts \subseteq Raws
                   /\ \A r \in Raws : r \in Int
BY RawAssumption, RevAssumption DEF Counts, Raws

LEMMA ShownIsCount ==
    ASSUME TypeOK, NEW a \in Axis, NEW p \in Int
    PROVE  /\ Shown(a, p) \in Counts
           /\ Leads(mount[a].zero, mount[a].direction * p, Shown(a, p))
<1> DEFINE v == mount[a].zero + mount[a].direction * p
<1>1. mount[a].zero \in Int /\ mount[a].direction \in {1, -1}
  BY DEF TypeOK, Counts
<1>2. v \in Int /\ Rev \in Nat \ {0}
  BY <1>1, RevAssumption
<1> HIDE DEF v
<1>3. v \div Rev \in Int /\ v % Rev \in Counts /\ v = Rev * (v \div Rev) + (v % Rev)
  BY <1>2, Division DEF Counts
<1> DEFINE q == v \div Rev
           r == v % Rev
<1>4. Shown(a, p) = r
  BY DEF Shown, v
<1>5. r = v + (-q) * Rev /\ -q \in Int
  <2>1. r \in Int /\ q \in Int
    BY <1>3 DEF Counts
  <2> HIDE DEF q, r
  <2>2. v = Rev * q + r
    BY <1>3 DEF q, r
  <2> QED BY <1>2, <2>1, <2>2
<1> QED BY <1>3, <1>4, <1>5 DEF v, Leads

LEMMA PointsOfAxis ==
    ASSUME NEW a \in Axis
    PROVE  \A i \in PointsOf(a) : i \in Points /\ MotorOf(i) = a
BY DEF PointsOf, FirstOf, MotorOf

LEMMA MotorOfPoint == \A i \in 0 .. 5 : MotorOf(i) \in Axis /\ i \in PointsOf(MotorOf(i))
BY DEF PointsOf, FirstOf, MotorOf

LEMMA InitInv == Init => IInv
<1> SUFFICES ASSUME Init PROVE IInv
  OBVIOUS
<1> USE DEF Init
<1>1. mount \in [Axis -> [zero : Counts, direction : {1, -1}]]
  BY BenchAssumption
<1>2. count \in [Axis -> Raws]
  BY CountsFit, HalfOfRev DEF Counts
<1>3. queue \in [Axis -> {NoReply} \cup [raw : Raws, good : BOOLEAN]]
  OBVIOUS
<1>4. hand \in [Axis -> Int] /\ \A a \in Axis : hand[a] \in 0 .. Full[a]
  BY TravelAssumption
<1>5. wait \in 0 .. BootDelay
  BY LoopAssumption
<1>6. askPitch \in BOOLEAN
  OBVIOUS
<1>8. TypeOK
  BY <1>1, <1>2, <1>3, <1>4, <1>5, <1>6 DEF TypeOK
<1>7. CapturedInv /\ ReadingInv
  BY DEF CapturedInv, ReadingInv, PointsOf, FirstOf
<1> QED BY <1>7, <1>8 DEF IInv

\* The variables the invariant is about, when an action leaves most of them alone.
LEMMA ReadingFrame ==
    ASSUME ReadingInv, UNCHANGED <<mount, queue, heard, count, sample>>
    PROVE  ReadingInv'
BY DEF ReadingInv, Reading, Shown

LEMMA ProcessReplyInv == ASSUME IInv, NEW a \in Axis, ProcessReply(a) PROVE IInv'
<1> USE DEF IInv
<1>1. queue[a] \in [raw : Raws, good : BOOLEAN]
  BY DEF ProcessReply, TypeOK
<1>2. valid' \subseteq Axis
  BY DEF ProcessReply, Believed, TypeOK
<1>3. TypeOK'
  BY <1>1, <1>2 DEF ProcessReply, TypeOK, capture, operator
<1>4. CapturedInv'
  BY DEF ProcessReply, CapturedInv, capture
<1>5. ReadingInv'
  BY DEF ProcessReply, ReadingInv, TypeOK, Reading, Shown, capture, operator
<1> QED BY <1>3, <1>4, <1>5

LEMMA CaptureInv == ASSUME IInv, Capture PROVE IInv'
<1> USE DEF IInv
<1> DEFINE m == MotorOf(step)
<1>1. step \in 0 .. 5 /\ m \in Axis /\ step \in PointsOf(m) /\ step' = step + 1
  BY MotorOfPoint DEF Capture, TypeOK, NextStep
<1>2. count[m] \in Raws /\ hand[m] \in 0 .. Full[m] /\ hand[m] \in Int
  BY <1>1 DEF TypeOK
<1>3. /\ sample' = [sample EXCEPT ![step] = count[m]]
      /\ at' = [at EXCEPT ![step] = hand[m]]
      /\ m \in heard
      /\ UNCHANGED <<mount, queue, heard, count>>
  BY DEF Capture, Blocked, decoded, operator
<1> HIDE DEF m
<1>4. /\ sample' \in [Points -> Raws \cup {None}] /\ at' \in [Points -> Int]
      /\ \A i \in Points : at'[i] \in {None} \cup 0 .. Full[MotorOf(i)]
  BY <1>1, <1>2, <1>3 DEF TypeOK, m
<1>5. TypeOK'
  BY <1>1, <1>4 DEF Capture, TypeOK, decoded, operator
<1>6. CapturedInv'
  BY <1>1, <1>2, <1>3 DEF CapturedInv, TypeOK, m
<1>7. ReadingInv'
  <2> SUFFICES ASSUME NEW a \in Axis \ Unreliable, NEW i \in PointsOf(a),
                      sample'[i] # None
               PROVE  Reading(a, sample'[i])
    BY <1>3 DEF ReadingInv, Reading, Shown
  <2>1. i \in Points /\ MotorOf(i) = a
    BY PointsOfAxis
  <2>2. CASE i = step
    BY <1>1, <1>3, <2>1, <2>2 DEF ReadingInv, TypeOK, m
  <2>3. CASE i # step
    BY <1>1, <1>3, <2>1, <2>3 DEF ReadingInv, TypeOK
  <2> QED BY <2>2, <2>3
<1> QED BY <1>5, <1>6, <1>7

LEMMA TxCompleteInv == ASSUME IInv, NEW a \in Axis, TxComplete(a) PROVE IInv'
<1> USE DEF IInv
<1>1. hand[a] \in 0 .. Full[a] /\ Shown(a, hand[a]) \in Raws
  BY ShownIsCount, CountsFit DEF TypeOK
<1>2. \/ queue' = [queue EXCEPT ![a] = TrueReply(a)]
      \/ a \in Unreliable /\ queue' = queue
      \/ a \in Unreliable /\ \E r \in BadReplies : queue' = [queue EXCEPT ![a] = r]
  BY DEF TxComplete
<1>3. queue' \in [Axis -> {NoReply} \cup [raw : Raws, good : BOOLEAN]]
  <2>1. queue \in [Axis -> {NoReply} \cup [raw : Raws, good : BOOLEAN]]
    BY DEF TypeOK
  <2>2. \A r \in BadReplies : r \in [raw : Raws, good : BOOLEAN]
    BY BenchAssumption DEF BadReplies
  <2>3. TrueReply(a) \in [raw : Raws, good : BOOLEAN]
    BY <1>1 DEF TrueReply
  <2> QED BY <1>2, <2>1, <2>2, <2>3
<1>4. TypeOK'
  BY <1>3 DEF TxComplete, TypeOK, capture, decoded, operator
<1>5. CapturedInv'
  BY DEF TxComplete, CapturedInv, capture
<1>6. ReadingInv'
  BY <1>1, <1>2 DEF TxComplete, TrueReply, ReadingInv, TypeOK, Reading, Shown, capture,
                    decoded, operator
<1> QED BY <1>4, <1>5, <1>6

\* The rest leaves the counts alone, or forgets the samples.
LEMMA OtherInv ==
    ASSUME IInv, \/ DrainDone \/ Query \/ NotYet \/ NoTouch \/ Reset
                 \/ (\E a \in Axis : MoveByHand(a)) \/ UNCHANGED vars
    PROVE  IInv'
<1> USE DEF IInv
<1>1. CASE DrainDone \/ NotYet \/ NoTouch
  <2>1. wait' \in 0 .. BootDelay /\ pc' \in {"drain", "query", "touch"}
    BY <1>1, LoopAssumption DEF DrainDone, NotYet, NoTouch, TypeOK
  <2>2. TypeOK'
    BY <1>1, <2>1 DEF DrainDone, NotYet, NoTouch, TypeOK, capture, decoded, operator
  <2>3. UNCHANGED <<capture, decoded, queue, operator>>
    BY <1>1 DEF DrainDone, NotYet, NoTouch
  <2> QED BY <2>2, <2>3, ReadingFrame DEF CapturedInv, capture, decoded, operator
<1>2. CASE Query
  <2>1. askPitch' \in BOOLEAN
    BY <1>2 DEF Query, TypeOK, TakeTurns
  <2>2. wait' \in 0 .. BootDelay
    BY <1>2, LoopAssumption DEF Query
  <2>3. tx' \subseteq Axis
    BY <1>2 DEF Query, TypeOK, Asked
  <2>4. TypeOK'
    BY <1>2, <2>1, <2>2, <2>3 DEF Query, TypeOK, capture, decoded, operator
  <2> QED BY <1>2, <2>4, ReadingFrame
          DEF Query, CapturedInv, capture, decoded, operator
<1>3. CASE Reset
  <2>1. /\ step' = 0 /\ sample' = [i \in Points |-> None]
        /\ at' = [i \in Points |-> None] /\ pc' = "drain"
        /\ UNCHANGED <<valid, heard, count, tx, askPitch, wait, queue, hand, mount>>
    BY <1>3 DEF Reset, NextStep, ForgetSamples, decoded, operator
  <2>2. TypeOK'
    BY <2>1 DEF TypeOK
  <2>3. CapturedInv'
    BY <2>1 DEF CapturedInv
  <2>4. ReadingInv'
    BY <2>1, PointsOfAxis DEF ReadingInv, Reading, Shown
  <2> QED BY <2>2, <2>3, <2>4
<1>4. ASSUME NEW a \in Axis, MoveByHand(a) PROVE IInv'
  <2>1. PICK p \in Hand[a] : hand' = [hand EXCEPT ![a] = p]
    BY <1>4 DEF MoveByHand
  <2>2. p \in 0 .. Full[a] /\ p \in Int
    BY BenchAssumption
  <2>3. hand' \in [Axis -> Int] /\ \A b \in Axis : hand'[b] \in 0 .. Full[b]
    BY <2>1, <2>2 DEF TypeOK
  <2>4. TypeOK'
    BY <1>4, <2>3 DEF MoveByHand, TypeOK, capture, decoded
  <2> QED BY <1>4, <2>4, ReadingFrame DEF MoveByHand, CapturedInv, capture, decoded
<1>5. CASE UNCHANGED vars
  <2>1. UNCHANGED <<pc, step, sample, at, valid, heard, count, tx, askPitch, wait,
                    queue, hand, mount>>
    BY <1>5 DEF vars, capture, decoded, operator
  <2> QED BY <2>1, ReadingFrame DEF TypeOK, CapturedInv
<1> QED BY <1>1, <1>2, <1>3, <1>4, <1>5

LEMMA NextInv == IInv /\ [Next]_vars => IInv'
BY ProcessReplyInv, CaptureInv, TxCompleteInv, OtherInv
DEF Next, Loop, Interrupt, Operator

LEMMA InvHolds == Spec => []IInv
BY InitInv, NextInv, PTL DEF Spec

\* Every variable keeps its type.  Whatever 16-bit words arrive and whenever the
\* button is pressed, the step stays within the six captures and the end, and a
\* sample is a word that fits into encoder_raw or absent; nothing makes it a count
\* of the encoder (lkm_motor_process_frame, calibration_capture).
THEOREM CalibrationTypeCorrect == Spec => []TypeOK
<1>1. IInv => TypeOK
  BY DEF IInv
<1> QED BY <1>1, InvHolds, PTL

\* A sample of a reliable axis was shown by that axis within its travel: never
\* the other axis's count, nor one that no reply carried (calibration_capture).
THEOREM SamplesAreOwnReadings == Spec => []OwnReadings
<1>1. IInv => OwnReadings
  BY DEF IInv, ReadingInv, Reading, OwnReadings
<1> QED BY <1>1, InvHolds, PTL


-----------------------------------------------------------------------------
(* What the assumptions say of the travel of an axis *)

LEMMA AxisFacts ==
    ASSUME NEW a \in Axis
    PROVE  /\ Full[a] \in Nat \ {0} /\ Travel[a] \in Nat \ {0}
           /\ MinCounts \in Nat \ {0} /\ MidTol \in Nat \ {0}
           /\ Full[a] * Travel[a] + 2 * MidTol * Full[a] < 2 * Half * Travel[a]
           /\ Full[a] >= MinCounts * Travel[a] /\ Travel[a] > 2 * MidTol
BY TravelAssumption

\* The travel is less than a turn of the encoder, by more than one count.
LEMMA LessThanATurn ==
    ASSUME NEW n \in Nat \ {0}, NEW travel \in Nat \ {0}, NEW tol \in Nat \ {0},
           NEW counts \in Nat \ {0}, n >= counts * travel,
           n * travel + 2 * tol * n < 2 * Half * travel
    PROVE  n + 1 < Rev
<1>1. travel <= n /\ n \in Int
  <2>1. travel <= counts * travel
    OBVIOUS
  <2>2. counts * travel \in Int
    OBVIOUS
  <2> QED BY <2>1, <2>2
<1>2. 2 * travel <= 2 * tol * n
  <2>1. n <= tol * n /\ tol * n \in Int
    OBVIOUS
  <2>2. 2 * tol * n = 2 * (tol * n)
    OBVIOUS
  <2> QED BY <1>1, <2>1, <2>2
<1>3. (n + 2) * travel < Rev * travel
  <2>1. (n + 2) * travel = n * travel + 2 * travel
    OBVIOUS
  <2>2. 2 * Half * travel = Rev * travel
    BY HalfOfRev
  <2>3. n * travel \in Int /\ 2 * tol * n \in Int /\ 2 * travel \in Int /\ Rev * travel \in Int
    BY HalfOfRev
  <2> QED BY <1>2, <2>1, <2>2, <2>3
<1>4. n + 2 < Rev
  BY <1>3, TimesCancels, HalfOfRev
<1> QED BY <1>4, HalfOfRev

\* A middle captured within the tolerance is less than half a turn from both
\* stops, and is neither of them.
LEMMA MiddleIsInside ==
    ASSUME NEW n \in Nat \ {0}, NEW travel \in Nat \ {0}, NEW tol \in Nat \ {0},
           travel > 2 * tol, n * travel + 2 * tol * n < 2 * Half * travel,
           NEW m \in Int, Magnitude(2 * m - n) * travel <= 2 * tol * n
    PROVE  0 < m /\ m < n /\ m < Half /\ n - m < Half
<1> DEFINE slack == 2 * tol * n
<1>1. slack \in Int /\ slack < n * travel /\ n * travel \in Int
  <2>1. n * (2 * tol) < n * travel
    OBVIOUS
  <2>2. n * (2 * tol) = slack
    OBVIOUS
  <2> QED BY <2>1, <2>2
<1>2. (2 * m - n) * travel <= slack /\ (n - 2 * m) * travel <= slack
  <2>1. 2 * m - n <= Magnitude(2 * m - n) /\ n - 2 * m <= Magnitude(2 * m - n)
        /\ Magnitude(2 * m - n) \in Int
    BY DEF Magnitude
  <2>2. /\ (2 * m - n) * travel <= Magnitude(2 * m - n) * travel
        /\ (n - 2 * m) * travel <= Magnitude(2 * m - n) * travel
    BY <2>1, TimesMonotonic
  <2>3. /\ (2 * m - n) * travel \in Int /\ (n - 2 * m) * travel \in Int
        /\ Magnitude(2 * m - n) * travel \in Int
    BY <2>1
  <2> QED BY <1>1, <2>2, <2>3
<1> DEFINE mt == m * travel
           nt == n * travel
           ht == Half * travel
<1>3. /\ (2 * m - n) * travel = 2 * mt - nt /\ (n - 2 * m) * travel = nt - 2 * mt
      /\ 2 * Half * travel = 2 * ht /\ mt \in Int /\ nt \in Int /\ ht \in Int
  BY HalfOfRev
<1>4. nt + slack < 2 * ht
  BY <1>3
<1> HIDE DEF slack, mt, nt, ht
<1>5. 0 < mt /\ mt < nt /\ mt < ht /\ nt - mt < ht
  BY <1>1, <1>2, <1>3, <1>4 DEF nt
<1>6. 0 * travel < m * travel /\ m * travel < n * travel /\ m * travel < Half * travel
      /\ (n - m) * travel < Half * travel
  BY <1>3, <1>5 DEF mt, nt, ht
<1> QED BY <1>6, TimesCancels, HalfOfRev


-----------------------------------------------------------------------------
(* The samples of an axis *)

LEMMA SamplesOf ==
    ASSUME IInv, step = Complete, NEW a \in Axis, NEW i \in PointsOf(a)
    PROVE  /\ sample[i] \in Int /\ at[i] \in 0 .. Full[a] /\ at[i] \in Int
           /\ Current(a, i) => sample[i] \in Counts
<1>1. i \in Points /\ MotorOf(i) = a
  BY PointsOfAxis
<1>2. sample[i] \in Raws /\ at[i] \in 0 .. Full[a] /\ at[i] \in Int
  BY <1>1, AxisFacts DEF IInv, CapturedInv
<1> QED BY <1>2, CountsFit, ShownIsCount DEF IInv, Current

LEMMA DirectionType ==
    ASSUME TypeOK, NEW a \in Axis
    PROVE  mount[a].direction \in {1, -1} /\ mount[a].zero \in Counts
BY DEF TypeOK

\* The way between two places of an axis, in counts.
LEMMA WayBetween ==
    ASSUME TypeOK, NEW a \in Axis, NEW p \in Int, NEW q \in Int
    PROVE  Leads(Shown(a, p), mount[a].direction * (q - p), Shown(a, q))
<1> DEFINE d == mount[a].direction
           z == mount[a].zero
           x == Shown(a, p)
           y == Shown(a, q)
<1>1. d \in {1, -1} /\ z \in Int /\ Rev \in Int /\ x \in Int /\ y \in Int
  <2>1. d \in {1, -1} /\ z \in Counts /\ x \in Counts /\ y \in Counts
    BY DirectionType, ShownIsCount
  <2> HIDE DEF d, z, x, y
  <2> QED BY <2>1, CountsAreIntegers, RevAssumption
<1>2. PICK j \in Int : x = z + d * p + j * Rev
  BY ShownIsCount DEF Leads
<1>3. PICK k \in Int : y = z + d * q + k * Rev
  BY ShownIsCount DEF Leads
<1> HIDE DEF d, z, x, y
<1>4. d * (q - p) = d * q - d * p /\ d * p \in Int /\ d * q \in Int
  BY <1>1
<1>5. (k - j) * Rev = k * Rev - j * Rev /\ k * Rev \in Int /\ j * Rev \in Int
  BY <1>1
<1>6. y = x + d * (q - p) + (k - j) * Rev
  BY <1>1, <1>2, <1>3, <1>4, <1>5
<1>7. k - j \in Int
  OBVIOUS
<1> QED BY <1>6, <1>7 DEF d, x, y, Leads

\* Places less than half a turn apart are measured as they are.
LEMMA MeasuredShort ==
    ASSUME TypeOK, NEW a \in Axis, NEW p \in Int, NEW q \in Int,
           -Half < q - p, q - p < Half
    PROVE  WrappedDelta(Shown(a, p), Shown(a, q)) = mount[a].direction * (q - p)
<1> DEFINE x == mount[a].direction * (q - p)
           from == Shown(a, p)
           to == Shown(a, q)
<1>1. x \in Int /\ -Half < x /\ x < Half
  BY DirectionType, HalfOfRev
<1>2. Leads(from, x, to)
  BY WayBetween
<1>3. from \in Counts /\ to \in Counts
  BY ShownIsCount
<1> HIDE DEF x, from, to
<1>4. WrappedDelta(from, to) = x
  BY <1>1, <1>2, <1>3, ShortWay
<1> QED BY <1>4 DEF x, from, to

\* The three samples of an axis.
LEMMA ThreePoints ==
    ASSUME NEW a \in Axis
    PROVE  /\ PointsOf(a) = {FirstOf(a), FirstOf(a) + 1, FirstOf(a) + 2}
           /\ FirstOf(a) \in Int
BY DEF PointsOf, FirstOf

\* If an axis gets no warning, captures made in order from the minimum to the
\* maximum give its true direction and span, wherever they were made: the test
\* of the signs alone excludes every path that was measured the wrong way round.
THEOREM UnwarnedPathIsTrue == Spec => []PathIsContinuous
<1>1. IInv => PathIsContinuous
  <2> SUFFICES ASSUME IInv, step = Complete, NEW a \in Axis,
                      at[FirstOf(a)] < at[FirstOf(a) + 1],
                      at[FirstOf(a) + 1] < at[FirstOf(a) + 2],
                      \A j \in PointsOf(a) : Current(a, j),
                      ~Warned(a)
               PROVE  /\ Printed(a).direction = mount[a].direction
                      /\ Printed(a).span = at[FirstOf(a) + 2] - at[FirstOf(a)]
    BY DEF PathIsContinuous
  <2> DEFINE i == FirstOf(a)
             p == at[i]
             m == at[i + 1]
             q == at[i + 2]
             d == mount[a].direction
  <2>1. i \in PointsOf(a) /\ i + 1 \in PointsOf(a) /\ i + 2 \in PointsOf(a)
    BY ThreePoints
  <2>2. /\ sample[i] \in Counts /\ sample[i + 1] \in Counts /\ sample[i + 2] \in Counts
        /\ p \in 0 .. Full[a] /\ m \in 0 .. Full[a] /\ q \in 0 .. Full[a]
        /\ p \in Int /\ m \in Int /\ q \in Int
    BY <2>1, SamplesOf
  <2>3. sample[i] = Shown(a, p) /\ sample[i + 1] = Shown(a, m) /\ sample[i + 2] = Shown(a, q)
    BY <2>1 DEF Current
  <2>4. d \in {1, -1} /\ TypeOK
    BY DirectionType DEF IInv
  <2>5. OneWay(sample[i], sample[i + 1], sample[i + 2])
    BY DEF Warned, Consistent
  <2>6. Full[a] \in Nat /\ Full[a] < Rev
    BY AxisFacts, LessThanATurn, HalfOfRev
  <2> DEFINE s == sample[i]
             t == sample[i + 1]
             u == sample[i + 2]
             v == m - p
             w == q - m
  <2>7. Leads(Shown(a, p), d * v, Shown(a, m)) /\ Leads(Shown(a, m), d * w, Shown(a, q))
    BY <2>2, <2>4, WayBetween
  <2>8. Leads(s, d * v, t) /\ Leads(t, d * w, u)
    BY <2>3, <2>7
  <2>9. s \in Counts /\ t \in Counts /\ u \in Counts /\ OneWay(s, t, u)
    BY <2>2, <2>5
  <2>10. v \in Nat \ {0} /\ w \in Nat \ {0} /\ v + w < Rev /\ q - p = v + w
    <3>1. p < m /\ m < q
      OBVIOUS
    <3> HIDE DEF p, m, q
    <3> QED BY <2>2, <2>6, <3>1, RevAssumption
  <2> HIDE DEF s, t, u, v, w, d
  <2> DEFINE x == d * v
             y == d * w
  <2>11. /\ x \in Int /\ y \in Int
         /\ (x > 0 /\ y > 0) \/ (x < 0 /\ y < 0)
         /\ -Rev < x + y /\ x + y < Rev /\ x + y = d * (v + w) /\ v + w \in Nat \ {0}
    BY <2>4, <2>10, RevAssumption
  <2>12. WrappedDelta(s, t) + WrappedDelta(t, u) = d * (v + w)
    <3> HIDE DEF x, y
    <3>1. Leads(s, x, t) /\ Leads(t, y, u)
      BY <2>8 DEF x, y
    <3>2. WrappedDelta(s, t) = x /\ WrappedDelta(t, u) = y
      BY <2>9, <2>11, <3>1, OneWayIsContinuous
    <3> QED BY <2>11, <3>2
  <2>13. Derived(s, t, u).direction = d /\ Derived(s, t, u).span = v + w
    BY <2>4, <2>9, <2>11, <2>12, DerivedMap
  <2>14. Printed(a) = Derived(s, t, u)
    BY DEF Printed, s, t, u
  <2> QED BY <2>10, <2>13, <2>14 DEF d
<1> QED BY <1>1, InvHolds, PTL


\* Where the middle is to be captured, in the terms of MiddleIsInside.
LEMMA IntendedPlaces ==
    ASSUME NEW a \in Axis, NEW p \in Int
    PROVE  /\ Intended(a, FirstOf(a), p) => p = 0
           /\ Intended(a, FirstOf(a) + 2, p) => p = Full[a]
           /\ Intended(a, FirstOf(a) + 1, p) <=>
                  Magnitude(2 * p - Full[a]) * Travel[a] <= 2 * MidTol * Full[a]
BY DEF Intended, FirstOf

LEMMA BookMiddle ==
    ASSUME NEW a \in Axis, NEW m \in Int, Intended(a, FirstOf(a) + 1, m)
    PROVE  /\ 0 < m /\ m < Full[a] /\ m < Half /\ Full[a] - m < Half
           /\ Magnitude(2 * m - Full[a]) * Travel[a] <= 2 * MidTol * Full[a]
BY AxisFacts, IntendedPlaces, MiddleIsInside

\* Two successive steps of an axis with the same count are warned about, whatever
\* words the three samples are.
THEOREM RepeatsAreWarned == Spec => []RepeatIsWarned
<1>1. IInv => RepeatIsWarned
  <2> SUFFICES ASSUME IInv, step = Complete, NEW a \in Axis,
                      NEW i \in FirstOf(a) .. FirstOf(a) + 1, sample[i] = sample[i + 1]
               PROVE  Warned(a)
    BY DEF RepeatIsWarned
  <2> DEFINE j == FirstOf(a)
  <2>1. j \in PointsOf(a) /\ j + 1 \in PointsOf(a) /\ j + 2 \in PointsOf(a)
    BY ThreePoints
  <2>2. sample[j] \in Int /\ sample[j + 1] \in Int /\ sample[j + 2] \in Int
    BY <2>1, SamplesOf
  <2>3. i = j \/ i = j + 1
    BY ThreePoints
  <2>4. sample[j] = sample[j + 1] \/ sample[j + 1] = sample[j + 2]
    BY <2>3, ThreePoints
  <2>5. ~Consistent(sample[j], sample[j + 1], sample[j + 2], Travel[a], MinCounts, MidTol)
    BY <2>2, <2>4, AxisFacts, RepeatNeverConsistent
  <2> QED BY <2>5 DEF Warned
<1> QED BY <1>1, InvHolds, PTL

\* Captured by the book, an axis gets no warning, and the printed map decodes
\* every position of its travel: it is the map the controller needs.
THEOREM BookGivesTheMap == Spec => []EndpointsRecovered
<1>1. IInv => EndpointsRecovered
  <2> SUFFICES ASSUME IInv, step = Complete, NEW a \in Axis,
                      \A i \in PointsOf(a) : ByTheBook(a, i)
               PROVE  /\ ~Warned(a)
                      /\ \A p \in 0 .. Full[a] :
                             Decode(Printed(a), Shown(a, p)) = p - (Full[a] + 1) \div 2
    BY DEF EndpointsRecovered
  <2> DEFINE i == FirstOf(a)
             m == at[i + 1]
             d == mount[a].direction
             n == Full[a]
             s == sample[i]
             t == sample[i + 1]
             u == sample[i + 2]
  <2>1. i \in PointsOf(a) /\ i + 1 \in PointsOf(a) /\ i + 2 \in PointsOf(a)
    BY ThreePoints
  <2>2. /\ s \in Counts /\ t \in Counts /\ u \in Counts
        /\ at[i] \in Int /\ m \in Int /\ at[i + 2] \in Int
    BY <2>1, SamplesOf DEF ByTheBook
  <2>3. at[i] = 0 /\ at[i + 2] = n /\ Intended(a, i + 1, m)
    BY <2>1, <2>2, IntendedPlaces DEF ByTheBook
  <2>4. s = Shown(a, 0) /\ t = Shown(a, m) /\ u = Shown(a, n)
    BY <2>1, <2>3 DEF ByTheBook, Current
  <2>5. d \in {1, -1} /\ TypeOK
    BY DirectionType DEF IInv
  <2>6. /\ 0 < m /\ m < n /\ m < Half /\ n - m < Half
        /\ Magnitude(2 * m - n) * Travel[a] <= 2 * MidTol * n
    BY <2>2, <2>3, BookMiddle
  <2>7. n \in Nat \ {0} /\ n >= MinCounts * Travel[a] /\ n + 1 < Rev
    BY AxisFacts, LessThanATurn
  <2>8. WrappedDelta(s, t) = d * (m - 0) /\ WrappedDelta(t, u) = d * (n - m)
    BY <2>2, <2>4, <2>5, <2>6, <2>7, MeasuredShort, HalfOfRev
  <2> HIDE DEF m, d, n, s, t, u
  <2> DEFINE e == d * (m - 0)
             f == d * (n - m)
  <2>9. /\ e \in Int /\ f \in Int /\ (e > 0) = (f > 0) /\ e + f = d * n
        /\ Magnitude(e + f) = n /\ Magnitude(e - f) = Magnitude(2 * m - n)
    BY <2>2, <2>5, <2>6, <2>7 DEF Magnitude
  <2>10. Consistent(s, t, u, Travel[a], MinCounts, MidTol)
    <3> HIDE DEF e, f
    <3>1. WrappedDelta(s, t) = e /\ WrappedDelta(t, u) = f
      BY <2>8 DEF e, f
    <3> QED BY <2>6, <2>7, <2>9, <3>1, ConsistentWays
  <2>11. ~Warned(a)
    BY <2>10 DEF Warned, s, t, u
  <2>12. /\ Printed(a).direction = d /\ Printed(a).center \in Counts
         /\ Leads(s, d * ((n + 1) \div 2), Printed(a).center)
    <3>1. WrappedDelta(s, t) + WrappedDelta(t, u) = d * n
      BY <2>8, <2>9
    <3>2. Printed(a) = Derived(s, t, u)
      BY DEF Printed, s, t, u
    <3>3. /\ Derived(s, t, u).direction = d /\ Derived(s, t, u).center \in Counts
          /\ Leads(s, d * ((n + 1) \div 2), Derived(s, t, u).center)
      BY <2>2, <2>5, <2>7, <3>1, DerivedMap
    <3> QED BY <3>2, <3>3
  <2>13. ASSUME NEW p \in 0 .. n
         PROVE  Decode(Printed(a), Shown(a, p)) = p - (n + 1) \div 2
    <3> DEFINE raw == Shown(a, p)
               map == Printed(a)
    <3>1. p \in Int /\ 0 \in Int
      BY <2>7
    <3>2. raw \in Counts /\ Leads(Shown(a, 0), d * (p - 0), raw)
      BY <2>5, <3>1, ShownIsCount, WayBetween DEF d
    <3>3. p - 0 = p
      BY <3>1
    <3>4. Leads(s, d * p, raw)
      BY <2>4, <3>2, <3>3 DEF s
    <3> HIDE DEF raw, map
    <3>5. map.direction = d /\ map.center \in Counts
          /\ Leads(s, map.direction * ((n + 1) \div 2), map.center)
          /\ Leads(s, map.direction * p, raw)
      BY <2>12, <3>4 DEF map
    <3>6. Decode(map, raw) = p - (n + 1) \div 2
      BY <2>2, <2>5, <2>7, <3>2, <3>5, DerivedMapDecodes
    <3> QED BY <3>6 DEF map, raw
  <2> QED BY <2>11, <2>13 DEF n
<1> QED BY <1>1, InvHolds, PTL


\* A capture too far from its stop makes the two halves uneven by more than the
\* tolerance, even if the middle is off as far as it may be.
LEMMA FarEndIsUneven ==
    ASSUME NEW n \in Nat \ {0}, NEW travel \in Nat \ {0}, NEW tol \in Nat \ {0},
           NEW m \in 0 .. n, NEW p \in 0 .. n,
           Magnitude(2 * m - n) * travel <= 2 * tol * n,
           p * travel > 4 * tol * n
    PROVE  ~(Magnitude((n - m) - (m - p)) * travel <= 2 * tol * (n - p))
<1> DEFINE slack == 2 * tol * n
           pt == p * travel
           bt == (2 * m - n) * travel
           gap == (n - m) - (m - p)
<1>1. slack \in Int /\ 4 * tol * n = 2 * slack
  OBVIOUS
<1>2. pt \in Int /\ bt \in Int /\ gap \in Int /\ gap * travel = pt - bt
  OBVIOUS
<1>3. bt <= slack
  <2>1. 2 * m - n \in Int /\ 2 * m - n <= Magnitude(2 * m - n)
        /\ Magnitude(2 * m - n) \in Int
    BY DEF Magnitude
  <2>2. bt <= Magnitude(2 * m - n) * travel
    BY <2>1, TimesMonotonic
  <2>3. Magnitude(2 * m - n) * travel \in Int
    BY <2>1
  <2> HIDE DEF bt, slack
  <2>4. Magnitude(2 * m - n) * travel <= slack
    BY DEF slack
  <2> QED BY <1>1, <1>2, <2>2, <2>3, <2>4
<1>4. gap * travel > slack
  <2>1. pt > 2 * slack
    BY <1>1
  <2> HIDE DEF bt, slack, pt, gap
  <2> QED BY <1>1, <1>2, <1>3, <2>1
<1>5. 2 * tol * (n - p) <= slack /\ 2 * tol * (n - p) \in Int
  <2>1. (n - p) * (2 * tol) <= n * (2 * tol)
    BY TimesMonotonic
  <2>2. (n - p) * (2 * tol) = 2 * tol * (n - p) /\ n * (2 * tol) = slack
    OBVIOUS
  <2> QED BY <2>1, <2>2
<1>6. gap * travel <= Magnitude(gap) * travel /\ Magnitude(gap) * travel \in Int
      /\ gap * travel \in Int
  <2>1. gap \in Int /\ gap <= Magnitude(gap) /\ Magnitude(gap) \in Int
    BY DEF Magnitude
  <2> HIDE DEF gap
  <2> QED BY <2>1, TimesMonotonic
<1> HIDE DEF gap, slack
<1>7. ~(Magnitude(gap) * travel <= 2 * tol * (n - p))
  BY <1>1, <1>4, <1>5, <1>6
<1> QED BY <1>7 DEF gap


\* In terms of the ways e and f that are measured, in direction dir.
LEMMA FarEndShows ==
    ASSUME NEW n \in Nat \ {0}, NEW travel \in Nat \ {0}, NEW tol \in Nat \ {0},
           NEW m \in 0 .. n, NEW p \in 0 .. n, m < n,
           Magnitude(2 * m - n) * travel <= 2 * tol * n, p * travel > 4 * tol * n,
           NEW dir \in {1, -1}, NEW e \in Int, NEW f \in Int,
           e = dir * (m - p), f = dir * (n - m), (e > 0) = (f > 0)
    PROVE  /\ Magnitude(e + f) > 0
           /\ ~(Magnitude(e - f) * travel <= 2 * tol * Magnitude(e + f))
<1>1. e > 0 <=> f > 0
  OBVIOUS
<1>2. /\ Magnitude(e + f) = n - p /\ n - p > 0
      /\ Magnitude(e - f) = Magnitude((n - m) - (m - p))
  <2>1. CASE dir = 1
    BY <1>1, <2>1 DEF Magnitude
  <2>2. CASE dir = -1
    BY <1>1, <2>2 DEF Magnitude
  <2> QED BY <2>1, <2>2
<1>3. ~(Magnitude((n - m) - (m - p)) * travel <= 2 * tol * (n - p))
  BY FarEndIsUneven
<1> QED BY <1>2, <1>3

LEMMA OutlierAtMinimum ==
    ASSUME IInv, step = Complete, NEW a \in Axis,
           ByTheBook(a, FirstOf(a) + 1), ByTheBook(a, FirstOf(a) + 2),
           NEW p \in 0 .. Full[a], sample[FirstOf(a)] = Shown(a, p),
           p * Travel[a] > 4 * MidTol * Full[a]
    PROVE  Warned(a)
<1> DEFINE i == FirstOf(a)
           m == at[i + 1]
           d == mount[a].direction
           n == Full[a]
           s == sample[i]
           t == sample[i + 1]
           u == sample[i + 2]
           e == d * (m - p)
           f == d * (n - m)
<1>1. i + 1 \in PointsOf(a) /\ i + 2 \in PointsOf(a)
  BY ThreePoints
<1>2. m \in Int /\ at[i + 2] \in Int /\ m \in 0 .. n
  BY <1>1, SamplesOf
<1>3. at[i + 2] = n /\ Intended(a, i + 1, m)
  BY <1>2, IntendedPlaces DEF ByTheBook
<1>4. s = Shown(a, p) /\ t = Shown(a, m) /\ u = Shown(a, n)
  BY <1>3 DEF ByTheBook, Current
<1>5. d \in {1, -1} /\ TypeOK
  BY DirectionType DEF IInv
<1>6. /\ 0 < m /\ m < n /\ m < Half /\ n - m < Half
      /\ Magnitude(2 * m - n) * Travel[a] <= 2 * MidTol * n
  BY <1>2, <1>3, BookMiddle
<1>7. n \in Nat \ {0} /\ p \in Int
  BY AxisFacts
<1>8. WrappedDelta(s, t) = e /\ WrappedDelta(t, u) = f
  <2>1. p \in 0 .. n
    OBVIOUS
  <2> HIDE DEF m, n, d, s, t, u
  <2>2. -Half < m - p /\ m - p < Half /\ -Half < n - m /\ n - m < Half
    BY <1>2, <1>6, <1>7, <2>1, HalfOfRev
  <2>3. WrappedDelta(Shown(a, p), Shown(a, m)) = mount[a].direction * (m - p)
    BY <1>2, <1>5, <1>7, <2>2, MeasuredShort
  <2>4. WrappedDelta(Shown(a, m), Shown(a, n)) = mount[a].direction * (n - m)
    BY <1>2, <1>5, <1>7, <2>2, MeasuredShort
  <2> QED BY <1>4, <2>3, <2>4 DEF d
<1>9. e \in Int /\ f \in Int
  BY <1>2, <1>5, <1>7
<1>10. p \in 0 .. n /\ p * Travel[a] > 4 * MidTol * n
  OBVIOUS
<1> HIDE DEF m, d, n, s, t, u, e, f
<1>11. ASSUME (e > 0) = (f > 0)
       PROVE  /\ Magnitude(e + f) > 0
              /\ ~(Magnitude(e - f) * Travel[a] <= 2 * MidTol * Magnitude(e + f))
  <2>1. e = d * (m - p) /\ f = d * (n - m)
    BY DEF e, f
  <2> QED BY <1>2, <1>5, <1>6, <1>7, <1>9, <1>10, <1>11, <2>1, AxisFacts, FarEndShows
<1>12. ~Consistent(s, t, u, Travel[a], MinCounts, MidTol)
  BY <1>8, <1>9, <1>11, ConsistentWays
<1> QED BY <1>12 DEF Warned, s, t, u

LEMMA OutlierAtMaximum ==
    ASSUME IInv, step = Complete, NEW a \in Axis,
           ByTheBook(a, FirstOf(a)), ByTheBook(a, FirstOf(a) + 1),
           NEW p \in 0 .. Full[a], sample[FirstOf(a) + 2] = Shown(a, p),
           (Full[a] - p) * Travel[a] > 4 * MidTol * Full[a]
    PROVE  Warned(a)
<1> DEFINE i == FirstOf(a)
           m == at[i + 1]
           d == mount[a].direction
           n == Full[a]
           s == sample[i]
           t == sample[i + 1]
           u == sample[i + 2]
           e == d * (m - 0)
           f == d * (p - m)
<1>1. i \in PointsOf(a) /\ i + 1 \in PointsOf(a)
  BY ThreePoints
<1>2. m \in Int /\ at[i] \in Int /\ m \in 0 .. n
  BY <1>1, SamplesOf
<1>3. at[i] = 0 /\ Intended(a, i + 1, m)
  BY <1>2, IntendedPlaces DEF ByTheBook
<1>4. s = Shown(a, 0) /\ t = Shown(a, m) /\ u = Shown(a, p)
  BY <1>3 DEF ByTheBook, Current
<1>5. d \in {1, -1} /\ TypeOK
  BY DirectionType DEF IInv
<1>6. /\ 0 < m /\ m < n /\ m < Half /\ n - m < Half
      /\ Magnitude(2 * m - n) * Travel[a] <= 2 * MidTol * n
  BY <1>2, <1>3, BookMiddle
<1>7. n \in Nat \ {0} /\ p \in Int
  BY AxisFacts
<1>8. WrappedDelta(s, t) = e /\ WrappedDelta(t, u) = f
  BY <1>2, <1>4, <1>5, <1>6, <1>7, MeasuredShort, HalfOfRev
<1>9. e \in Int /\ f \in Int
  BY <1>2, <1>5, <1>7
<1>10. p \in 0 .. n /\ (n - p) * Travel[a] > 4 * MidTol * n
  OBVIOUS
<1> HIDE DEF m, d, n, s, t, u, e, f
\* Seen from the other end it is a far minimum.
<1>11. ASSUME (e > 0) = (f > 0)
       PROVE  /\ Magnitude(e + f) > 0
              /\ ~(Magnitude(e - f) * Travel[a] <= 2 * MidTol * Magnitude(e + f))
  <2> DEFINE m1 == n - m
             p1 == n - p
  <2>1. /\ m1 \in 0 .. n /\ p1 \in 0 .. n /\ m1 < n
        /\ Magnitude(2 * m1 - n) = Magnitude(2 * m - n)
    BY <1>2, <1>6, <1>7, <1>10 DEF Magnitude
  <2>2. f = d * (m1 - p1) /\ e = d * (n - m1)
    BY <1>2, <1>7 DEF e, f
  <2>3. p1 * Travel[a] > 4 * MidTol * n /\ (f > 0) = (e > 0)
    BY <1>10, <1>11
  <2> HIDE DEF m1, p1
  <2>4. /\ Magnitude(f + e) > 0
        /\ ~(Magnitude(f - e) * Travel[a] <= 2 * MidTol * Magnitude(f + e))
    BY <1>5, <1>6, <1>7, <1>9, <2>1, <2>2, <2>3, AxisFacts, FarEndShows
  <2>5. f + e = e + f /\ Magnitude(f - e) = Magnitude(e - f)
    BY <1>9 DEF Magnitude
  <2> QED BY <2>4, <2>5
<1>12. ~Consistent(s, t, u, Travel[a], MinCounts, MidTol)
  BY <1>8, <1>9, <1>11, ConsistentWays
<1> QED BY <1>12 DEF Warned, s, t, u

\* A middle further off than the tolerance is warned about, even where the two
\* halves would no longer be measured the short way round.
LEMMA OutlierInTheMiddle ==
    ASSUME IInv, step = Complete, NEW a \in Axis,
           ByTheBook(a, FirstOf(a)), ByTheBook(a, FirstOf(a) + 2),
           NEW p \in 0 .. Full[a], sample[FirstOf(a) + 1] = Shown(a, p),
           ~(Magnitude(2 * p - Full[a]) * Travel[a] <= 2 * MidTol * Full[a])
    PROVE  Warned(a)
<1> DEFINE i == FirstOf(a)
           d == mount[a].direction
           n == Full[a]
           s == sample[i]
           t == sample[i + 1]
           u == sample[i + 2]
<1>1. i \in PointsOf(a) /\ i + 1 \in PointsOf(a) /\ i + 2 \in PointsOf(a)
  BY ThreePoints
<1>2. /\ at[i] \in Int /\ at[i + 2] \in Int
      /\ s \in Counts /\ u \in Counts
  BY <1>1, SamplesOf DEF ByTheBook
<1>3. at[i] = 0 /\ at[i + 2] = n
  BY <1>2, IntendedPlaces DEF ByTheBook
<1>4. s = Shown(a, 0) /\ t = Shown(a, p) /\ u = Shown(a, n)
  BY <1>3 DEF ByTheBook, Current
<1>5. d \in {1, -1} /\ TypeOK
  BY DirectionType DEF IInv
<1>6. n \in Nat \ {0} /\ p \in Int /\ n + 1 < Rev /\ p \in 0 .. n
  <2>1. n \in Nat \ {0} /\ n + 1 < Rev
    BY AxisFacts, LessThanATurn
  <2>2. p \in 0 .. n
    OBVIOUS
  <2> HIDE DEF n
  <2> QED BY <2>1, <2>2
<1>7. ~(Magnitude(2 * p - n) * Travel[a] <= 2 * MidTol * n)
  OBVIOUS
<1>8. Leads(s, d * (p - 0), t) /\ Leads(t, d * (n - p), u)
  <2>1. 0 \in Int /\ n \in Int
    BY <1>6
  <2>2. /\ Leads(Shown(a, 0), mount[a].direction * (p - 0), Shown(a, p))
        /\ Leads(Shown(a, p), mount[a].direction * (n - p), Shown(a, n))
    <3> HIDE DEF n
    <3> QED BY <1>5, <1>6, <2>1, WayBetween
  <2> QED BY <1>4, <2>2
<1>9. t \in Counts /\ \A c \in Counts : c \in Int
  BY <1>4, <1>5, <1>6, ShownIsCount, CountsAreIntegers
<1> HIDE DEF d, n, s, t, u
<1>10. ~Consistent(s, t, u, Travel[a], MinCounts, MidTol)
  <2>1. CASE p = 0 \/ p = n
    <3>1. s = t \/ t = u
      BY <1>4, <2>1
    <3>2. s \in Int /\ t \in Int /\ u \in Int
      BY <1>2, <1>9
    <3> QED BY <3>1, <3>2, AxisFacts, RepeatNeverConsistent
  <2>2. CASE 0 < p /\ p < n
    <3> DEFINE x == d * (p - 0)
               y == d * (n - p)
    <3>1. /\ x \in Int /\ y \in Int
          /\ (x > 0 /\ y > 0) \/ (x < 0 /\ y < 0)
          /\ -Rev < x + y /\ x + y < Rev
          /\ Magnitude(x + y) = n /\ Magnitude(x - y) = Magnitude(2 * p - n)
      BY <1>5, <1>6, <2>2, RevAssumption DEF Magnitude
    <3> HIDE DEF x, y
    <3>2. ASSUME OneWay(s, t, u)
          PROVE  WrappedDelta(s, t) = x /\ WrappedDelta(t, u) = y
      <4>1. Leads(s, x, t) /\ Leads(t, y, u)
        BY <1>8 DEF x, y
      <4>2. s \in Counts /\ t \in Counts /\ u \in Counts
        BY <1>2, <1>9
      <4>3. /\ x \in Int /\ y \in Int
            /\ (x > 0 /\ y > 0) \/ (x < 0 /\ y < 0)
            /\ -Rev < x + y /\ x + y < Rev
        BY <3>1
      <4> QED BY <3>2, <4>1, <4>2, <4>3, OneWayIsContinuous
    <3>3. SUFFICES ASSUME Consistent(s, t, u, Travel[a], MinCounts, MidTol)
                   PROVE  FALSE
      OBVIOUS
    <3>4. WrappedDelta(s, t) = x /\ WrappedDelta(t, u) = y
      BY <3>2, <3>3 DEF Consistent
    <3>5. Magnitude(x + y) > 0 =>
              Magnitude(x - y) * Travel[a] <= 2 * MidTol * Magnitude(x + y)
      <4>1. x \in Int /\ y \in Int
        BY <3>1
      <4> QED BY <3>3, <3>4, <4>1, ConsistentWays
    <3> QED BY <1>6, <1>7, <3>1, <3>5
  <2> QED BY <1>6, <2>1, <2>2
<1> QED BY <1>10 DEF Warned, s, t, u

\* A single capture from a wrong place is warned about if it is too far off for
\* the tolerance of the middle to hide it.
THEOREM OutliersAreWarned == Spec => []SingleOutlierIsWarned
<1>1. IInv => SingleOutlierIsWarned
  <2> SUFFICES ASSUME IInv, step = Complete, NEW a \in Axis, NEW i \in PointsOf(a),
                      \A j \in PointsOf(a) \ {i} : ByTheBook(a, j),
                      NEW p \in 0 .. Full[a], sample[i] = Shown(a, p), FarOff(a, i, p)
               PROVE  Warned(a)
    BY DEF SingleOutlierIsWarned
  <2>1. FirstOf(a) \in Int /\ p \in Int
        /\ PointsOf(a) = {FirstOf(a), FirstOf(a) + 1, FirstOf(a) + 2}
    BY ThreePoints, AxisFacts
  <2>2. CASE i = FirstOf(a)
    <3>1. p * Travel[a] > 4 * MidTol * Full[a]
      BY <2>1, <2>2 DEF FarOff
    <3>2. ByTheBook(a, FirstOf(a) + 1) /\ ByTheBook(a, FirstOf(a) + 2)
      BY <2>1, <2>2
    <3> QED BY <2>2, <3>1, <3>2, OutlierAtMinimum
  <2>3. CASE i = FirstOf(a) + 1
    <3>1. ~(Magnitude(2 * p - Full[a]) * Travel[a] <= 2 * MidTol * Full[a])
      BY <2>1, <2>3, IntendedPlaces DEF FarOff
    <3>2. ByTheBook(a, FirstOf(a)) /\ ByTheBook(a, FirstOf(a) + 2)
      BY <2>1, <2>3
    <3> QED BY <2>3, <3>1, <3>2, OutlierInTheMiddle
  <2>4. CASE i = FirstOf(a) + 2
    <3>1. (Full[a] - p) * Travel[a] > 4 * MidTol * Full[a]
      BY <2>1, <2>4 DEF FarOff
    <3>2. ByTheBook(a, FirstOf(a)) /\ ByTheBook(a, FirstOf(a) + 1)
      BY <2>1, <2>4
    <3> QED BY <2>4, <3>1, <3>2, OutlierAtMaximum
  <2> QED BY <2>1, <2>2, <2>3, <2>4
<1> QED BY <1>1, InvHolds, PTL
=============================================================================
