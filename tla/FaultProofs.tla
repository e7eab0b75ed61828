------------------------------ MODULE FaultProofs ------------------------------
(***************************************************************************)
(* The guards of the gimbal never give a false alarm: with motors that     *)
(* answer and follow, whatever the turns' jitter, the parking positions    *)
(* and the user's requests, no timeout, watchdog, range or divergence      *)
(* check of gimbal.c ends in FAULT.                                        *)
(*                                                                         *)
(* What must hold of the constants is in PlantTiming: TurnsAreShort        *)
(* relates the thresholds to the longest turn of the motor loop,           *)
(* HomeIsNear the centering timeout to the speed of the axes.              *)
(***************************************************************************)
EXTENDS PlantProofs, PlantTiming

USE DEF Axis, Yaw, Pitch

-----------------------------------------------------------------------------
(* The inductive invariant *)

\* What is known of an axis is a position it had, and positions are in range.
RangeInv ==
    /\ \A a \in Axis : /\ Answers(a) \subseteq Hard(a)
                       /\ a \in valid => angle[a] \in Hard(a)
    /\ state \in Armed => valid = Axis

\* A query of the axis, or its reply, is under way.
Due(a) == tx[a] = "query" \/ owed[a] > 0

\* Ages grow when a turn begins: by so much they may exceed, until it ends, what
\* the turn before left.
Awake == pc \in {"drain", "tick", "motion"}
Turn == IF Awake THEN Jitter ELSE 0

\* The three stages of a START: yaw is to be asked, pitch is to be asked, and the
\* answer of pitch is on its way (or just in).
AskYaw ==
    /\ ~probePitch /\ valid = {} /\ \A a \in Axis : ~Due(a)
    /\ queryAge >= QueryGap /\ stateAge <= Turn

AskPitch ==
    /\ probePitch /\ Pitch \notin valid /\ ~Due(Pitch)
    /\ Due(Yaw) \/ Yaw \in valid
    /\ \/ /\ queryAge < QueryGap /\ stateAge <= Jitter + queryAge
          /\ Due(Yaw) \/ fbAge[Yaw] <= queryAge
       \/ /\ queryAge >= QueryGap /\ Awake /\ stateAge <= Lag + Jitter
          /\ Due(Yaw) \/ fbAge[Yaw] <= Lag

HearPitch ==
    /\ Yaw \in valid /\ fbAge[Yaw] <= Lag + Turn
    /\ queryAge < FeedbackPoll => fbAge[Yaw] <= queryAge + Lag
    /\ Due(Pitch) \/ (Awake /\ Pitch \in valid /\ fbAge[Pitch] = 0)

CheckInv == state = "WAITING" => AskYaw \/ AskPitch \/ HearPitch

\* In an armed state the feedback of an axis is as old as the last poll, until
\* the next poll is due; then at most two turns go by that do not poll: one that
\* commands or enables, and one that releases yaw.
InTime(a) == queryAge < FeedbackPoll /\ fbAge[a] <= queryAge + Lag
PollDue(a) == Awake /\ fbAge[a] <= FeedbackPoll + Lag + Jitter
DelayedOnce(a) ==
    motionAge <= Turn /\ fbAge[a] <= FeedbackPoll + Lag + Jitter + Turn
DelayedTwice(a) ==
    /\ state = "READY" /\ ~idleStop /\ Yaw \notin moving
    /\ motionAge <= Turn /\ fbAge[a] <= FeedbackPoll + Lag + 2 * Jitter + Turn

Recent(a) ==
    \/ InTime(a)
    \/ queryAge = FeedbackPoll /\ (PollDue(a) \/ DelayedOnce(a) \/ DelayedTwice(a))

FreshInv ==
    /\ state \in Armed => \A a \in Axis : Due(a) \/ Recent(a)
    /\ pc = "center" =>
           \A a \in Axis : fbAge[a] <= FeedbackPoll + Lag + 2 * Jitter

\* An axis that was at x at time t since centering began is home, or has left
\* only what it can travel in time.
Leaves(a, x, t) ==
    \/ x = Center[a]
    \/ Abs(x - Center[a]) + Speed * (t - (ControlPeriod + Jitter))
           <= CenterTol + Speed * TravelTime

\* Centering: the command is given in time; from then on an axis only gets nearer
\* to its center, and so do the positions it reported.
Homing(a) ==
    /\ tx[a] # "stop" /\ (goal[a] = Center[a] \/ tx[a] = "pos")
    /\ Distance(a, position[a]) <= startError[a]
    /\ Distance(a, angle[a]) <= startError[a]
    /\ Leaves(a, position[a], stateAge)
    /\ (Due(a) /\ pc # "center") \/ Leaves(a, angle[a], stateAge - fbAge[a] - Jitter)
    /\ \A x \in Answers(a) :
           Distance(a, x) <= startError[a] /\ Leaves(a, x, stateAge - Jitter)

HomeInv ==
    state = "CENTERING" =>
        /\ dirty # {} => \/ motionAge < ControlPeriod /\ stateAge <= motionAge
                         \/ /\ motionAge = ControlPeriod /\ Awake
                            /\ stateAge <= ControlPeriod + Jitter
        /\ dirty = {} => \A a \in Axis : Homing(a)

CalmInv == NoSpuriousFault /\ RangeInv /\ CheckInv /\ FreshInv /\ HomeInv

FInv == PlantInv /\ CalmInv

-----------------------------------------------------------------------------
(* Helpers *)

LEMMA AgeFacts ==
    ASSUME TypeOK
    PROVE  /\ stateAge \in Nat /\ motionAge \in Nat /\ motionAge <= ControlPeriod
           /\ queryAge \in Nat /\ queryAge <= FeedbackPoll
           /\ \A a \in Axis : fbAge[a] \in Nat
BY TimingAssumption DEF TypeOK, AgesTypeOK, FeedbackTypeOK, StateAgeCap, FbAgeCap

LEMMA Thresholds ==
    ASSUME TurnsAreShort
    PROVE  /\ Jitter \in Nat /\ Lag \in Nat /\ Lag = QueryGap + Jitter
           /\ QueryGap \in Nat /\ FeedbackPoll \in Nat /\ ControlPeriod \in Nat
           /\ StartMaxAge \in Nat /\ FeedbackStale \in Nat /\ FeedbackTimeout \in Nat
           /\ CenterTimeout \in Nat
           /\ 0 < QueryGap /\ QueryGap <= FeedbackPoll /\ Jitter < ControlPeriod
           /\ StartMaxAge <= FeedbackStale /\ FeedbackStale <= FeedbackTimeout
           /\ Lag + Jitter <= StartMaxAge
           /\ FeedbackPoll + Lag + 3 * Jitter <= FeedbackStale
BY TimingAssumption DEF TurnsAreShort, Lag

\* When a turn takes its decisions no frame and no reply is under way.
LEMMA NothingDue ==
    ASSUME PlantInv, pc \in {"tick", "motion"}
    PROVE  /\ BusIdle /\ \A a \in Axis : tx[a] = "none" /\ owed[a] = 0 /\ ~Due(a)
<1>1. BusIdle /\ \A a \in Axis : reading[a] = <<>> /\ Len(reading[a]) = owed[a]
  BY DEF PlantInv, PromptInv, PlantTypeOK
<1>2. \A a \in Axis : owed[a] = 0
  BY <1>1
<1> QED BY <1>1, <1>2 DEF BusIdle, TxPending, Due

\* Then whatever is offered is sent.
LEMMA AllAccepted ==
    ASSUME ~MayRefuse, BusIdle, NEW S \in SUBSET Axis
    PROVE  Accepts(S) = {S}
<1>1. {a \in S : ~TxPending(a)} = S
  BY DEF BusIdle
<1> QED BY <1>1 DEF Accepts

\* A command of axes that are known, to targets between the stops, succeeds.
LEMMA AllSucceed ==
    ASSUME NEW S \in SUBSET valid, S \subseteq Axis, BoundsInv
    PROVE  Succeeds(S, Moves(S)) = S
BY DEF BoundsInv, Hard, Succeeds, Settable

\* A known position is inside the range that supervision allows.
LEMMA KnownInRange ==
    ASSUME TypeOK, RangeInv, NEW a \in valid, a \in Axis
    PROVE  InsideHardLimits(a)
<1>1. angle[a] \in Hard(a) /\ HardMin[a] \in Int /\ HardMax[a] \in Int /\ Margin \in Nat
  BY AngleAssumption DEF RangeInv
<1> QED BY <1>1 DEF Hard, InsideHardLimits

\* Feedback that is recent when a turn decides is fresh.
LEMMA RecentIsFresh ==
    ASSUME TurnsAreShort, TypeOK, NEW a \in Axis, Recent(a)
    PROVE  fbAge[a] <= FeedbackStale
<1>1. fbAge[a] \in Nat /\ queryAge \in Nat /\ motionAge \in Nat
  BY AgeFacts
<1>2. Turn \in Nat /\ Turn <= Jitter
  BY Thresholds DEF Turn
<1> QED BY <1>1, <1>2, Thresholds
        DEF Recent, InTime, PollDue, DelayedOnce, DelayedTwice

-----------------------------------------------------------------------------
(* Travel *)

LEMMA SpeedFacts ==
    ASSUME NEW s \in Int, NEW t \in Int
    PROVE  /\ Speed * s \in Int /\ Speed * (s + t) = Speed * s + Speed * t
           /\ s <= t => Speed * s <= Speed * t
<1>1. Speed \in Nat /\ Speed > 0
  BY PlantAssumption
<1>2. Speed * s \in Int /\ Speed * (s + t) = Speed * s + Speed * t
  BY <1>1
<1>3. ASSUME s <= t PROVE Speed * s <= Speed * t
  <2>1. t - s \in Nat /\ t = s + (t - s)
    BY <1>3
  <2>2. Speed * (t - s) \in Nat
    BY <1>1, <2>1
  <2>3. Speed * t = Speed * s + Speed * (t - s)
    BY <1>1, <2>1
  <2> QED BY <1>2, <2>2, <2>3
<1> QED BY <1>2, <1>3

LEMMA HomeFacts ==
    ASSUME TurnsAreShort, NEW a \in Axis
    PROVE  /\ ControlPeriod + Jitter \in Int /\ Center[a] \in Int
           /\ CenterTol \in Nat /\ TravelTime \in Int
           /\ CenterTol + Speed * TravelTime \in Int
           /\ \A x \in Int : Abs(x - Center[a]) \in Nat
<1>1. ControlPeriod + Jitter \in Int /\ Center[a] \in Int /\ CenterTol \in Nat
  BY Thresholds, AngleAssumption
<1>2. TravelTime \in Int
  BY Thresholds DEF TravelTime
<1>3. Speed * TravelTime \in Int
  BY <1>2, SpeedFacts
<1>4. CenterTol + Speed * TravelTime \in Int
  BY <1>1, <1>3
<1> QED BY <1>1, <1>2, <1>4, DistanceOf

\* Where an axis was earlier asks less of it.
LEMMA LeavesEarlier ==
    ASSUME TurnsAreShort, NEW a \in Axis, NEW x \in Int, NEW s \in Int, NEW t \in Int,
           s <= t, Leaves(a, x, t)
    PROVE  Leaves(a, x, s)
<1> DEFINE c == ControlPeriod + Jitter
<1>1. c \in Int /\ Center[a] \in Int /\ Abs(x - Center[a]) \in Nat
  BY HomeFacts
<1>2. CenterTol + Speed * TravelTime \in Int
  BY HomeFacts
<1> HIDE DEF c
<1>3. /\ Speed * (s - c) <= Speed * (t - c)
      /\ Speed * (s - c) \in Int /\ Speed * (t - c) \in Int
  <2>1. s - c \in Int /\ t - c \in Int /\ s - c <= t - c
    BY <1>1
  <2> QED BY <2>1, SpeedFacts
<1>4. x = Center[a]
      \/ Abs(x - Center[a]) + Speed * (t - c) <= CenterTol + Speed * TravelTime
  BY DEF Leaves, c
<1>5. x = Center[a]
      \/ Abs(x - Center[a]) + Speed * (s - c) <= CenterTol + Speed * TravelTime
  BY <1>1, <1>2, <1>3, <1>4
<1> QED BY <1>5 DEF Leaves, c

\* When centering is commanded nothing is asked of the axes but to be in range.
LEMMA LeavesAtStart ==
    ASSUME TurnsAreShort, HomeIsNear, NEW a \in Axis, NEW x \in Hard(a), NEW t \in Int,
           t <= ControlPeriod + Jitter
    PROVE  Leaves(a, x, t)
<1> DEFINE c == ControlPeriod + Jitter
<1>1. c \in Int /\ Center[a] \in Int /\ x \in Int /\ Abs(x - Center[a]) \in Nat
  <2>1. x \in Int
    BY AngleAssumption DEF Hard
  <2> QED BY <2>1, HomeFacts
<1>2. CenterTol + Speed * TravelTime \in Int
  BY HomeFacts
<1>3. Abs(x - Center[a]) <= CenterTol + Speed * TravelTime
  BY DEF HomeIsNear, Hard
<1>4. t <= c
  OBVIOUS
<1> HIDE DEF c
<1>5. Speed * (t - c) <= 0 /\ Speed * (t - c) \in Int
  <2>1. t - c \in Int /\ 0 \in Int /\ t - c <= 0 /\ Speed * 0 = 0
    BY <1>1, <1>4, PlantAssumption
  <2> QED BY <2>1, SpeedFacts
<1>6. Abs(x - Center[a]) + Speed * (t - c) <= CenterTol + Speed * TravelTime
  BY <1>1, <1>2, <1>3, <1>5
<1> QED BY <1>6 DEF Leaves, c

\* An axis on its way home does what is asked of it.
LEMMA LeavesByTravel ==
    ASSUME TurnsAreShort, NEW a \in Axis, NEW p \in Int, NEW d \in Nat, NEW t \in Int,
           Leaves(a, p, t)
    PROVE  Leaves(a, Approach(p, Center[a], Speed * d), t + d)
<1> DEFINE c == ControlPeriod + Jitter
<1> DEFINE w == Speed * d
<1> DEFINE q == Approach(p, Center[a], w)
<1>1. c \in Int /\ Center[a] \in Int /\ Abs(p - Center[a]) \in Nat
  BY HomeFacts
<1>2. CenterTol + Speed * TravelTime \in Int
  BY HomeFacts
<1>3. p = Center[a]
      \/ Abs(p - Center[a]) + Speed * (t - c) <= CenterTol + Speed * TravelTime
  BY DEF Leaves
<1>4. w \in Nat
  BY PlantAssumption
<1> HIDE DEF c
<1>5. Speed * ((t + d) - c) = Speed * (t - c) + w /\ Speed * (t - c) \in Int
  <2>1. t - c \in Int /\ d \in Int /\ (t + d) - c = (t - c) + d
    BY <1>1
  <2> QED BY <2>1, SpeedFacts
<1> HIDE DEF w
<1>6. q \in Int /\ (q = Center[a] \/ Abs(q - Center[a]) = Abs(p - Center[a]) - w)
  BY <1>1, <1>4 DEF Approach, Abs
<1> HIDE DEF q
<1>7. CASE p = Center[a]
  <2>1. q = Center[a]
    BY <1>1, <1>4, <1>7, ApproachGoal DEF q
  <2> QED BY <2>1 DEF Leaves, q, w
<1>8. CASE p # Center[a] /\ q # Center[a]
  <2>1. Abs(q - Center[a]) + Speed * ((t + d) - c) <= CenterTol + Speed * TravelTime
    BY <1>1, <1>2, <1>3, <1>4, <1>5, <1>6, <1>8
  <2> QED BY <2>1 DEF Leaves, q, w, c
<1>9. CASE q = Center[a]
  BY <1>9 DEF Leaves, q, w
<1> QED BY <1>7, <1>8, <1>9

\* An axis seen recently enough when the timeout passes is seen at home.
LEMMA LeavesAtEnd ==
    ASSUME TurnsAreShort, NEW a \in Axis, NEW x \in Int, NEW f \in Nat,
           f <= FeedbackPoll + Lag + 2 * Jitter, NEW s \in Nat, s > CenterTimeout,
           Leaves(a, x, s - f - Jitter)
    PROVE  Abs(x - Center[a]) <= CenterTol
<1> DEFINE c == ControlPeriod + Jitter
<1> DEFINE t == s - f - Jitter
<1>1. /\ Center[a] \in Int /\ Abs(x - Center[a]) \in Nat /\ CenterTol \in Nat
      /\ TravelTime \in Int /\ c \in Int /\ t \in Int /\ t - c \in Int
  BY HomeFacts, Thresholds
<1>2. TravelTime <= t - c
  BY Thresholds DEF TravelTime
<1>3. x = Center[a]
      \/ Abs(x - Center[a]) + Speed * (t - c) <= CenterTol + Speed * TravelTime
  BY DEF Leaves
<1> HIDE DEF c, t
<1>4. /\ Speed * TravelTime <= Speed * (t - c)
      /\ Speed * TravelTime \in Int /\ Speed * (t - c) \in Int
  BY <1>1, <1>2, SpeedFacts
<1>5. x = Center[a] => Abs(x - Center[a]) = 0
  BY <1>1 DEF Abs
<1> QED BY <1>1, <1>3, <1>4, <1>5

-----------------------------------------------------------------------------
(* No step ends in a fault *)

\* When pitch has been heard, both axes have.
LEMMA HearsBoth ==
    ASSUME TurnsAreShort, FInv, pc = "tick", HearPitch PROVE BothFresh(StartMaxAge)
<1>1. /\ TypeOK /\ Turn = Jitter /\ ~Due(Pitch)
  BY NothingDue DEF FInv, PlantInv, CtlInv, Turn, Awake
<1>2. /\ Yaw \in valid /\ Pitch \in valid /\ fbAge[Yaw] <= Lag + Jitter
      /\ fbAge[Pitch] = 0 /\ fbAge[Yaw] \in Nat
  BY <1>1, AgeFacts DEF HearPitch
<1> QED BY <1>2, Thresholds DEF BothFresh, Fresh

\* START: the replies are in before they can be missed.
LEMMA AskedInTime ==
    ASSUME TurnsAreShort, FInv, AskPosition PROVE pc' # "fault"
<1>0. /\ TypeOK /\ pc = "tick" /\ state = "WAITING" /\ Turn = Jitter
      /\ \A a \in Axis : ~Due(a)
  BY NothingDue
  DEF FInv, PlantInv, CtlInv, AskPosition, Ticking, Turn, Awake
<1>1. stateAge \in Nat /\ queryAge \in Nat /\ \A a \in Axis : fbAge[a] \in Nat
  BY <1>0, AgeFacts
<1>2. ~HearPitch
  BY <1>0, HearsBoth DEF AskPosition
<1>3. stateAge <= Lag + Jitter
  <2>1. CASE AskYaw
    BY <1>0, <1>1, <2>1, Thresholds DEF AskYaw
  <2>2. CASE AskPitch
    BY <1>1, <2>2, Thresholds DEF AskPitch
  <2> QED BY <1>0, <1>2, <2>1, <2>2 DEF FInv, CalmInv, CheckInv
<1>4. ~FeedbackLate
  BY <1>1, <1>3, Thresholds DEF FeedbackLate
<1> QED BY <1>4 DEF AskPosition

\* Supervision is content whenever a turn decides.
LEMMA AlwaysContent ==
    ASSUME TurnsAreShort, FInv, pc = "tick", state \in Armed PROVE Supervised
<1>1. TypeOK /\ RangeInv /\ valid = Axis /\ \A a \in Axis : ~Due(a)
  BY NothingDue DEF FInv, PlantInv, CtlInv, CalmInv, RangeInv
<1>2. \A a \in Axis : Recent(a)
  BY <1>1 DEF FInv, CalmInv, FreshInv
<1> QED BY <1>1, <1>2, KnownInRange, RecentIsFresh DEF Supervised, BothFresh, Fresh

\* Centering: an axis never seems to move away, and is seen at home in time.
LEMMA CenteringIsCalm ==
    ASSUME TurnsAreShort, HomeIsNear, FInv, KeepCentering PROVE pc' # "fault"
<1>0. /\ TypeOK /\ pc = "center" /\ state = "CENTERING" /\ target = Center
      /\ dirty = {} => \A a \in Axis : Homing(a)
      /\ dirty # {} => motionAge < ControlPeriod /\ stateAge <= motionAge
      /\ \A a \in Axis : fbAge[a] <= FeedbackPoll + Lag + 2 * Jitter
  BY DEF KeepCentering, FInv, PlantInv, CtlInv, SupervisionInv, RestInv, CalmInv,
         HomeInv, FreshInv, Awake
<1>1. /\ stateAge \in Nat /\ motionAge \in Nat
      /\ \A a \in Axis : /\ fbAge[a] \in Nat /\ angle[a] \in Int
                         /\ startError[a] \in Int /\ Error(a) \in Nat
                         /\ Error(a) = Distance(a, angle[a])
  <2>1. stateAge \in Nat /\ motionAge \in Nat /\ \A a \in Axis : fbAge[a] \in Nat
    BY <1>0, AgeFacts
  <2>2. \A a \in Axis : angle[a] \in Int /\ startError[a] \in Int
    BY <1>0 DEF TypeOK, FeedbackTypeOK, ControlTypeOK
  <2>3. \A a \in Axis : Error(a) \in Nat
    BY <2>2, HomeFacts DEF Error
  <2> QED BY <1>0, <2>1, <2>2, <2>3 DEF Error, Distance
<1>2. ~Diverged
  <2> SUFFICES ASSUME dirty = {}, NEW a \in Axis
               PROVE  Error(a) <= startError[a] + Divergence
    BY <1>1, AngleAssumption DEF Diverged
  <2>1. Error(a) <= startError[a]
    BY <1>0, <1>1 DEF Homing
  <2> QED BY <1>1, <2>1, AngleAssumption
<1>3. ~CenteringLate
  <2> SUFFICES ASSUME stateAge > CenterTimeout PROVE FALSE
    BY DEF CenteringLate
  <2>1. dirty = {}
    <3>1. ControlPeriod <= CenterTimeout
      BY Thresholds DEF HomeIsNear, TravelTime
    <3> QED BY <1>0, <1>1, <3>1, Thresholds
  <2>2. ASSUME NEW a \in Axis PROVE Error(a) <= CenterTol
    <3>1. Leaves(a, angle[a], stateAge - fbAge[a] - Jitter)
      BY <1>0, <2>1 DEF Homing
    <3> QED BY <1>0, <1>1, <3>1, LeavesAtEnd DEF Error
  <2> QED BY <1>2, <2>2 DEF KeepCentering, Centered
<1> QED BY <1>2, <1>3 DEF KeepCentering

\* What supervision finds in an armed state, and what it sends, is in order.
LEMMA ArmedIsCalm ==
    ASSUME TurnsAreShort, ~MayRefuse, FInv,
           SupervisionFault \/ ReleaseYaw \/ StopYawAtTarget
    PROVE  pc' # "fault"
<1>1. pc = "tick" /\ state \in Armed
  BY DEF SupervisionFault, ReleaseYaw, StopYawAtTarget, Ticking, Armed
<1>2. Supervised
  BY <1>1, AlwaysContent
<1>3. /\ BusIdle /\ Released \in SUBSET Axis
      /\ Accepts(Released) = {Released} /\ Accepts({Yaw}) = {{Yaw}}
  <2>1. BusIdle /\ Released \in SUBSET Axis /\ {Yaw} \in SUBSET Axis
    BY <1>1, NothingDue DEF FInv, Released
  <2> QED BY <2>1, AllAccepted
<1>4. CASE ReleaseYaw
  BY <1>3, <1>4 DEF ReleaseYaw
<1>5. CASE StopYawAtTarget
  BY <1>3, <1>5 DEF StopYawAtTarget
<1> QED BY <1>2, <1>4, <1>5 DEF SupervisionFault

\* Commands and polls are accepted by a bus that is idle.
LEMMA MotionIsCalm ==
    ASSUME ~MayRefuse, FInv, CommandHome \/ ReEnable \/ CommandTargets \/ Poll
    PROVE  pc' # "fault"
<1>1. pc = "motion" /\ state \in Armed /\ valid = Axis /\ dirty \subseteq Axis /\ BoundsInv
  <2>1. pc = "motion"
    BY DEF CommandHome, ReEnable, CommandTargets, Poll
  <2> QED BY <2>1 DEF FInv, PlantInv, CtlInv, SupervisionInv, CalmInv, RangeInv,
                      TypeOK, ControlTypeOK
<1>2. /\ BusIdle
      /\ \A S \in SUBSET Axis : Accepts(S) = {S} /\ Succeeds(S, Moves(S)) = S
      /\ \A S \in SUBSET Axis : Moves(S) \in SUBSET Axis
  <2>1. BusIdle
    BY <1>1, NothingDue DEF FInv
  <2> QED BY <1>1, <2>1, AllAccepted, AllSucceed DEF Moves
<1>3. CASE CommandHome
  <2>1. Accepts(Moves(Axis)) = {Moves(Axis)} /\ Succeeds(Axis, Moves(Axis)) = Axis
    BY <1>2
  <2> QED BY <1>3, <2>1 DEF CommandHome
<1>4. CASE ReEnable
  <2>1. Accepts(dirty \ enabled) = {dirty \ enabled}
    BY <1>1, <1>2
  <2> QED BY <1>4, <2>1 DEF ReEnable
<1>5. CASE CommandTargets
  <2>1. Accepts(Moves(dirty)) = {Moves(dirty)} /\ Succeeds(dirty, Moves(dirty)) = dirty
    BY <1>1, <1>2
  <2> QED BY <1>5, <2>1 DEF CommandTargets
<1>6. CASE Poll
  <2>1. Accepts(Axis) = {Axis}
    BY <1>2
  <2> QED BY <1>6, <2>1 DEF Poll, AfterMotion
<1> QED BY <1>3, <1>4, <1>5, <1>6

LEMMA NoFault ==
    ASSUME TurnsAreShort, HomeIsNear, ~MayRefuse, FInv, Tick PROVE pc' # "fault"
<1>1. CASE StartRefused \/ OutsideAtStart \/ AwaitTx \/ Enable
  <2>1. pc = "tick" /\ TypeOK /\ RangeInv
    BY <1>1 DEF StartRefused, RestartPlan, OutsideAtStart, AwaitTx, Enable, Proven,
                Ticking, FInv, PlantInv, CtlInv, CalmInv
  <2>2. BusIdle /\ Accepts(Axis) = {Axis}
    <3>1. BusIdle
      BY <2>1, NothingDue DEF FInv
    <3> QED BY <3>1, AllAccepted
  <2>3. ~StartRefused /\ ~AwaitTx
    BY <2>2 DEF StartRefused, AwaitTx
  <2>4. ~OutsideAtStart
    BY <2>1, KnownInRange DEF OutsideAtStart, Proven, BothFresh, Fresh
  <2>5. Enable => pc' # "fault"
    BY <2>2 DEF Enable
  <2> QED BY <1>1, <2>3, <2>4, <2>5
<1>2. CASE \/ StartAccepted \/ BootProbe \/ NothingToDo \/ ToMotion \/ AwaitCommand
           \/ BecomeReady \/ FaultStop
  BY <1>2 DEF StartAccepted, BootProbe, NothingToDo, ToMotion, AwaitCommand,
              BecomeReady, FaultStop
<1> QED
  BY <1>1, <1>2, AskedInTime, ArmedIsCalm, MotionIsCalm, CenteringIsCalm DEF Tick

\* What a turn does when nothing goes wrong.
CalmTick ==
    \/ StartAccepted \/ BootProbe \/ NothingToDo \/ Enable \/ AskPosition
    \/ ReleaseYaw \/ StopYawAtTarget \/ ToMotion
    \/ CommandHome \/ ReEnable \/ CommandTargets \/ Poll
    \/ BecomeReady \/ KeepCentering

LEMMA TickIsCalm ==
    ASSUME TurnsAreShort, HomeIsNear, ~MayRefuse, FInv, Tick
    PROVE  CalmTick /\ pc' # "fault"
<1>1. pc' # "fault" /\ pc # "fault"
  BY NoFault DEF FInv, CalmInv, NoSpuriousFault
<1>2. ~StartRefused
  <2>1. ASSUME StartRefused PROVE FALSE
    <3>1. pc = "tick"
      BY <2>1 DEF StartRefused, RestartPlan
    <3>2. BusIdle
      BY <3>1, NothingDue DEF FInv
    <3>3. Accepts(Axis) = {Axis}
      BY <3>2, AllAccepted
    <3> QED BY <2>1, <3>3 DEF StartRefused
  <2> QED BY <2>1
<1>3. ~AwaitTx /\ ~AwaitCommand
  <2>1. ASSUME AwaitTx \/ AwaitCommand PROVE FALSE
    <3>1. pc \in {"tick", "motion"}
      BY <2>1 DEF AwaitTx, AwaitCommand, Proven, Ticking
    <3>2. BusIdle
      BY <3>1, NothingDue DEF FInv
    <3>3. dirty \subseteq Axis
      BY DEF FInv, PlantInv, CtlInv, TypeOK, ControlTypeOK
    <3> QED BY <2>1, <3>2, <3>3 DEF AwaitTx, AwaitCommand, BusIdle
  <2> QED BY <2>1
<1> QED
  BY <1>1, <1>2, <1>3
  DEF Tick, CalmTick, OutsideAtStart, SupervisionFault, FaultStop

\* A query that is received becomes a reply: the axis stays due.
LEMMA DueKept ==
    ASSUME PlantInv, NEW a \in Axis, PlantComplete(a), NEW b \in Axis
    PROVE  Due(b)' <=> Due(b)
<1>1. /\ tx \in [Axis -> Frames] /\ owed \in [Axis -> 0 .. MaxOwed]
      /\ MaxOwed \in Nat \ {0} /\ ~MayFail
  BY BusAssumption, PlantAssumption DEF PlantInv, CtlInv, TypeOK, BusTypeOK
<1>2. /\ tx' = [tx EXCEPT ![a] = "none"]
      /\ owed' = [owed EXCEPT ![a] = IF tx[a] = "query" /\ @ < MaxOwed THEN @ + 1 ELSE @]
  BY <1>1 DEF PlantComplete, TxComplete
<1>3. CASE b # a
  BY <1>1, <1>2, <1>3 DEF Due
<1>4. CASE b = a
  <2>1. tx'[a] = "none" /\ owed[a] \in Nat
        /\ owed'[a] = IF tx[a] = "query" /\ owed[a] < MaxOwed THEN owed[a] + 1 ELSE owed[a]
    BY <1>1, <1>2
  <2> QED BY <1>1, <1>4, <2>1 DEF Due
<1> QED BY <1>3, <1>4

\* The steps between which nothing is decided.
LEMMA QuietStep ==
    ASSUME UNCHANGED plantVars \/ PlantPress \/ PlantDrainDone
    PROVE  /\ UNCHANGED <<position, goal, reading, owed, tx, state, target, dirty, valid,
                          angle, fbAge, stateAge, motionAge, queryAge, probePitch,
                          startError, moving, idleStop>>
           /\ Awake' = Awake /\ (pc' = "center" <=> pc = "center")
           /\ pc' = pc \/ (pc = "drain" /\ pc' = "tick")
BY DEF plantVars, vars, plant, PlantPress, PressButton, PlantDrainDone, DrainDone, plan,
       drive, rest, timers, feedback, bus, Awake

LEMMA CompleteStep ==
    ASSUME PlantInv, NEW a \in Axis, PlantComplete(a)
    PROVE  /\ UNCHANGED <<pc, position, state, target, dirty, valid, angle, fbAge,
                          stateAge, motionAge, queryAge, probePitch, startError,
                          moving, idleStop>>
           /\ Awake' = Awake /\ (pc' = "center" <=> pc = "center")
BY CompletePlant DEF plan, drive, rest, timers, feedback, Awake

-----------------------------------------------------------------------------
(* What is known of an axis is in range *)

LEMMA NextRange ==
    ASSUME TurnsAreShort, HomeIsNear, ~MayRefuse, FInv, [PlantNext]_plantVars
    PROVE  RangeInv'
<1>0. PlantInv /\ RangeInv /\ BoundsInv
  BY DEF FInv, CalmInv, PlantInv
<1>1. ASSUME PlantTick PROVE RangeInv'
  <2>1. CalmTick /\ UNCHANGED <<reading, angle>>
    BY <1>1, TickIsCalm, TickFrame DEF PlantTick
  <2>2. valid' \subseteq valid
    BY <2>1
    DEF CalmTick, StartAccepted, RestartPlan, ForgetFeedback, BootProbe, NothingToDo,
        Enable, AskPosition, ReleaseYaw, StopYawAtTarget, ToMotion, CommandHome,
        ReEnable, CommandTargets, Poll, BecomeReady, KeepCentering, feedback
  <2>3. ASSUME state' \in Armed PROVE valid' = Axis
    <3>1. CASE Enable
      <4>1. \A a \in Axis : a \in valid
        BY <3>1 DEF Enable, Proven, BothFresh, Fresh
      <4>2. valid' = valid /\ valid \subseteq Axis
        BY <3>1, <1>0 DEF Enable, feedback, PlantInv, CtlInv, TypeOK, FeedbackTypeOK
      <4> QED BY <4>1, <4>2
    <3>2. CASE CalmTick /\ ~Enable
      <4>1. state \in Armed /\ valid' = valid
        BY <1>0, <2>3, <3>2
        DEF CalmTick, StartAccepted, BootProbe, NothingToDo, AskPosition, ReleaseYaw,
            StopYawAtTarget, ToMotion, CommandHome, ReEnable, CommandTargets, Poll,
            BecomeReady, KeepCentering, feedback, Armed, PlantInv, CtlInv,
            SupervisionInv
      <4> QED BY <1>0, <4>1 DEF RangeInv
    <3> QED BY <2>1, <3>1, <3>2
  <2>4. \A a \in Axis : Answers(a)' = Answers(a)
    BY <2>1, AnswersFrame
  <2> QED BY <1>0, <2>1, <2>2, <2>3, <2>4 DEF RangeInv, Hard
<1>2. ASSUME NEW d \in Elapse, PlantWake(d) PROVE RangeInv'
  <2>1. UNCHANGED <<reading, angle, valid, state>>
    BY <1>2 DEF PlantWake, Wake
  <2> QED BY <1>0, <2>1, AnswersFrame DEF RangeInv, Hard
<1>3. ASSUME NEW a \in Axis, PlantReceive(a) PROVE RangeInv'
  <2>1. /\ angle'[a] \in Answers(a) /\ Answers(a)' \subseteq Answers(a)
        /\ valid' = valid \cup {a} /\ state' = state
        /\ \A b \in Axis \ {a} : UNCHANGED <<angle[b], reading[b]>>
    BY <1>0, <1>3, ReceivePlant
  <2>2. \A b \in Axis \ {a} : Answers(b)' = Answers(b)
    BY <2>1, AnswersFrame
  <2> QED BY <1>0, <2>1, <2>2 DEF RangeInv, Hard
<1>4. ASSUME NEW a \in Axis, PlantComplete(a) PROVE RangeInv'
  <2>1. /\ Answers(a)' \subseteq Answers(a) \cup {position[a]}
        /\ \A b \in Axis \ {a} : reading'[b] = reading[b]
        /\ UNCHANGED <<angle, valid, state>>
    BY <1>0, <1>4, CompletePlant DEF feedback
  <2>2. \A b \in Axis \ {a} : Answers(b)' = Answers(b)
    BY <2>1, AnswersFrame
  <2> QED BY <1>0, <2>1, <2>2 DEF RangeInv, Hard, BoundsInv
<1>5. ASSUME NEW a \in Axis, NEW deg \in Slider[a], PlantSetTarget(a, deg)
      PROVE  RangeInv'
  <2>1. UNCHANGED <<reading, angle, valid, state>>
    BY <1>5 DEF PlantSetTarget, SetTarget, feedback
  <2> QED BY <1>0, <2>1, AnswersFrame DEF RangeInv, Hard
<1>6. ASSUME UNCHANGED plantVars \/ PlantPress \/ PlantDrainDone PROVE RangeInv'
  BY <1>0, <1>6, QuietStep, AnswersFrame DEF RangeInv, Hard
<1> QED BY <1>1, <1>2, <1>3, <1>4, <1>5, <1>6 DEF PlantNext, PlantMotorThread

-----------------------------------------------------------------------------
(* START: the stages follow each other in time *)

LEMMA CheckFrame ==
    ASSUME CheckInv, \A a \in Axis : Due(a)' <=> Due(a), Awake' = Awake,
           UNCHANGED <<state, probePitch, valid, queryAge, stateAge, fbAge>>
    PROVE  CheckInv'
BY DEF CheckInv, AskYaw, AskPitch, HearPitch, Turn

\* A step that queues a frame for some axes, when no frame or reply is under way.
LEMMA DueAfterTick ==
    ASSUME PlantInv, Tick, pc \in {"tick", "motion"}, NEW a \in Axis
    PROVE  Due(a)' <=> tx'[a] = "query"
BY NothingDue, TickFrame DEF Due

LEMMA AskCheck ==
    ASSUME TurnsAreShort, HomeIsNear, ~MayRefuse, FInv, PlantTick, AskPosition
    PROVE  CheckInv'
<1>0. /\ PlantInv /\ TypeOK /\ CheckInv /\ pc = "tick" /\ state = "WAITING" /\ Awake
      /\ \A a \in Axis : ~Due(a) /\ tx[a] = "none"
      /\ BusIdle /\ Turn = Jitter /\ Tick
  BY NothingDue
  DEF FInv, PlantInv, CtlInv, CalmInv, AskPosition, Ticking, Turn, Awake, PlantTick
<1>1. /\ UNCHANGED <<state, valid, stateAge, fbAge>> /\ pc' = "sleep" /\ ~Awake'
      /\ Turn' = 0
  <2>1. pc' # "fault"
    BY AskedInTime
  <2> QED BY <2>1 DEF AskPosition, feedback, Awake, Turn
<1>2. stateAge \in Nat /\ queryAge \in Nat /\ \A a \in Axis : fbAge[a] \in Nat
  BY <1>0, AgeFacts
<1>3. \A a \in Axis : Due(a)' <=> tx'[a] = "query"
  BY <1>0, DueAfterTick
<1>4. AskYaw \/ AskPitch
  BY <1>0, HearsBoth DEF CheckInv, AskPosition
<1>5. CASE queryAge >= QueryGap
  <2>1. tx' = Queue({Probed}, "query") /\ probePitch' = ~probePitch /\ queryAge' = 0
    <3>1. Accepts({Probed}) = {{Probed}}
      BY <1>0, AllAccepted DEF Probed
    <3> QED BY <1>5, <3>1 DEF AskPosition
  <2>2. CASE AskYaw
    <3>1. probePitch' /\ Probed = Yaw
      BY <2>1, <2>2 DEF AskYaw, Probed
    <3>2. Due(Yaw)' /\ ~Due(Pitch)'
      BY <1>0, <1>3, <2>1, <3>1 DEF Queue
    <3>3. stateAge' <= Jitter + queryAge' /\ queryAge' < QueryGap
      BY <1>0, <1>1, <1>2, <2>1, <2>2, Thresholds DEF AskYaw
    <3>4. AskPitch'
      BY <1>1, <2>2, <3>1, <3>2, <3>3 DEF AskPitch, AskYaw
    <3> QED BY <3>4 DEF CheckInv
  <2>3. CASE AskPitch
    <3>1. Probed = Pitch
      BY <2>3 DEF AskPitch, Probed
    <3>2. Due(Pitch)'
      BY <1>3, <2>1, <3>1 DEF Queue
    <3>3. Yaw \in valid /\ fbAge[Yaw] <= Lag
      BY <1>0, <1>2, <1>5, <2>3, Thresholds DEF AskPitch
    <3>4. HearPitch'
      BY <1>1, <1>2, <2>1, <3>2, <3>3, Thresholds DEF HearPitch
    <3> QED BY <3>4 DEF CheckInv
  <2> QED BY <1>4, <2>2, <2>3
<1>6. CASE ~(queryAge >= QueryGap)
  <2>1. UNCHANGED <<tx, probePitch, queryAge>>
    BY <1>6 DEF AskPosition
  <2>2. AskPitch
    BY <1>2, <1>4, <1>6, Thresholds DEF AskYaw
  <2>3. /\ probePitch /\ Pitch \notin valid /\ Yaw \in valid
        /\ queryAge < QueryGap /\ stateAge <= Jitter + queryAge /\ fbAge[Yaw] <= queryAge
    BY <1>0, <1>2, <1>6, <2>2, Thresholds DEF AskPitch
  <2>4. ~Due(Pitch)'
    BY <1>0, <1>3, <2>1
  <2>5. AskPitch'
    BY <1>1, <2>1, <2>3, <2>4 DEF AskPitch
  <2> QED BY <2>5 DEF CheckInv
<1> QED BY <1>5, <1>6

LEMMA TickCheck ==
    ASSUME TurnsAreShort, HomeIsNear, ~MayRefuse, FInv, PlantTick
    PROVE  CheckInv'
<1>0. CalmTick /\ Tick /\ PlantInv /\ pc' # "fault"
  BY TickIsCalm DEF PlantTick, FInv
<1>1. CASE StartAccepted
  <2>1. /\ pc = "tick" /\ pc' = "sleep" /\ tx' = Queue(Axis, "stop") /\ valid' = {}
        /\ stateAge' = 0 /\ queryAge' = QueryGap /\ probePitch' = FALSE
    BY <1>1 DEF StartAccepted, RestartPlan, ForgetFeedback, StartClock
  <2>2. \A a \in Axis : ~Due(a)'
    BY <1>0, <2>1, DueAfterTick DEF Queue
  <2>3. AskYaw'
    BY <2>1, <2>2, Thresholds DEF AskYaw, Turn, Awake
  <2> QED BY <2>3 DEF CheckInv
<1>2. CASE AskPosition
  BY <1>2, AskCheck
<1>3. CASE CalmTick /\ ~StartAccepted /\ ~AskPosition
  <2>1. CASE Enable
    BY <1>0, <2>1 DEF Enable, CheckInv
  <2>2. CASE BootProbe \/ NothingToDo \/ ReleaseYaw \/ StopYawAtTarget \/ ToMotion
    BY <2>2 DEF BootProbe, NothingToDo, ReleaseYaw, StopYawAtTarget, ToMotion, Ticking,
                Armed, CheckInv
  <2>3. CASE CommandHome \/ ReEnable \/ CommandTargets \/ BecomeReady
    BY <2>3 DEF CommandHome, ReEnable, CommandTargets, BecomeReady, CheckInv
  <2>4. CASE Poll \/ KeepCentering
    <3>1. state \in Armed /\ state' = state
      BY <1>0, <2>4 DEF Poll, KeepCentering, PlantInv, CtlInv, SupervisionInv
    <3> QED BY <3>1 DEF CheckInv, Armed
  <2> QED BY <1>3, <2>1, <2>2, <2>3, <2>4 DEF CalmTick
<1> QED BY <1>0, <1>1, <1>2, <1>3

LEMMA WakeCheck ==
    ASSUME TurnsAreShort, FInv, NEW d \in Elapse, PlantWake(d) PROVE CheckInv'
<1>0. /\ CheckInv /\ TypeOK /\ pc = "sleep" /\ pc' = "drain"
      /\ UNCHANGED <<state, probePitch, valid, tx, owed>>
  BY DEF PlantWake, Wake, FInv, PlantInv, CtlInv, CalmInv, rest, bus
<1>1. /\ ~Awake /\ Awake' /\ Turn = 0 /\ Turn' = Jitter
      /\ \A a \in Axis : Due(a)' <=> Due(a)
  BY <1>0 DEF Awake, Turn, Due
<1>2. /\ stateAge \in Nat /\ queryAge \in Nat /\ queryAge <= FeedbackPoll
      /\ \A a \in Axis : fbAge[a] \in Nat
  BY <1>0, AgeFacts
<1>3. d \in Nat /\ d <= Jitter
  BY TimingAssumption DEF TurnsAreShort
<1>4. /\ stateAge' <= stateAge + d /\ stateAge' \in Nat
      /\ \A a \in Axis : fbAge'[a] <= fbAge[a] + d /\ fbAge'[a] \in Nat
      /\ queryAge' = IF queryAge + d > FeedbackPoll THEN FeedbackPoll ELSE queryAge + d
  BY <1>2, <1>3, Thresholds DEF PlantWake, Wake, Older, StateAgeCap, FbAgeCap
<1>5. ASSUME AskYaw PROVE AskYaw'
  BY <1>0, <1>1, <1>2, <1>3, <1>4, <1>5, Thresholds DEF AskYaw
<1>6. ASSUME AskPitch PROVE AskPitch'
  <2>1. /\ queryAge < QueryGap /\ stateAge <= Jitter + queryAge
        /\ Due(Yaw) \/ fbAge[Yaw] <= queryAge
    BY <1>1, <1>6 DEF AskPitch
  <2>2. \/ /\ queryAge' < QueryGap /\ stateAge' <= Jitter + queryAge'
           /\ Due(Yaw)' \/ fbAge'[Yaw] <= queryAge'
        \/ /\ queryAge' >= QueryGap /\ stateAge' <= Lag + Jitter
           /\ Due(Yaw)' \/ fbAge'[Yaw] <= Lag
    BY <1>1, <1>2, <1>3, <1>4, <2>1, Thresholds
  <2> QED BY <1>0, <1>1, <1>6, <2>2 DEF AskPitch
<1>7. ASSUME HearPitch PROVE HearPitch'
  <2>1. /\ fbAge[Yaw] <= Lag /\ Due(Pitch)
        /\ queryAge < FeedbackPoll => fbAge[Yaw] <= queryAge + Lag
    BY <1>1, <1>2, <1>7, Thresholds DEF HearPitch
  <2>2. /\ fbAge'[Yaw] <= Lag + Jitter
        /\ queryAge' < FeedbackPoll => fbAge'[Yaw] <= queryAge' + Lag
    BY <1>2, <1>3, <1>4, <2>1, Thresholds
  <2> QED BY <1>0, <1>1, <1>7, <2>1, <2>2 DEF HearPitch
<1> QED BY <1>0, <1>5, <1>6, <1>7 DEF CheckInv

LEMMA ReceiveStep ==
    ASSUME PlantInv, NEW a \in Axis, PlantReceive(a)
    PROVE  /\ pc = "drain" /\ Awake /\ Awake' = Awake /\ Due(a) /\ valid' = valid \cup {a}
           /\ fbAge'[a] = 0 /\ \A b \in Axis \ {a} : fbAge'[b] = fbAge[b]
           /\ \A b \in Axis \ {a} : Due(b)' <=> Due(b)
           /\ UNCHANGED <<pc, state, dirty, probePitch, stateAge, motionAge, queryAge,
                          startError, moving, idleStop, tx>>
<1>1. fbAge \in [Axis -> 0 .. FbAgeCap] /\ owed \in [Axis -> 0 .. MaxOwed]
      /\ MaxOwed \in Nat
  BY BusAssumption DEF PlantInv, CtlInv, TypeOK, FeedbackTypeOK, BusTypeOK
<1>2. ProcessFrame(a, Head(reading[a]))
  BY DEF PlantReceive
<1>3. /\ fbAge'[a] = 0 /\ \A b \in Axis \ {a} : fbAge'[b] = fbAge[b]
      /\ \A b \in Axis \ {a} : owed'[b] = owed[b]
      /\ UNCHANGED <<pc, state, dirty, probePitch, stateAge, motionAge, queryAge,
                     startError, moving, idleStop, tx>>
      /\ pc = "drain" /\ owed[a] > 0 /\ valid' = valid \cup {a}
  BY <1>1, <1>2 DEF ProcessFrame, plan, drive, rest, timers
<1> QED BY <1>3 DEF Due, Awake

LEMMA ReceiveCheck ==
    ASSUME TurnsAreShort, FInv, NEW a \in Axis, PlantReceive(a) PROVE CheckInv'
<1>0. CheckInv /\ PlantInv /\ TypeOK /\ Turn' = Turn /\ Turn \in Nat
  <2>1. PlantInv /\ CheckInv /\ TypeOK
    BY DEF FInv, CalmInv, PlantInv, CtlInv
  <2> QED BY <2>1, ReceiveStep, Thresholds DEF Turn
<1>1. ~AskYaw
  BY <1>0, ReceiveStep DEF AskYaw
<1>2. ASSUME AskPitch PROVE AskPitch'
  <2>1. a = Yaw
    BY <1>0, <1>2, ReceiveStep DEF AskPitch
  <2>2. /\ ~Due(Pitch)' /\ Pitch \notin valid' /\ Yaw \in valid' /\ fbAge'[Yaw] = 0
        /\ Awake' /\ UNCHANGED <<probePitch, stateAge, queryAge>>
    BY <1>0, <1>2, <2>1, ReceiveStep DEF AskPitch
  <2>3. queryAge \in Nat /\ 0 <= queryAge /\ 0 <= Lag
    BY <1>0, AgeFacts, Thresholds
  <2> QED BY <1>2, <2>2, <2>3 DEF AskPitch
<1>3. ASSUME HearPitch PROVE HearPitch'
  <2>1. queryAge \in Nat /\ Lag \in Nat /\ queryAge' = queryAge /\ Awake'
    BY <1>0, AgeFacts, Thresholds, ReceiveStep
  <2>2. CASE a = Yaw
    <3>1. Yaw \in valid' /\ fbAge'[Yaw] = 0 /\ fbAge'[Pitch] = fbAge[Pitch]
          /\ (Due(Pitch)' <=> Due(Pitch)) /\ valid \subseteq valid'
      BY <1>0, <2>2, ReceiveStep
    <3>2. fbAge'[Yaw] <= Lag + Turn' /\ fbAge'[Yaw] <= queryAge' + Lag
      BY <1>0, <2>1, <3>1
    <3> QED BY <1>3, <2>1, <3>1, <3>2 DEF HearPitch
  <2>3. CASE a = Pitch
    <3>1. Pitch \in valid' /\ fbAge'[Pitch] = 0 /\ fbAge'[Yaw] = fbAge[Yaw]
          /\ valid \subseteq valid'
      BY <1>0, <2>3, ReceiveStep
    <3> QED BY <1>0, <1>3, <2>1, <3>1 DEF HearPitch
  <2> QED BY <2>2, <2>3
<1>4. state' = state
  BY <1>0, ReceiveStep
<1> QED BY <1>0, <1>1, <1>2, <1>3, <1>4 DEF CheckInv

LEMMA NextCheck ==
    ASSUME TurnsAreShort, HomeIsNear, ~MayRefuse, FInv, [PlantNext]_plantVars
    PROVE  CheckInv'
<1>0. PlantInv /\ CheckInv
  BY DEF FInv, CalmInv
<1>1. ASSUME NEW a \in Axis, PlantComplete(a) PROVE CheckInv'
  BY <1>0, <1>1, DueKept, CompleteStep, CheckFrame
<1>2. ASSUME NEW a \in Axis, NEW deg \in Slider[a], PlantSetTarget(a, deg)
      PROVE  CheckInv'
  BY <1>2 DEF PlantSetTarget, SetTarget, CheckInv
<1>3. ASSUME UNCHANGED plantVars \/ PlantPress \/ PlantDrainDone PROVE CheckInv'
  <2>1. \A a \in Axis : Due(a)' <=> Due(a)
    BY <1>3, QuietStep DEF Due
  <2> QED BY <1>0, <1>3, <2>1, QuietStep, CheckFrame
<1> QED
  BY <1>1, <1>2, <1>3, TickCheck, WakeCheck, ReceiveCheck
  DEF PlantNext, PlantMotorThread

-----------------------------------------------------------------------------
(* Armed: the feedback never gets old *)

LEMMA RecentFrame ==
    ASSUME NEW a \in Axis, Recent(a), Awake' = Awake, moving' \subseteq moving,
           UNCHANGED <<state, idleStop, motionAge, queryAge, fbAge[a]>>
    PROVE  Recent(a)'
BY DEF Recent, InTime, PollDue, DelayedOnce, DelayedTwice, Turn

LEMMA FreshFrame ==
    ASSUME FreshInv, \A a \in Axis : Due(a)' <=> Due(a), Awake' = Awake,
           pc' = "center" <=> pc = "center",
           UNCHANGED <<state, moving, idleStop, motionAge, queryAge, fbAge>>
    PROVE  FreshInv'
BY RecentFrame DEF FreshInv

\* A turn that commands, enables or releases instead of polling is the first such
\* turn, or the second: the one that releases yaw.
LEMMA DelayKept ==
    ASSUME TurnsAreShort, TypeOK, NEW a \in Axis, Recent(a),
           pc \in {"tick", "motion"}, ~Awake', motionAge' = 0,
           UNCHANGED <<queryAge, fbAge>>,
           \/ motionAge >= ControlPeriod
           \/ /\ idleStop \/ Yaw \in moving
              /\ state' = "READY" /\ ~idleStop' /\ Yaw \notin moving'
    PROVE  Recent(a)'
<1>1. /\ fbAge[a] \in Nat /\ queryAge \in Nat /\ motionAge \in Nat
      /\ Turn = Jitter /\ Turn' = 0 /\ Awake
  BY AgeFacts DEF Turn, Awake
<1>2. CASE InTime(a)
  BY <1>2 DEF InTime, Recent
<1>3. CASE queryAge = FeedbackPoll /\ PollDue(a)
  <2>1. fbAge'[a] <= FeedbackPoll + Lag + Jitter + 0
    BY <1>1, <1>3, Thresholds DEF PollDue
  <2>2. DelayedOnce(a)'
    BY <1>1, <2>1 DEF DelayedOnce
  <2> QED BY <1>3, <2>2 DEF Recent
<1>4. CASE queryAge = FeedbackPoll /\ DelayedOnce(a)
  <2>1. motionAge <= Jitter /\ fbAge[a] <= FeedbackPoll + Lag + Jitter + Jitter
    BY <1>1, <1>4 DEF DelayedOnce
  <2>2. ~(motionAge >= ControlPeriod)
    BY <1>1, <2>1, Thresholds
  <2>3. fbAge'[a] <= FeedbackPoll + Lag + 2 * Jitter + 0
    BY <1>1, <2>1, Thresholds
  <2>4. DelayedTwice(a)'
    BY <1>1, <2>2, <2>3 DEF DelayedTwice
  <2> QED BY <1>4, <2>4 DEF Recent
<1>5. CASE queryAge = FeedbackPoll /\ DelayedTwice(a)
  <2>1. motionAge <= Jitter /\ ~idleStop /\ Yaw \notin moving
    BY <1>1, <1>5 DEF DelayedTwice
  <2> QED BY <1>1, <2>1, Thresholds
<1> QED BY <1>2, <1>3, <1>4, <1>5 DEF Recent

\* While centering there is one delayed turn at most.
LEMMA SeenRecently ==
    ASSUME TurnsAreShort, TypeOK, NEW a \in Axis, Recent(a), state # "READY"
    PROVE  fbAge[a] <= FeedbackPoll + Lag + 2 * Jitter
<1>1. fbAge[a] \in Nat /\ queryAge \in Nat /\ Turn \in Nat /\ Turn <= Jitter
  BY AgeFacts, Thresholds DEF Turn
<1> QED BY <1>1, Thresholds DEF Recent, InTime, PollDue, DelayedOnce, DelayedTwice

\* Centering begins when pitch has just been heard.
LEMMA EnableFresh ==
    ASSUME TurnsAreShort, FInv, Enable, pc' # "fault" PROVE FreshInv'
<1>0. /\ TypeOK /\ CheckInv /\ pc = "tick" /\ Turn = Jitter /\ pc' = "sleep" /\ Turn' = 0
      /\ \A a \in Axis : a \in valid /\ ~Due(a)
      /\ motionAge' = 0 /\ UNCHANGED <<queryAge, fbAge>> /\ state = "WAITING"
  BY NothingDue
  DEF FInv, PlantInv, CtlInv, CalmInv, Enable, Proven, Ticking, BothFresh, Fresh, Turn,
      Awake, feedback
<1>1. HearPitch
  BY <1>0 DEF CheckInv, AskYaw, AskPitch
<1>2. /\ fbAge[Yaw] \in Nat /\ queryAge \in Nat /\ queryAge <= FeedbackPoll
      /\ fbAge[Yaw] <= Lag + Jitter /\ fbAge[Pitch] = 0
      /\ queryAge < FeedbackPoll => fbAge[Yaw] <= queryAge + Lag
  BY <1>0, <1>1, AgeFacts DEF HearPitch
<1>3. ASSUME NEW a \in Axis PROVE Recent(a)'
  <2>1. /\ fbAge[a] \in Nat /\ fbAge[a] <= Lag + Jitter
        /\ queryAge < FeedbackPoll => fbAge[a] <= queryAge + Lag
    BY <1>2, Thresholds
  <2>2. CASE queryAge < FeedbackPoll
    BY <1>0, <2>1, <2>2 DEF Recent, InTime
  <2>3. CASE queryAge = FeedbackPoll
    <3>1. fbAge'[a] <= FeedbackPoll + Lag + Jitter + 0
      BY <1>0, <2>1, Thresholds
    <3> QED BY <1>0, <2>3, <3>1 DEF Recent, DelayedOnce
  <2>4. queryAge < FeedbackPoll \/ queryAge = FeedbackPoll
    BY <1>2, Thresholds
  <2> QED BY <2>2, <2>3, <2>4
<1> QED BY <1>0, <1>3 DEF FreshInv

\* A poll asks both axes, or is not due.
LEMMA PollFresh ==
    ASSUME TurnsAreShort, ~MayRefuse, FInv, Poll, Tick, pc' # "fault" PROVE FreshInv'
<1>0. /\ TypeOK /\ PlantInv /\ pc = "motion" /\ state \in Armed /\ BusIdle
      /\ \A a \in Axis : Recent(a) /\ ~Due(a)
      /\ UNCHANGED <<state, moving, idleStop, motionAge, fbAge>> /\ pc' = AfterMotion
  <2>1. pc = "motion"
    BY DEF Poll
  <2>2. state \in Armed
    BY <2>1 DEF FInv, PlantInv, CtlInv, SupervisionInv
  <2>3. /\ UNCHANGED <<state, moving, idleStop, motionAge, fbAge>> /\ pc' = AfterMotion
    BY DEF Poll, drive, feedback
  <2> QED BY <2>1, <2>2, <2>3, NothingDue DEF FInv, PlantInv, CtlInv, CalmInv, FreshInv
<1>1. pc' = "center" => \A a \in Axis : fbAge'[a] <= FeedbackPoll + Lag + 2 * Jitter
  BY <1>0, SeenRecently DEF AfterMotion
<1>2. CASE queryAge >= FeedbackPoll
  <2>1. Accepts(Axis) = {Axis}
    BY <1>0, AllAccepted
  <2>2. tx' = Queue(Axis, "query")
    <3>1. ~(queryAge < FeedbackPoll)
      BY <1>0, <1>2, AgeFacts, Thresholds
    <3> QED BY <2>1, <3>1 DEF Poll
  <2>3. \A a \in Axis : Due(a)'
    BY <2>2 DEF Queue, Due
  <2> QED BY <1>1, <2>3 DEF FreshInv
<1>3. CASE ~(queryAge >= FeedbackPoll)
  <2>1. queryAge \in Nat /\ queryAge # FeedbackPoll /\ queryAge' = queryAge
    BY <1>0, <1>3, AgeFacts, Thresholds DEF Poll
  <2>2. \A a \in Axis : InTime(a)'
    BY <1>0, <2>1 DEF Recent, InTime
  <2> QED BY <1>1, <2>2 DEF FreshInv, Recent
<1> QED BY <1>2, <1>3

LEMMA TickFresh ==
    ASSUME TurnsAreShort, HomeIsNear, ~MayRefuse, FInv, PlantTick
    PROVE  FreshInv'
<1>0. /\ CalmTick /\ Tick /\ PlantInv /\ TypeOK /\ FreshInv /\ pc' # "fault"
      /\ fbAge' = fbAge
  BY TickIsCalm, TickFrame DEF PlantTick, FInv, PlantInv, CtlInv, CalmInv
<1>1. CASE StartAccepted \/ BootProbe \/ NothingToDo \/ AskPosition
  BY <1>0, <1>1
  DEF StartAccepted, BootProbe, NothingToDo, AskPosition, Ticking, FreshInv, Armed
<1>2. CASE Enable
  BY <1>0, <1>2, EnableFresh
<1>3. CASE Poll
  BY <1>0, <1>3, PollFresh
<1>4. CASE ToMotion
  <2>1. /\ state \in Armed /\ pc = "tick" /\ pc' = "motion" /\ Awake' = Awake
        /\ moving' \subseteq moving
        /\ UNCHANGED <<state, idleStop, motionAge, queryAge, fbAge>>
    BY <1>4 DEF ToMotion, Ticking, Armed, Awake, rest, timers, feedback
  <2>2. \A a \in Axis : Recent(a)
    BY <1>0, <2>1, NothingDue DEF FreshInv
  <2>3. \A a \in Axis : Recent(a)'
    BY <2>1, <2>2, RecentFrame
  <2> QED BY <2>1, <2>3 DEF FreshInv
<1>5. CASE ReleaseYaw \/ StopYawAtTarget
  <2>1. pc = "tick" /\ state = "READY" /\ state' = state /\ BusIdle
    BY <1>0, <1>5, NothingDue DEF ReleaseYaw, StopYawAtTarget, Ticking
  <2>2. /\ pc' = "sleep" /\ motionAge' = 0 /\ UNCHANGED <<queryAge, fbAge>>
        /\ idleStop \/ Yaw \in moving
        /\ ~idleStop' /\ Yaw \notin moving'
    <3>1. CASE ReleaseYaw
      BY <1>0, <2>1, <3>1 DEF ReleaseYaw
    <3>2. CASE StopYawAtTarget
      BY <1>0, <3>2 DEF StopYawAtTarget, AtRest
    <3> QED BY <1>5, <3>1, <3>2
  <2>3. \A a \in Axis : Recent(a)
    BY <1>0, <2>1, NothingDue DEF FreshInv, Armed
  <2>4. \A a \in Axis : Recent(a)'
    BY <1>0, <2>1, <2>2, <2>3, DelayKept DEF Awake
  <2> QED BY <2>2, <2>4 DEF FreshInv
<1>6. CASE CommandHome \/ ReEnable \/ CommandTargets
  <2>1. /\ pc = "motion" /\ state \in Armed /\ motionAge >= ControlPeriod
        /\ motionAge' = 0 /\ UNCHANGED <<queryAge, fbAge, state>>
        /\ pc' \in {"sleep", "center"}
        /\ pc' = "center" => state = "CENTERING"
    BY <1>0, <1>6 DEF CommandHome, ReEnable, CommandTargets, CommandDue, Armed
  <2>2. \A a \in Axis : Recent(a)
    BY <1>0, <2>1, NothingDue DEF FreshInv
  <2>3. \A a \in Axis : Recent(a)'
    BY <1>0, <2>1, <2>2, DelayKept DEF Awake
  <2>4. pc' = "center" =>
            \A a \in Axis : fbAge'[a] <= FeedbackPoll + Lag + 2 * Jitter
    BY <1>0, <2>1, <2>2, SeenRecently
  <2> QED BY <2>3, <2>4 DEF FreshInv
<1>7. CASE BecomeReady \/ KeepCentering
  <2>1. /\ pc = "center" /\ state = "CENTERING" /\ ~Awake /\ pc' = "sleep" /\ ~Awake'
        /\ UNCHANGED <<motionAge, queryAge, fbAge, tx, owed>>
    BY <1>0, <1>7
    DEF BecomeReady, KeepCentering, PlantInv, CtlInv, SupervisionInv, Awake, feedback,
        bus, timers
  <2>2. ASSUME NEW a \in Axis PROVE Due(a)' \/ Recent(a)'
    <3>1. Due(a) \/ Recent(a)
      BY <1>0, <2>1 DEF FreshInv, Armed
    <3>2. ASSUME Recent(a) PROVE Recent(a)'
      BY <2>1, <3>2 DEF Recent, InTime, PollDue, DelayedOnce, DelayedTwice, Turn
    <3> QED BY <2>1, <3>1, <3>2 DEF Due
  <2> QED BY <2>1, <2>2 DEF FreshInv
<1> QED BY <1>0, <1>1, <1>2, <1>3, <1>4, <1>5, <1>6, <1>7 DEF CalmTick

\* The ages after a turn's sleep.
LEMMA WakeAges ==
    ASSUME TurnsAreShort, TypeOK, NEW d \in Elapse, PlantWake(d)
    PROVE  /\ d \in Nat /\ d <= Jitter
           /\ stateAge' \in Nat /\ stateAge' <= stateAge + d
           /\ motionAge' \in Nat /\ motionAge' <= motionAge + d
           /\ motionAge' < ControlPeriod => motionAge' = motionAge + d
           /\ motionAge' <= ControlPeriod
           /\ queryAge' \in Nat /\ queryAge' <= FeedbackPoll
           /\ queryAge' < FeedbackPoll => queryAge' = queryAge + d
           /\ \A a \in Axis : /\ fbAge'[a] \in Nat /\ fbAge'[a] <= fbAge[a] + d
                              /\ fbAge'[a] <= FeedbackStale => fbAge'[a] = fbAge[a] + d
                              /\ fbAge[a] + d <= FeedbackStale => fbAge'[a] = fbAge[a] + d
<1>1. /\ stateAge \in Nat /\ queryAge \in Nat /\ motionAge \in Nat
      /\ \A a \in Axis : fbAge[a] \in Nat
  BY AgeFacts
<1>2. d \in Nat /\ d <= Jitter
  BY TimingAssumption DEF TurnsAreShort
<1>3. stateAge' \in Nat /\ stateAge' <= stateAge + d
  BY <1>1, <1>2, Thresholds DEF PlantWake, Wake, Older, StateAgeCap
<1>4. /\ motionAge' \in Nat /\ motionAge' <= motionAge + d
      /\ motionAge' < ControlPeriod => motionAge' = motionAge + d
      /\ motionAge' <= ControlPeriod
  BY <1>1, <1>2, Thresholds DEF PlantWake, Wake, Older
<1>5. /\ queryAge' \in Nat /\ queryAge' <= FeedbackPoll
      /\ queryAge' < FeedbackPoll => queryAge' = queryAge + d
  BY <1>1, <1>2, Thresholds DEF PlantWake, Wake, Older
<1>6. \A a \in Axis : /\ fbAge'[a] \in Nat /\ fbAge'[a] <= fbAge[a] + d
                      /\ fbAge'[a] <= FeedbackStale => fbAge'[a] = fbAge[a] + d
                      /\ fbAge[a] + d <= FeedbackStale => fbAge'[a] = fbAge[a] + d
  BY <1>1, <1>2, Thresholds DEF PlantWake, Wake, Older, FbAgeCap
<1> QED BY <1>2, <1>3, <1>4, <1>5, <1>6

LEMMA WakeFresh ==
    ASSUME TurnsAreShort, FInv, NEW d \in Elapse, PlantWake(d) PROVE FreshInv'
<1>0. /\ FreshInv /\ TypeOK /\ pc = "sleep" /\ pc' = "drain"
      /\ UNCHANGED <<state, moving, idleStop, tx, owed>>
  BY DEF PlantWake, Wake, FInv, PlantInv, CtlInv, CalmInv, drive, bus
<1>1. /\ ~Awake /\ Awake' /\ Turn = 0 /\ Turn' = Jitter
      /\ \A a \in Axis : Due(a)' <=> Due(a)
  BY <1>0 DEF Awake, Turn, Due
<1>2. /\ queryAge \in Nat /\ queryAge <= FeedbackPoll /\ motionAge \in Nat
      /\ \A a \in Axis : fbAge[a] \in Nat
  BY <1>0, AgeFacts
<1>3. ASSUME NEW a \in Axis, Recent(a) PROVE Recent(a)'
  <2>1. /\ d \in Nat /\ d <= Jitter /\ motionAge' \in Nat /\ motionAge' <= motionAge + d
        /\ queryAge' \in Nat /\ queryAge' <= FeedbackPoll
        /\ queryAge' < FeedbackPoll => queryAge' = queryAge + d
        /\ fbAge'[a] \in Nat /\ fbAge'[a] <= fbAge[a] + d
    BY <1>0, WakeAges
  <2>2. CASE InTime(a)
    <3>1. \/ queryAge' < FeedbackPoll /\ fbAge'[a] <= queryAge' + Lag
          \/ queryAge' = FeedbackPoll /\ fbAge'[a] <= FeedbackPoll + Lag + Jitter
      BY <1>2, <2>1, <2>2, Thresholds DEF InTime
    <3> QED BY <1>1, <3>1 DEF Recent, InTime, PollDue
  <2>3. CASE queryAge = FeedbackPoll /\ DelayedOnce(a)
    <3>1. /\ queryAge' = FeedbackPoll /\ motionAge' <= Jitter
          /\ fbAge'[a] <= FeedbackPoll + Lag + Jitter + Jitter
      BY <1>1, <1>2, <2>1, <2>3, Thresholds DEF DelayedOnce
    <3> QED BY <1>1, <3>1 DEF Recent, DelayedOnce
  <2>4. CASE queryAge = FeedbackPoll /\ DelayedTwice(a)
    <3>1. /\ queryAge' = FeedbackPoll /\ motionAge' <= Jitter
          /\ fbAge'[a] <= FeedbackPoll + Lag + 2 * Jitter + Jitter
      BY <1>1, <1>2, <2>1, <2>4, Thresholds DEF DelayedTwice
    <3>2. state' = "READY" /\ ~idleStop' /\ Yaw \notin moving'
      BY <1>0, <2>4 DEF DelayedTwice
    <3> QED BY <1>1, <3>1, <3>2 DEF Recent, DelayedTwice
  <2> QED BY <1>1, <1>3, <2>2, <2>3, <2>4 DEF Recent, PollDue
<1> QED BY <1>0, <1>1, <1>3 DEF FreshInv

LEMMA ReceiveFresh ==
    ASSUME TurnsAreShort, FInv, NEW a \in Axis, PlantReceive(a) PROVE FreshInv'
<1>0. FreshInv /\ PlantInv /\ TypeOK
  BY DEF FInv, CalmInv, PlantInv, CtlInv
<1>1. /\ queryAge \in Nat /\ queryAge <= FeedbackPoll /\ Lag \in Nat
      /\ fbAge'[a] = 0 /\ queryAge' = queryAge /\ Awake' /\ pc' # "center"
  BY <1>0, AgeFacts, Thresholds, ReceiveStep
<1>2. Recent(a)'
  <2>1. fbAge'[a] <= queryAge' + Lag /\ fbAge'[a] <= FeedbackPoll + Lag + Jitter
        /\ (queryAge' < FeedbackPoll \/ queryAge' = FeedbackPoll)
    BY <1>1, Thresholds
  <2> QED BY <1>1, <2>1 DEF Recent, InTime, PollDue
<1>3. ASSUME NEW b \in Axis \ {a}, state \in Armed PROVE Due(b)' \/ Recent(b)'
  <2>1. /\ (Due(b)' <=> Due(b)) /\ Awake' = Awake /\ moving' = moving
        /\ UNCHANGED <<state, idleStop, motionAge, queryAge, fbAge[b]>>
    BY <1>0, ReceiveStep
  <2>2. Due(b) \/ Recent(b)
    BY <1>0, <1>3 DEF FreshInv
  <2> QED BY <2>1, <2>2, RecentFrame
<1>4. state' = state
  BY <1>0, ReceiveStep
<1> QED BY <1>1, <1>2, <1>3, <1>4 DEF FreshInv

LEMMA NextFresh ==
    ASSUME TurnsAreShort, HomeIsNear, ~MayRefuse, FInv, [PlantNext]_plantVars
    PROVE  FreshInv'
<1>0. PlantInv /\ FreshInv
  BY DEF FInv, CalmInv
<1>1. ASSUME NEW a \in Axis, PlantComplete(a) PROVE FreshInv'
  BY <1>0, <1>1, DueKept, CompleteStep, FreshFrame
<1>2. ASSUME NEW a \in Axis, NEW deg \in Slider[a], PlantSetTarget(a, deg)
      PROVE  FreshInv'
  <2>1. /\ UNCHANGED <<pc, state, moving, idleStop, motionAge, queryAge, fbAge, tx, owed>>
    BY <1>2 DEF PlantSetTarget, SetTarget, drive, timers, feedback, bus
  <2>2. Awake' = Awake /\ \A b \in Axis : Due(b)' <=> Due(b)
    BY <2>1 DEF Awake, Due
  <2> QED BY <1>0, <2>1, <2>2, FreshFrame
<1>3. ASSUME UNCHANGED plantVars \/ PlantPress \/ PlantDrainDone PROVE FreshInv'
  <2>1. \A a \in Axis : Due(a)' <=> Due(a)
    BY <1>3, QuietStep DEF Due
  <2> QED BY <1>0, <1>3, <2>1, QuietStep, FreshFrame
<1> QED
  BY <1>1, <1>2, <1>3, TickFresh, WakeFresh, ReceiveFresh
  DEF PlantNext, PlantMotorThread

-----------------------------------------------------------------------------
(* Centering: the axes get home in time, and are seen there *)

\* What a step does not touch of an axis on its way home.
LEMMA HomingFrame ==
    ASSUME NEW a \in Axis, Homing(a),
           UNCHANGED <<goal[a], position[a], angle[a], target[a], startError[a],
                       stateAge, fbAge[a], reading[a]>>,
           tx'[a] = tx[a] \/ (tx[a] # "pos" /\ tx'[a] \notin {"pos", "stop"}),
           Due(a)' <=> Due(a), pc = "center" \/ (pc' = "center" <=> pc = "center")
    PROVE  Homing(a)'
<1>1. Answers(a)' = Answers(a)
  BY AnswersFrame
<1> QED BY <1>1 DEF Homing, Leaves, Distance

LEMMA HomeFrame ==
    ASSUME HomeInv, \A a \in Axis : Due(a)' <=> Due(a), Awake' = Awake,
           pc' = "center" <=> pc = "center",
           UNCHANGED <<state, dirty, motionAge, stateAge, goal, position, angle, target,
                       startError, fbAge, reading, tx>>
    PROVE  HomeInv'
<1>1. \A a \in Axis : Homing(a) => Homing(a)'
  BY HomingFrame
<1> QED BY <1>1 DEF HomeInv

\* The command finds the axes at rest and in range, within a control period.
LEMMA CommandHoming ==
    ASSUME TurnsAreShort, HomeIsNear, FInv, PlantTick, CommandHome, pc' # "fault"
    PROVE  HomeInv'
<1>0. /\ PlantInv /\ TypeOK /\ RestInv /\ HomeInv /\ RangeInv /\ BoundsInv
      /\ pc = "motion" /\ state = "CENTERING" /\ target = Center /\ dirty # {}
      /\ motionAge >= ControlPeriod
      /\ UNCHANGED <<goal, position, reading, angle, target, stateAge, fbAge>>
      /\ dirty' = {} /\ startError' = [a \in Axis |-> Error(a)]
  BY TickFrame
  DEF PlantTick, FInv, CalmInv, PlantInv, CtlInv, RestInv, CommandHome, CommandDue,
      ClearTargets, feedback, plant
<1>1. /\ \A a \in Axis : /\ Resting(a) /\ a \in valid /\ tx[a] = "none" /\ ~Due(a)
                         /\ reading[a] = <<>>
      /\ dirty = Axis
  <2>1. valid = Axis /\ dirty = Axis /\ \A a \in dirty : Resting(a)
    BY <1>0 DEF RangeInv, RestInv, Armed
  <2>2. \A a \in Axis : reading[a] = <<>>
    BY <1>0 DEF PlantInv, PromptInv
  <2> QED BY <1>0, <2>1, <2>2, NothingDue
<1>2. PICK A \in Accepts(Moves(Axis)) :
          tx' = Queue(A, "pos") /\ Succeeds(Axis, A) = Axis
  BY DEF CommandHome
<1>3. /\ stateAge \in Nat /\ motionAge \in Nat /\ stateAge <= ControlPeriod + Jitter
      /\ \A a \in Axis : fbAge[a] \in Nat
  BY <1>0, AgeFacts, Thresholds DEF HomeInv
<1>4. ASSUME NEW a \in Axis PROVE Homing(a)'
  <2>1. /\ goal[a] = position[a] /\ angle[a] = position[a] /\ Answers(a)' = {}
        /\ position[a] \in Hard(a) /\ position[a] \in Int
    <3>1. Answers(a)' = {}
      BY <1>0, <1>1 DEF Answers
    <3>2. position[a] \in Int
      BY <1>0, PlantFacts DEF PlantInv
    <3> QED BY <1>0, <1>1, <3>1, <3>2 DEF Resting, BoundsInv
  <2>2. tx'[a] \in {"none", "pos"} /\ (tx'[a] = "pos" \/ goal'[a] = Center[a])
    <3>1. tx'[a] \in {"none", "pos"}
      BY <1>1, <1>2 DEF Queue
    <3>2. tx'[a] = "pos" \/ angle[a] = target[a]
      BY <1>2, SucceedsFor
    <3> QED BY <1>0, <2>1, <3>1, <3>2
  <2>3. /\ Distance(a, position[a])' <= startError'[a]
        /\ Distance(a, angle[a])' <= startError'[a]
    <3>1. Distance(a, position[a])' = Error(a) /\ Distance(a, angle[a])' = Error(a)
          /\ startError'[a] = Error(a)
      BY <1>0, <2>1 DEF Distance, Error
    <3>2. Error(a) \in Nat
      BY <2>1, HomeFacts DEF Error
    <3> QED BY <3>1, <3>2
  <2>4. Leaves(a, position[a], stateAge)
    BY <1>3, <2>1, LeavesAtStart
  <2>5. Leaves(a, angle[a], stateAge - fbAge[a] - Jitter)
    <3>1. stateAge - fbAge[a] - Jitter \in Int
          /\ stateAge - fbAge[a] - Jitter <= ControlPeriod + Jitter
      BY <1>3, Thresholds
    <3> QED BY <2>1, <3>1, LeavesAtStart
  <2>6. Leaves(a, position[a], stateAge)'
        /\ Leaves(a, angle[a], stateAge - fbAge[a] - Jitter)'
    BY <1>0, <2>4, <2>5 DEF Leaves
  <2> QED BY <2>1, <2>2, <2>3, <2>6 DEF Homing
<1> QED BY <1>0, <1>4 DEF HomeInv

\* A poll asks the axes again, and leaves what was seen of them.
LEMMA PollHoming ==
    ASSUME TurnsAreShort, FInv, PlantTick, Poll, pc' # "fault" PROVE HomeInv'
<1>0. /\ PlantInv /\ TypeOK /\ HomeInv /\ pc = "motion" /\ Tick
      /\ UNCHANGED <<goal, position, reading, angle, target, stateAge, motionAge, fbAge,
                     state, dirty, startError>>
      /\ ~CommandDue /\ pc' = AfterMotion
  BY TickFrame
  DEF PlantTick, FInv, CalmInv, PlantInv, CtlInv, Poll, feedback, plant, plan, rest
<1> SUFFICES ASSUME state = "CENTERING" PROVE HomeInv'
  BY <1>0 DEF HomeInv
<1>1. \A a \in Axis : tx[a] = "none" /\ ~Due(a) /\ reading[a] = <<>>
  BY <1>0, NothingDue DEF PlantInv, PromptInv
<1>2. pc' = "center"
  BY <1>0 DEF AfterMotion
<1>3. ASSUME dirty # {} PROVE motionAge < ControlPeriod /\ stateAge <= motionAge
  <2>1. motionAge \in Nat /\ ControlPeriod \in Nat /\ ~(motionAge >= ControlPeriod)
    BY <1>0, <1>3, AgeFacts, Thresholds DEF CommandDue
  <2> QED BY <1>0, <1>3, <2>1 DEF HomeInv
<1>4. ASSUME dirty = {}, NEW a \in Axis PROVE Homing(a)'
  <2>1. Homing(a) /\ Leaves(a, angle[a], stateAge - fbAge[a] - Jitter)
    BY <1>0, <1>1, <1>4 DEF HomeInv, Homing
  <2>2. tx'[a] \in {"none", "query"}
    BY <1>1 DEF Poll, Queue
  <2>3. Answers(a)' = Answers(a)
    BY <1>0, AnswersFrame
  <2> QED BY <1>0, <1>1, <2>1, <2>2, <2>3 DEF Homing, Leaves, Distance
<1> QED BY <1>0, <1>3, <1>4 DEF HomeInv

LEMMA TickHome ==
    ASSUME TurnsAreShort, HomeIsNear, ~MayRefuse, FInv, PlantTick
    PROVE  HomeInv'
<1>0. /\ CalmTick /\ Tick /\ PlantInv /\ HomeInv /\ pc' # "fault"
      /\ UNCHANGED <<goal, position, reading, angle, fbAge, owed>>
  BY TickIsCalm, TickFrame DEF PlantTick, FInv, CalmInv, plant
<1>1. CASE \/ StartAccepted \/ BootProbe \/ NothingToDo \/ AskPosition \/ ReleaseYaw
           \/ StopYawAtTarget \/ ReEnable \/ CommandTargets \/ BecomeReady
  BY <1>1
  DEF StartAccepted, BootProbe, NothingToDo, AskPosition, ReleaseYaw, StopYawAtTarget,
      ReEnable, CommandTargets, BecomeReady, Ticking, HomeInv
<1>2. CASE Enable
  <2>1. dirty' = Axis /\ motionAge' = 0 /\ stateAge' = 0
    BY <1>0, <1>2 DEF Enable
  <2>2. dirty' # {} /\ motionAge' < ControlPeriod /\ stateAge' <= motionAge'
    BY <2>1, Thresholds
  <2> QED BY <2>2 DEF HomeInv
<1>3. CASE CommandHome
  BY <1>0, <1>3, CommandHoming
<1>4. CASE Poll
  BY <1>0, <1>4, PollHoming
<1>5. CASE ToMotion
  <2>1. /\ pc = "tick" /\ pc' = "motion" /\ Awake' = Awake
        /\ UNCHANGED <<state, dirty, motionAge, stateAge, target, startError, tx>>
    BY <1>5 DEF ToMotion, Ticking, Awake, plan, rest, timers, bus
  <2>2. \A a \in Axis : Due(a)' <=> Due(a)
    BY <1>0, <2>1 DEF Due
  <2>3. pc' = "center" <=> pc = "center"
    BY <2>1
  <2> QED BY <1>0, <2>1, <2>2, <2>3, HomeFrame
<1>6. CASE KeepCentering
  <2>1. /\ pc = "center" /\ pc' = "sleep" /\ ~Awake /\ ~Awake'
        /\ UNCHANGED <<state, dirty, motionAge, stateAge, target, startError, tx>>
    BY <1>0, <1>6 DEF KeepCentering, Awake, plan, rest, timers, bus
  <2>2. \A a \in Axis : Due(a)' <=> Due(a)
    BY <1>0, <2>1 DEF Due
  <2>3. \A a \in Axis : Homing(a) => Homing(a)'
    BY <1>0, <2>1, <2>2, HomingFrame
  <2> QED BY <1>0, <2>1, <2>3 DEF HomeInv
<1> QED BY <1>0, <1>1, <1>2, <1>3, <1>4, <1>5, <1>6 DEF CalmTick

LEMMA WakeHome ==
    ASSUME TurnsAreShort, Prompt, FInv, NEW d \in Elapse, PlantWake(d) PROVE HomeInv'
<1>0. /\ PlantInv /\ TypeOK /\ HomeInv /\ FreshInv /\ RestInv /\ PromptInv /\ BusIdle
      /\ pc = "sleep" /\ pc' = "drain" /\ ~Awake /\ Awake'
      /\ UNCHANGED <<goal, reading, angle, target, state, dirty, startError, tx, owed>>
  BY DEF PlantWake, Wake, FInv, CalmInv, PlantInv, CtlInv, plan, rest, bus, Awake
<1> SUFFICES ASSUME state = "CENTERING" PROVE HomeInv'
  BY <1>0 DEF HomeInv
<1>1. /\ stateAge \in Nat /\ motionAge \in Nat /\ \A a \in Axis : fbAge[a] \in Nat
      /\ d \in Nat /\ d <= Jitter /\ stateAge' \in Nat /\ stateAge' <= stateAge + d
      /\ motionAge' \in Nat /\ motionAge' <= ControlPeriod
      /\ motionAge' < ControlPeriod => motionAge' = motionAge + d
      /\ \A a \in Axis : fbAge'[a] \in Nat
      /\ \A a \in Axis : fbAge[a] + d <= FeedbackStale => fbAge'[a] = fbAge[a] + d
  BY <1>0, AgeFacts, WakeAges
<1>2. ASSUME dirty # {}
      PROVE  \/ motionAge' < ControlPeriod /\ stateAge' <= motionAge'
             \/ motionAge' = ControlPeriod /\ stateAge' <= ControlPeriod + Jitter
  <2>1. motionAge < ControlPeriod /\ stateAge <= motionAge
    BY <1>0, <1>2 DEF HomeInv
  <2> QED BY <1>1, <2>1, Thresholds
<1>3. ASSUME dirty = {}, NEW a \in Axis PROVE Homing(a)'
  <2>1. /\ Homing(a) /\ tx[a] = "none" /\ goal[a] = Center[a] /\ goal[a] = target[a]
        /\ position[a] \in Int /\ Center[a] \in Int /\ angle[a] \in Int
    <3>1. Homing(a) /\ tx[a] = "none" /\ target[a] = Center[a]
      BY <1>0, <1>3 DEF HomeInv, BusIdle, TxPending, RestInv
    <3>2. position[a] \in Int /\ angle[a] \in Int
      BY <1>0, PlantFacts DEF PlantInv
    <3> QED BY <3>1, <3>2, HomeFacts DEF Homing
  <2>2. /\ position'[a] = Approach(position[a], Center[a], Speed * d)
        /\ position'[a] \in Int
        /\ Distance(a, position'[a]) <= Distance(a, position[a])
    BY <1>0, <2>1, WakePlant DEF PlantWake
  <2>3. /\ Distance(a, position[a])' <= startError'[a]
        /\ Distance(a, angle[a])' <= startError'[a]
    <3>1. /\ Distance(a, position[a]) \in Int /\ Distance(a, position'[a]) \in Int
          /\ startError[a] \in Int
      BY <1>0, <2>1, <2>2, DistanceOf DEF Distance, TypeOK, ControlTypeOK
    <3>2. Distance(a, position'[a]) <= startError[a]
      BY <2>1, <2>2, <3>1 DEF Homing
    <3> QED BY <1>0, <2>1, <3>2 DEF Homing, Distance
  <2>4. Leaves(a, position'[a], stateAge')
    <3>1. Leaves(a, position'[a], stateAge + d)
      BY <1>1, <2>1, <2>2, LeavesByTravel DEF Homing
    <3> QED BY <1>1, <2>2, <3>1, LeavesEarlier
  <2>5. Due(a)' \/ Leaves(a, angle[a], stateAge' - fbAge'[a] - Jitter)
    <3>1. CASE Due(a)
      BY <1>0, <3>1 DEF Due
    <3>2. CASE ~Due(a)
      <4>1. Leaves(a, angle[a], stateAge - fbAge[a] - Jitter)
        BY <2>1, <3>2 DEF Homing
      <4>2. fbAge[a] + d <= FeedbackStale
        <5>1. Recent(a)
          BY <1>0, <3>2 DEF FreshInv, Armed
        <5>2. fbAge[a] <= FeedbackPoll + Lag + 2 * Jitter
          BY <1>0, <5>1, SeenRecently
        <5> QED BY <1>1, <5>2, Thresholds
      <4>3. /\ stateAge' - fbAge'[a] - Jitter <= stateAge - fbAge[a] - Jitter
            /\ stateAge' - fbAge'[a] - Jitter \in Int
            /\ stateAge - fbAge[a] - Jitter \in Int
        BY <1>1, <4>2, Thresholds
      <4> QED BY <2>1, <4>1, <4>3, LeavesEarlier
    <3> QED BY <3>1, <3>2
  <2>6. ASSUME NEW x \in Answers(a)
        PROVE  Distance(a, x) <= startError[a] /\ Leaves(a, x, stateAge' - Jitter)
    <3>1. x = position[a]
      BY <1>0, <2>6 DEF PromptInv
    <3>2. stateAge' - Jitter \in Int /\ stateAge' - Jitter <= stateAge
      BY <1>1, Thresholds
    <3>3. Leaves(a, position[a], stateAge)
      BY <2>1 DEF Homing
    <3>4. Leaves(a, x, stateAge' - Jitter)
      BY <1>1, <2>1, <3>1, <3>2, <3>3, LeavesEarlier
    <3> QED BY <2>1, <3>1, <3>4 DEF Homing
  <2>7. Answers(a)' = Answers(a)
    BY <1>0, AnswersFrame
  <2>8. /\ Leaves(a, position[a], stateAge)'
        /\ Due(a)' \/ Leaves(a, angle[a], stateAge - fbAge[a] - Jitter)'
        /\ \A x \in Answers(a)' :
               Distance(a, x)' <= startError'[a] /\ Leaves(a, x, stateAge - Jitter)'
    BY <1>0, <2>4, <2>5, <2>6, <2>7 DEF Leaves, Distance
  <2> QED BY <1>0, <2>1, <2>3, <2>8 DEF Homing
<1> QED BY <1>0, <1>2, <1>3 DEF HomeInv

LEMMA ReceiveHome ==
    ASSUME TurnsAreShort, FInv, NEW a \in Axis, PlantReceive(a) PROVE HomeInv'
<1>0. /\ PlantInv /\ TypeOK /\ HomeInv /\ pc = "drain" /\ pc' = "drain" /\ Awake' = Awake
      /\ UNCHANGED <<goal, position, tx, target, state, dirty, stateAge, motionAge,
                     startError>>
  <2>1. PlantInv /\ TypeOK /\ HomeInv
    BY DEF FInv, CalmInv, PlantInv, CtlInv
  <2> QED BY <2>1, ReceivePlant, ReceiveStep DEF plant, plan
<1>1. ASSUME NEW b \in Axis \ {a}, Homing(b) PROVE Homing(b)'
  <2>1. UNCHANGED <<angle[b], reading[b], fbAge[b]>> /\ (Due(b)' <=> Due(b))
    BY <1>0, ReceivePlant, ReceiveStep
  <2> QED BY <1>0, <1>1, <2>1, HomingFrame
<1>2. ASSUME Homing(a) PROVE Homing(a)'
  <2>1. /\ angle'[a] \in Answers(a) /\ Answers(a)' \subseteq Answers(a) /\ fbAge'[a] = 0
    BY <1>0, ReceivePlant, ReceiveStep
  <2>2. stateAge \in Nat /\ Jitter \in Nat /\ stateAge - 0 - Jitter = stateAge - Jitter
    BY <1>0, AgeFacts, Thresholds
  <2>3. /\ Distance(a, angle'[a]) <= startError[a]
        /\ Leaves(a, angle'[a], stateAge - 0 - Jitter)
    BY <1>2, <2>1, <2>2 DEF Homing
  <2>4. /\ Distance(a, angle[a])' <= startError'[a]
        /\ Leaves(a, angle[a], stateAge - fbAge[a] - Jitter)'
        /\ Distance(a, position[a])' <= startError'[a]
        /\ Leaves(a, position[a], stateAge)'
        /\ \A x \in Answers(a)' :
               Distance(a, x)' <= startError'[a] /\ Leaves(a, x, stateAge - Jitter)'
    BY <1>0, <1>2, <2>1, <2>3 DEF Homing, Leaves, Distance
  <2> QED BY <1>0, <1>2, <2>4 DEF Homing
<1> QED BY <1>0, <1>1, <1>2 DEF HomeInv

\* A motor takes its axis home, and answers with where the axis is.
LEMMA CompleteHome ==
    ASSUME TurnsAreShort, FInv, NEW a \in Axis, PlantComplete(a) PROVE HomeInv'
<1>0. /\ PlantInv /\ TypeOK /\ HomeInv /\ Awake' = Awake
      /\ UNCHANGED <<pc, position, target, state, dirty, stateAge, motionAge, startError,
                     angle, fbAge>>
      /\ \A b \in Axis : Due(b)' <=> Due(b)
  <2>1. PlantInv /\ TypeOK /\ HomeInv
    BY DEF FInv, CalmInv, PlantInv, CtlInv
  <2> QED BY <2>1, CompleteStep, DueKept
<1> SUFFICES ASSUME state = "CENTERING" PROVE HomeInv'
  BY <1>0 DEF HomeInv
<1>1. ASSUME NEW b \in Axis \ {a}, Homing(b) PROVE Homing(b)'
  <2>1. UNCHANGED <<goal[b], tx[b], reading[b]>>
    BY <1>0, CompletePlant
  <2> QED BY <1>0, <1>1, <2>1, HomingFrame
<1>2. ASSUME Homing(a) PROVE Homing(a)'
  <2>1. /\ goal'[a] = IF tx[a] = "pos" THEN target[a]
                      ELSE IF tx[a] = "stop" THEN position[a] ELSE goal[a]
        /\ Answers(a)' \subseteq Answers(a) \cup {position[a]} /\ tx'[a] = "none"
    BY <1>0, CompletePlant
  <2>2. target[a] = Center[a] /\ position[a] \in Int
    BY <1>0, PlantFacts DEF PlantInv, RestInv
  <2>3. goal'[a] = Center[a]
    BY <1>2, <2>1, <2>2 DEF Homing
  <2>4. Leaves(a, position[a], stateAge - Jitter)
    <3>1. stateAge \in Int /\ stateAge - Jitter \in Int /\ stateAge - Jitter <= stateAge
      BY <1>0, AgeFacts, Thresholds
    <3> QED BY <1>2, <2>2, <3>1, LeavesEarlier DEF Homing
  <2>5. \A x \in Answers(a)' :
            Distance(a, x) <= startError[a] /\ Leaves(a, x, stateAge - Jitter)
    BY <1>2, <2>1, <2>4 DEF Homing
  <2>6. /\ \A x \in Answers(a)' :
               Distance(a, x)' <= startError'[a] /\ Leaves(a, x, stateAge - Jitter)'
        /\ Distance(a, position[a])' <= startError'[a]
        /\ Distance(a, angle[a])' <= startError'[a]
        /\ Leaves(a, position[a], stateAge)'
        /\ (Due(a) /\ pc # "center") \/ Leaves(a, angle[a], stateAge - fbAge[a] - Jitter)'
    BY <1>0, <1>2, <2>5 DEF Homing, Leaves, Distance
  <2> QED BY <1>0, <2>1, <2>3, <2>6 DEF Homing
<1> QED BY <1>0, <1>1, <1>2 DEF HomeInv

LEMMA NextHome ==
    ASSUME TurnsAreShort, HomeIsNear, ~MayRefuse, Prompt, FInv, [PlantNext]_plantVars
    PROVE  HomeInv'
<1>0. PlantInv /\ HomeInv
  BY DEF FInv, CalmInv
<1>1. ASSUME NEW a \in Axis, NEW deg \in Slider[a], PlantSetTarget(a, deg)
      PROVE  HomeInv'
  BY <1>1 DEF PlantSetTarget, SetTarget, HomeInv
<1>2. ASSUME UNCHANGED plantVars \/ PlantPress \/ PlantDrainDone PROVE HomeInv'
  <2>1. \A a \in Axis : Due(a)' <=> Due(a)
    BY <1>2, QuietStep DEF Due
  <2> QED BY <1>0, <1>2, <2>1, QuietStep, HomeFrame
<1> QED
  BY <1>1, <1>2, TickHome, WakeHome, ReceiveHome, CompleteHome
  DEF PlantNext, PlantMotorThread

-----------------------------------------------------------------------------
(* The theorem *)

LEMMA InitCalm == PlantInit => FInv
<1> SUFFICES ASSUME PlantInit PROVE FInv
  OBVIOUS
<1>1. /\ pc = "sleep" /\ state \in {"BOOT", "FAULT"} /\ valid = {}
      /\ reading = [a \in Axis |-> <<>>]
  BY DEF PlantInit, Init
<1>2. \A a \in Axis : Answers(a) = {}
  BY <1>1 DEF Answers
<1>3. CalmInv
  BY <1>1, <1>2
  DEF CalmInv, NoSpuriousFault, RangeInv, CheckInv, FreshInv, HomeInv, Armed
<1> QED BY <1>3, PlantInitInv DEF FInv

LEMMA NextCalm ==
    ASSUME Patient, Prompt, ~MayRefuse, TurnsAreShort, HomeIsNear, FInv,
           [PlantNext]_plantVars
    PROVE  FInv'
<1>1. NoSpuriousFault'
  <2>1. CASE Tick
    BY <2>1, NoFault DEF NoSpuriousFault
  <2>2. CASE ~Tick
    <3>1. pc' # "fault"
      BY <2>2
      DEF FInv, CalmInv, NoSpuriousFault, PlantNext, PlantMotorThread, PlantWake, Wake,
          PlantReceive, ProcessFrame, PlantDrainDone, DrainDone, PlantTick,
          PlantComplete, TxComplete, PlantPress, PressButton, PlantSetTarget, SetTarget,
          plantVars, vars
    <3> QED BY <3>1 DEF NoSpuriousFault
  <2> QED BY <2>1, <2>2
<1>2. PlantInv'
  BY PlantNextInv DEF FInv
<1> QED BY <1>1, <1>2, NextRange, NextCheck, NextFresh, NextHome DEF FInv, CalmInv

\* No guard of gimbal.c gives a false alarm: if the bus is prompt and accepts what
\* it is offered, the user patient, and the thresholds leave room for the longest
\* turn and the longest way home, then neither the feedback timeout and the
\* centering timeout, nor the staleness watchdog, the range check and the
\* divergence check ever ends in FAULT (gimbal_tick, l.193-291 and l.417-449).
THEOREM GuardsGiveNoFalseAlarm ==
    Patient /\ Prompt /\ ~MayRefuse /\ TurnsAreShort /\ HomeIsNear
        => (PlantSpec => []NoSpuriousFault)
<1> SUFFICES ASSUME Patient, Prompt, ~MayRefuse, TurnsAreShort, HomeIsNear
             PROVE  PlantSpec => []NoSpuriousFault
  OBVIOUS
<1>1. PlantInit => FInv
  BY InitCalm
<1>2. FInv /\ [PlantNext]_plantVars => FInv'
  BY NextCalm
<1>3. FInv => NoSpuriousFault
  BY DEF FInv, CalmInv
<1> QED BY <1>1, <1>2, <1>3, PTL DEF PlantSpec
=============================================================================
