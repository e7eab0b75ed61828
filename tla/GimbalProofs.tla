---------------------------- MODULE GimbalProofs ----------------------------
(***************************************************************************)
(* Theorems about Gimbal, for every choice of thresholds, ranges, loop     *)
(* durations and bus behaviour that the assumptions of Gimbal allow.       *)
(***************************************************************************)
EXTENDS Gimbal, TLAPS

USE DEF Axis, Yaw, Pitch

-----------------------------------------------------------------------------
(* Helpers *)

\* An age never passes its cap.
LEMMA OlderType ==
    ASSUME NEW limit \in Nat, NEW age \in 0 .. limit, NEW d \in Nat
    PROVE  Older(age, d, limit) \in 0 .. limit
BY DEF Older

\* Queueing a frame keeps the type of the transmit slots.
LEMMA QueueType ==
    ASSUME tx \in [Axis -> Frames], NEW A, NEW frame \in Frames
    PROVE  Queue(A, frame) \in [Axis -> Frames]
BY DEF Queue

LEMMA AbsType == ASSUME NEW x \in Int PROVE Abs(x) \in Nat
BY DEF Abs

-----------------------------------------------------------------------------
(* Type correctness, one lemma per group of variables *)

LEMMA InitType == Init => TypeOK
<1> SUFFICES ASSUME Init PROVE TypeOK
  OBVIOUS
<1>1. AgesTypeOK
  BY TimingAssumption DEF Init, AgesTypeOK, StateAgeCap
<1>2. FeedbackTypeOK
  BY TimingAssumption DEF Init, FeedbackTypeOK, FbAgeCap
<1>3. BusTypeOK
  <2>1. tx \in [Axis -> Frames]
    BY DEF Init, Frames
  <2>3. motor \in [Axis -> MotorModes]
    BY DEF Init, MotorModes
  <2>2. owed \in [Axis -> 0 .. MaxOwed]
    BY BusAssumption DEF Init
  <2> QED BY <2>1, <2>2, <2>3 DEF BusTypeOK
<1>4. ControlTypeOK
  <2>1. pc \in Places /\ state \in States
    BY DEF Init, Places, States
  <2>2. target \in [Axis -> Int] /\ startError \in [Axis -> Int]
    BY AngleAssumption DEF Init
  <2>3. idleStop \in BOOLEAN /\ probePitch \in BOOLEAN
    BY DEF Init
  <2>4. requests = {} /\ dirty = Axis /\ enabled = {} /\ moving = {} /\ served = {}
    BY DEF Init
  <2> QED BY <2>1, <2>2, <2>3, <2>4 DEF ControlTypeOK
<1> QED BY <1>1, <1>2, <1>3, <1>4 DEF TypeOK

\* The steps of gimbal_tick take no reply and lose none.
LEMMA TickFrame == Tick => UNCHANGED <<fbAge, angle, motor, owed>>
BY DEF Tick, StartAccepted, StartRefused, RestartPlan, BootProbe, NothingToDo,
       AwaitTx, OutsideAtStart, Enable, AskPosition, SupervisionFault,
       ReleaseYaw, StopYawAtTarget, ToMotion, CommandHome, ReEnable,
       CommandTargets, AwaitCommand, Poll, BecomeReady, KeepCentering,
       FaultStop, feedback, bus

\* Every frame gimbal_tick queues is one of the protocol's.
LEMMA TickTx == BusTypeOK /\ Tick => tx' \in [Axis -> Frames]
<1> SUFFICES ASSUME BusTypeOK, Tick PROVE tx' \in [Axis -> Frames]
  OBVIOUS
<1>1. tx \in [Axis -> Frames]
  BY DEF BusTypeOK
<1>2. (\E A, frame : frame \in Frames /\ tx' = Queue(A, frame)) \/ UNCHANGED tx
  BY DEF Tick, StartAccepted, StartRefused, RestartPlan, BootProbe, NothingToDo,
         AwaitTx, OutsideAtStart, Enable, AskPosition, SupervisionFault,
         ReleaseYaw, StopYawAtTarget, ToMotion, CommandHome, ReEnable,
         CommandTargets, AwaitCommand, Poll, BecomeReady, KeepCentering,
         FaultStop, bus, Frames
<1> QED BY <1>1, <1>2, QueueType

\* The steps of gimbal_tick leave every age alone or start it afresh.
LEMMA TickAges == AgesTypeOK /\ Tick => AgesTypeOK'
<1> SUFFICES ASSUME AgesTypeOK, Tick PROVE AgesTypeOK'
  OBVIOUS
<1> USE DEF Tick, StartAccepted, StartRefused, RestartPlan, StartClock,
            BootProbe, NothingToDo, AwaitTx, OutsideAtStart, Enable,
            AskPosition, SupervisionFault, ReleaseYaw, StopYawAtTarget,
            ToMotion, CommandHome, ReEnable, CommandTargets, AwaitCommand,
            Poll, BecomeReady, KeepCentering, FaultStop, timers
<1>1. stateAge' = stateAge \/ stateAge' = 0
  OBVIOUS
<1>2. motionAge' = motionAge \/ motionAge' = 0
  OBVIOUS
<1>3. queryAge' \in {queryAge, 0, QueryGap}
  OBVIOUS
<1>4. probeAge' = probeAge \/ probeAge' = 0
  OBVIOUS
<1> QED BY <1>1, <1>2, <1>3, <1>4, TimingAssumption DEF AgesTypeOK, StateAgeCap

\* The steps of gimbal_tick keep the controller's own variables in their types.
LEMMA TickControl ==
    ControlTypeOK /\ FeedbackTypeOK /\ Tick => ControlTypeOK' /\ valid' \subseteq Axis
<1> SUFFICES ASSUME ControlTypeOK, FeedbackTypeOK, Tick
             PROVE  ControlTypeOK' /\ valid' \subseteq Axis
  OBVIOUS
<1> USE DEF ControlTypeOK, FeedbackTypeOK
<1>1. pc' \in Places /\ state' \in States
  BY DEF Tick, StartAccepted, StartRefused, RestartPlan, FaultPlace, BootProbe,
         NothingToDo, AwaitTx, OutsideAtStart, Enable, AskPosition,
         SupervisionFault, ReleaseYaw, StopYawAtTarget, ToMotion, CommandHome,
         ReEnable, CommandTargets, AwaitCommand, Poll, AfterMotion,
         BecomeReady, KeepCentering, FaultStop, Places, States
<1> HIDE DEF ControlTypeOK, FeedbackTypeOK
<1> USE DEF Tick, StartAccepted, StartRefused, RestartPlan, ForgetFeedback,
            BootProbe, NothingToDo, AwaitTx, OutsideAtStart, Enable,
            AskPosition, SupervisionFault, ReleaseYaw, StopYawAtTarget,
            ToMotion, CommandHome, ReEnable, CommandTargets, AwaitCommand,
            Poll, BecomeReady, KeepCentering, FaultStop, plan, drive, rest,
            feedback
<1>2. target' \in {target, Center}
  OBVIOUS
<1>3. startError' = startError \/ startError' = [a \in Axis |-> Error(a)]
  OBVIOUS
<1>4. dirty' \in {dirty, Axis, {}} /\ valid' \in {valid, {}}
  BY DEF ClearTargets
<1>5. enabled' \subseteq Axis
  BY DEF Disable, RecordEnabled, Accepts, ControlTypeOK
<1>12. moving' \subseteq Axis
  BY DEF Succeeds, ControlTypeOK
<1>6. served' \in SUBSET (served \cup Axis)
  BY DEF Succeeds, ControlTypeOK
<1>7. requests' = requests \/ requests' = {}
  OBVIOUS
<1>8. idleStop' = idleStop \/ idleStop' = TRUE \/ idleStop' = FALSE
  OBVIOUS
<1>11. probePitch' = probePitch \/ probePitch' = ~probePitch \/ probePitch' = FALSE
  OBVIOUS
<1> HIDE DEF Tick
<1>9. startError' \in [Axis -> Int]
  <2>1. [a \in Axis |-> Error(a)] \in [Axis -> Int]
    BY AbsType, AngleAssumption DEF FeedbackTypeOK, Error
  <2> QED BY <1>3, <2>1 DEF ControlTypeOK
<1>10. idleStop' \in BOOLEAN /\ probePitch' \in BOOLEAN
  BY <1>8, <1>11 DEF ControlTypeOK
<1> QED
  BY <1>1, <1>2, <1>4, <1>5, <1>6, <1>7, <1>9, <1>10, <1>12, AngleAssumption
  DEF ControlTypeOK, FeedbackTypeOK

\* A frame given up, or received and obeyed.
LEMMA CompleteType ==
    ASSUME BusTypeOK, NEW a \in Axis, TxComplete(a) PROVE BusTypeOK'
<1>1. tx' \in [Axis -> Frames]
  BY DEF TxComplete, BusTypeOK, Frames
<1>2. motor' \in [Axis -> MotorModes]
  BY DEF TxComplete, BusTypeOK, MotorModes, Obey
<1>3. owed' \in [Axis -> 0 .. MaxOwed]
  <2>1. owed[a] \in 0 .. MaxOwed
    BY DEF BusTypeOK
  <2>2. \/ owed' = [owed EXCEPT ![a] = owed[a] + 1] /\ owed[a] < MaxOwed
        \/ owed' = [owed EXCEPT ![a] = owed[a]]
        \/ owed' = owed
    BY DEF TxComplete
  <2> QED BY <2>1, <2>2, BusAssumption DEF BusTypeOK
<1> QED BY <1>1, <1>2, <1>3 DEF BusTypeOK

\* A restart leaves what Init leaves, but for the motors.
LEMMA RebootType == ASSUME BusTypeOK, Reboot PROVE TypeOK'
<1>1. AgesTypeOK'
  BY TimingAssumption DEF Reboot, AgesTypeOK, StateAgeCap
<1>2. FeedbackTypeOK'
  BY TimingAssumption DEF Reboot, FeedbackTypeOK, FbAgeCap
<1>3. BusTypeOK'
  <2>1. tx' \in [Axis -> Frames]
    BY DEF Reboot, Frames
  <2>2. owed' \in [Axis -> 0 .. MaxOwed]
    BY BusAssumption DEF Reboot
  <2> QED BY <2>1, <2>2 DEF Reboot, BusTypeOK
<1>4. ControlTypeOK'
  <2>1. pc' \in Places /\ state' \in States
    BY DEF Reboot, Places, States
  <2>2. target' \in [Axis -> Int] /\ startError' \in [Axis -> Int]
    BY AngleAssumption DEF Reboot
  <2>3. idleStop' \in BOOLEAN /\ probePitch' \in BOOLEAN
    BY DEF Reboot
  <2>4. /\ requests' = {} /\ dirty' = Axis /\ enabled' = {}
        /\ moving' = {} /\ served' = {}
    BY DEF Reboot
  <2> QED BY <2>1, <2>2, <2>3, <2>4 DEF ControlTypeOK
<1> QED BY <1>1, <1>2, <1>3, <1>4 DEF TypeOK

\* A reply with any angle at all.
LEMMA ProcessFrameType ==
    ASSUME TypeOK, NEW a \in Axis, NEW deg \in Int, ProcessFrame(a, deg) PROVE TypeOK'
<1>0. ControlTypeOK /\ AgesTypeOK /\ FeedbackTypeOK /\ BusTypeOK
  BY DEF TypeOK
<1>1. FeedbackTypeOK'
  <2>1. fbAge' \in [Axis -> 0 .. FbAgeCap]
    BY <1>0, TimingAssumption DEF ProcessFrame, FeedbackTypeOK, FbAgeCap
  <2> QED BY <1>0, <2>1 DEF ProcessFrame, FeedbackTypeOK
<1>2. BusTypeOK'
  <2>1. owed[a] \in 0 .. MaxOwed /\ owed[a] > 0
    BY <1>0 DEF ProcessFrame, BusTypeOK
  <2>2. owed' \in [Axis -> 0 .. MaxOwed]
    BY <1>0, <2>1, BusAssumption DEF ProcessFrame, BusTypeOK
  <2> QED BY <1>0, <2>2 DEF ProcessFrame, BusTypeOK
<1>3. ControlTypeOK' /\ AgesTypeOK'
  BY <1>0 DEF ProcessFrame, ControlTypeOK, AgesTypeOK, plan, drive, rest, timers
<1> QED BY <1>1, <1>2, <1>3 DEF TypeOK

LEMMA NextType == TypeOK /\ [Next]_vars => TypeOK'
<1> SUFFICES ASSUME TypeOK, [Next]_vars PROVE TypeOK'
  OBVIOUS
<1>0. ControlTypeOK /\ AgesTypeOK /\ FeedbackTypeOK /\ BusTypeOK
  BY DEF TypeOK
<1>1. CASE UNCHANGED vars
  <2>1. UNCHANGED <<pc, state, target, dirty, served, enabled, moving, idleStop,
                    requests, probePitch, startError, stateAge, motionAge,
                    queryAge, probeAge, valid, fbAge, angle, tx, motor, owed>>
    BY <1>1 DEF vars, plan, drive, rest, timers, feedback, bus
  <2> QED BY <1>0, <2>1 DEF TypeOK, ControlTypeOK, AgesTypeOK, FeedbackTypeOK,
                            BusTypeOK
<1>2. ASSUME NEW d \in Elapse, Wake(d) PROVE TypeOK'
  <2>1. AgesTypeOK'
    BY <1>0, <1>2, OlderType, TimingAssumption
    DEF Wake, AgesTypeOK, StateAgeCap
  <2>2. FeedbackTypeOK'
    BY <1>0, <1>2, OlderType, TimingAssumption
    DEF Wake, FeedbackTypeOK, FbAgeCap
  <2>3. ControlTypeOK' /\ BusTypeOK'
    BY <1>0, <1>2 DEF Wake, ControlTypeOK, BusTypeOK, plan, drive, rest, bus,
                      Places
  <2> QED BY <2>1, <2>2, <2>3 DEF TypeOK
<1>3. ASSUME NEW a \in Axis, NEW deg \in Feedback[a], ProcessFrame(a, deg)
      PROVE  TypeOK'
  <2>1. deg \in Int
    BY AngleAssumption
  <2> QED BY <1>3, <2>1, ProcessFrameType
<1>4. CASE DrainDone
  BY <1>0, <1>4 DEF DrainDone, TypeOK, ControlTypeOK, AgesTypeOK, FeedbackTypeOK,
                    BusTypeOK, Places, plan, drive, rest, timers, feedback, bus
<1>5. CASE Tick
  BY <1>0, <1>5, TickFrame, TickTx, TickAges, TickControl
  DEF TypeOK, FeedbackTypeOK, BusTypeOK
<1>6. ASSUME NEW a \in Axis, TxComplete(a) PROVE TypeOK'
  <2>1. ControlTypeOK' /\ AgesTypeOK' /\ FeedbackTypeOK'
    BY <1>0, <1>6 DEF TxComplete, ControlTypeOK, AgesTypeOK, FeedbackTypeOK,
                      plan, drive, rest, timers, feedback
  <2> QED BY <1>0, <1>6, <2>1, CompleteType DEF TypeOK
<1>7. ASSUME NEW a \in Axis, LoseReply(a) PROVE TypeOK'
  <2>1. BusTypeOK'
    <3>1. owed[a] \in 0 .. MaxOwed /\ owed[a] > 0
      BY <1>0, <1>7 DEF LoseReply, BusTypeOK
    <3>2. owed' \in [Axis -> 0 .. MaxOwed]
      BY <1>0, <1>7, <3>1, BusAssumption DEF LoseReply, BusTypeOK
    <3> QED BY <1>0, <1>7, <3>2 DEF LoseReply, BusTypeOK
  <2> QED BY <1>0, <1>7, <2>1 DEF LoseReply, TypeOK, ControlTypeOK, AgesTypeOK,
                      FeedbackTypeOK, plan, drive, rest, timers, feedback
<1>8. CASE Reboot
  BY <1>0, <1>8, RebootType
<1>9. CASE PressButton
  BY <1>0, <1>9 DEF PressButton, TypeOK, ControlTypeOK, AgesTypeOK, FeedbackTypeOK,
                    BusTypeOK, plan, drive, timers, feedback, bus
<1>10. ASSUME NEW a \in Axis, NEW deg \in Slider[a], SetTarget(a, deg)
       PROVE  TypeOK'
  <2>1. ControlTypeOK'
    <3>1. target' \in [Axis -> Int]
      <4>1. deg \in Int
        BY <1>10, AngleAssumption DEF SetTarget
      <4> QED BY <1>0, <1>10, <4>1 DEF SetTarget, ControlTypeOK
    <3> QED BY <1>0, <1>10, <3>1 DEF SetTarget, MarkDirty, ControlTypeOK, drive, rest
  <2> QED BY <1>0, <1>10, <2>1 DEF SetTarget, TypeOK, AgesTypeOK, FeedbackTypeOK,
                      BusTypeOK, timers, feedback, bus
<1> QED
  BY <1>1, <1>2, <1>3, <1>4, <1>5, <1>6, <1>7, <1>8, <1>9, <1>10
  DEF Next, MotorThread, Receive, Interrupt, Environment, UiThread

\* Type correctness of the whole controller: no sequence of turns, interrupts,
\* touches and restarts takes a variable out of its type.
THEOREM TypeCorrect == Spec => []TypeOK
BY InitType, NextType, PTL DEF Spec

-----------------------------------------------------------------------------
(* Supervision.  The invariant holds between turns; inside a turn it has to *)
(* be known at the motion commands too, which are reached only supervised.  *)

Safe == \A a \in Axis : KnownSafe(a)

SupervisionInv ==
    /\ pc = "sleep" /\ state \in Armed => Safe
    /\ pc \in {"motion", "center"} => state \in Armed /\ Safe /\ requests = {}
    /\ pc = "center" => state = "CENTERING"

\* The code's tests mean what the properties say.
LEMMA SupervisedIsSafe == TypeOK => (Supervised <=> Safe)
<1> SUFFICES ASSUME TypeOK PROVE Supervised <=> Safe
  OBVIOUS
<1>1. ASSUME NEW a \in Axis
      PROVE  InsideHardLimits(a)
                <=> angle[a] \in HardMin[a] - Margin .. HardMax[a] + Margin
  BY AngleAssumption DEF TypeOK, FeedbackTypeOK, InsideHardLimits
<1> QED BY <1>1 DEF Supervised, Safe, KnownSafe, BothFresh, Fresh

\* Fresh enough to start is fresh enough to run.
LEMMA ProvenIsSafe ==
    ASSUME TypeOK, Proven, \A a \in Axis : InsideHardLimits(a) PROVE Safe
<1>1. \A a \in Axis : fbAge[a] \in Int
  BY TimingAssumption DEF TypeOK, FeedbackTypeOK, FbAgeCap
<1>2. BothFresh(FeedbackStale)
  BY <1>1, TimingAssumption DEF Proven, BothFresh, Fresh
<1> QED BY <1>2, SupervisedIsSafe DEF Supervised

\* Safety depends on the feedback alone.
LEMMA SafeFrame == ASSUME UNCHANGED <<valid, fbAge, angle>> PROVE Safe' <=> Safe
BY DEF Safe, KnownSafe

LEMMA TickSupervision == TypeOK /\ SupervisionInv /\ Tick => SupervisionInv'
<1> SUFFICES ASSUME TypeOK, SupervisionInv, Tick PROVE SupervisionInv'
  OBVIOUS
<1>1. CASE StartAccepted \/ StartRefused
  BY <1>1 DEF StartAccepted, StartRefused, RestartPlan, FaultPlace,
              SupervisionInv, Armed
<1>2. CASE Enable
  <2>1. UNCHANGED <<valid, fbAge, angle>> /\ pc' \in {"sleep", "fault"}
    BY <1>2 DEF Enable, feedback
  <2>2. Safe
    BY <1>2, ProvenIsSafe DEF Enable
  <2> QED BY <2>1, <2>2, SafeFrame DEF SupervisionInv
<1>3. CASE ReleaseYaw \/ StopYawAtTarget \/ ToMotion
  <2>1. UNCHANGED <<valid, fbAge, angle, state, requests>>
        /\ pc' \in {"sleep", "fault", "motion"}
    BY <1>3 DEF ReleaseYaw, StopYawAtTarget, ToMotion, feedback, rest
  <2>2. Supervised /\ state \in Armed /\ requests = {}
    BY <1>3 DEF ReleaseYaw, StopYawAtTarget, ToMotion, Ticking, Armed
  <2> QED BY <2>1, <2>2, SupervisedIsSafe, SafeFrame DEF SupervisionInv
<1>4. CASE CommandHome \/ ReEnable \/ CommandTargets \/ AwaitCommand \/ Poll
             \/ BecomeReady \/ KeepCentering
  <2>1. /\ UNCHANGED <<valid, fbAge, angle, requests>>
        /\ pc \in {"motion", "center"} /\ pc' \in {"sleep", "fault", "center"}
        /\ state' \in {state, "READY"}
        /\ pc' = "center" => state' = "CENTERING"
    BY <1>4 DEF CommandHome, ReEnable, CommandTargets, AwaitCommand, Poll,
                AfterMotion, BecomeReady, KeepCentering, feedback, rest
  <2> QED BY <2>1, SafeFrame DEF SupervisionInv, Armed
<1>5. CASE BootProbe \/ NothingToDo \/ AwaitTx \/ OutsideAtStart \/ AskPosition
             \/ SupervisionFault \/ FaultStop
  <2>1. /\ pc' \in {"sleep", "fault"}
        /\ pc' = "sleep" => state' \notin Armed
    BY <1>5 DEF BootProbe, NothingToDo, AwaitTx, OutsideAtStart, AskPosition,
                SupervisionFault, FaultStop, Proven, Ticking, Armed
  <2> QED BY <2>1 DEF SupervisionInv
<1> QED BY <1>1, <1>2, <1>3, <1>4, <1>5 DEF Tick

LEMMA NextSupervision == TypeOK /\ SupervisionInv /\ [Next]_vars => SupervisionInv'
<1> SUFFICES ASSUME TypeOK, SupervisionInv, [Next]_vars PROVE SupervisionInv'
  OBVIOUS
<1>1. CASE Tick
  BY <1>1, TickSupervision
<1>2. ASSUME \/ \E d \in Elapse : Wake(d)
             \/ Receive \/ DrainDone
      PROVE  SupervisionInv'
  BY <1>2 DEF Wake, Receive, ProcessFrame, DrainDone, SupervisionInv
<1>3. CASE Reboot
  BY <1>3 DEF Reboot, SupervisionInv, Armed
<1>4. ASSUME UNCHANGED vars \/ Interrupt \/ (\E a \in Axis : LoseReply(a)) \/ UiThread
      PROVE  SupervisionInv'
  <2>1. /\ UNCHANGED <<pc, state, valid, fbAge, angle>>
        /\ pc \in {"motion", "center"} => UNCHANGED requests
    BY <1>4 DEF vars, Interrupt, TxComplete, LoseReply, UiThread, PressButton,
                SetTarget, feedback, rest
  <2> QED BY <2>1, SafeFrame DEF SupervisionInv
<1> QED BY <1>1, <1>2, <1>3, <1>4 DEF Next, MotorThread, Environment

LEMMA InitSupervision == Init => SupervisionInv
BY DEF Init, SupervisionInv, Armed

LEMMA SpecSupervision == Spec => [](TypeOK /\ SupervisionInv)
BY InitType, NextType, InitSupervision, NextSupervision, PTL DEF Spec

\* No turn of the motor loop ends armed with an axis stale or out of range,
\* whatever the thresholds are.
THEOREM AlwaysSupervised == Spec => []ArmedIsSupervised
<1>1. SupervisionInv => ArmedIsSupervised
  BY DEF SupervisionInv, ArmedIsSupervised, Safe
<1> QED BY <1>1, SpecSupervision, PTL

\* A motor is enabled or commanded only while both axes are known to be inside
\* their range, by recent feedback.
THEOREM MotionIsGuarded == Spec => MotionGuarded
<1> DEFINE Guarded == \A a \in Axis : tx'[a] # tx[a] /\ tx'[a] \in {"on", "pos"}
                                         => \A b \in Axis : KnownSafe(b)
<1>1. TypeOK /\ SupervisionInv /\ [Next]_vars => [Guarded]_vars
  <2> SUFFICES ASSUME TypeOK, SupervisionInv, Next PROVE Safe \/ Guarded
    BY DEF Safe
  <2> USE DEF Queue
  <2>1. CASE Enable
    BY <2>1, ProvenIsSafe DEF Enable
  <2>2. CASE CommandHome \/ ReEnable \/ CommandTargets
    BY <2>2 DEF CommandHome, ReEnable, CommandTargets, SupervisionInv
  <2>3. CASE StartAccepted \/ StartRefused \/ BootProbe \/ NothingToDo \/ AwaitTx
              \/ OutsideAtStart \/ AskPosition \/ SupervisionFault
    BY <2>3 DEF StartAccepted, StartRefused, BootProbe, NothingToDo, AwaitTx,
                OutsideAtStart, AskPosition, SupervisionFault, bus
  <2>4. CASE ReleaseYaw \/ StopYawAtTarget \/ ToMotion \/ AwaitCommand \/ Poll
              \/ BecomeReady \/ KeepCentering \/ FaultStop
    BY <2>4 DEF ReleaseYaw, StopYawAtTarget, ToMotion, AwaitCommand, Poll,
                BecomeReady, KeepCentering, FaultStop, bus
  <2>5. ASSUME \/ \E d \in Elapse : Wake(d)
               \/ Receive \/ DrainDone \/ Environment \/ UiThread
        PROVE  Guarded
    BY <2>5 DEF Wake, Receive, ProcessFrame, DrainDone, Environment, LoseReply,
                Reboot, UiThread, PressButton, SetTarget, bus
  <2>6. CASE Interrupt
    BY <2>6 DEF Interrupt, TxComplete, TypeOK, BusTypeOK
  <2> QED BY <2>1, <2>2, <2>3, <2>4, <2>5, <2>6 DEF Next, MotorThread, Tick
<1> QED BY <1>1, SpecSupervision, PTL DEF Spec, MotionGuarded

-----------------------------------------------------------------------------
(* A START is checked with feedback younger than the request *)

LEMMA OlderMonotone ==
    ASSUME NEW x \in Nat, NEW y \in Nat, x <= y, NEW d \in Nat,
           NEW m \in Nat, NEW n \in Nat, m <= n
    PROVE  Older(x, d, m) <= Older(y, d, n)
BY DEF Older

LEMMA NextPostdates ==
    TypeOK /\ FeedbackPostdatesRequest /\ [Next]_vars => FeedbackPostdatesRequest'
<1> SUFFICES ASSUME TypeOK, FeedbackPostdatesRequest, [Next]_vars
             PROVE  FeedbackPostdatesRequest'
  OBVIOUS
<1>0. stateAge \in Nat /\ \A a \in Axis : fbAge[a] \in Nat
  BY TimingAssumption DEF TypeOK, AgesTypeOK, FeedbackTypeOK, StateAgeCap, FbAgeCap
<1>1. ASSUME NEW d \in Elapse, Wake(d) PROVE FeedbackPostdatesRequest'
  <2>1. /\ d \in Nat /\ FbAgeCap \in Nat /\ StateAgeCap \in Nat
        /\ FbAgeCap <= StateAgeCap
    BY TimingAssumption DEF FbAgeCap, StateAgeCap
  <2>2. ASSUME NEW a \in Axis, fbAge[a] <= stateAge
        PROVE  fbAge'[a] <= stateAge'
    BY <1>0, <1>1, <2>1, <2>2, OlderMonotone DEF Wake
  <2>3. UNCHANGED <<state, valid>> /\ valid \subseteq Axis
    BY <1>1 DEF Wake, TypeOK, FeedbackTypeOK
  <2> QED BY <2>2, <2>3 DEF FeedbackPostdatesRequest
<1>2. ASSUME NEW a \in Axis, NEW deg \in Feedback[a], ProcessFrame(a, deg)
      PROVE  FeedbackPostdatesRequest'
  <2>1. UNCHANGED <<state, stateAge>> /\ valid' = valid \cup {a}
    BY <1>2 DEF ProcessFrame, timers
  <2>2. /\ fbAge'[a] = 0
        /\ \A b \in Axis : b # a => fbAge'[b] = fbAge[b]
    BY <1>2 DEF ProcessFrame, TypeOK, FeedbackTypeOK
  <2>3. \A b \in valid : b \in Axis
    BY DEF TypeOK, FeedbackTypeOK
  <2> HIDE DEF Axis
  <2> QED BY <1>0, <2>1, <2>2, <2>3 DEF FeedbackPostdatesRequest
<1>3. CASE Tick
  <2>1. UNCHANGED fbAge
    BY <1>3, TickFrame
  <2>2. CASE StartAccepted \/ StartRefused
    BY <2>2 DEF StartAccepted, StartRefused, RestartPlan, ForgetFeedback,
                FeedbackPostdatesRequest
  <2>3. CASE ~(StartAccepted \/ StartRefused)
    <3>1. /\ valid' = valid
          /\ state' = "WAITING" => state = "WAITING" /\ stateAge' = stateAge
      BY <1>3, <2>3 DEF Tick, BootProbe, NothingToDo, AwaitTx, OutsideAtStart,
           Enable, AskPosition, SupervisionFault, ReleaseYaw, StopYawAtTarget,
           ToMotion, CommandHome, ReEnable, CommandTargets, AwaitCommand, Poll,
           BecomeReady, KeepCentering, FaultStop, feedback, timers
    <3> QED BY <2>1, <3>1 DEF FeedbackPostdatesRequest
  <2> QED BY <2>2, <2>3
<1>4. CASE Reboot
  BY <1>4 DEF Reboot, FeedbackPostdatesRequest
<1>5. ASSUME \/ UNCHANGED vars \/ DrainDone \/ Interrupt \/ UiThread
             \/ \E a \in Axis : LoseReply(a)
      PROVE  FeedbackPostdatesRequest'
  BY <1>5 DEF vars, DrainDone, Interrupt, TxComplete, UiThread, PressButton,
              SetTarget, LoseReply, feedback, timers, FeedbackPostdatesRequest
<1> QED
  BY <1>1, <1>2, <1>3, <1>4, <1>5
  DEF Next, MotorThread, Receive, Environment

\* While a START is checked, valid feedback arrived after the request.
THEOREM StartNeedsNewFeedback == Spec => []FeedbackPostdatesRequest
<1>1. Init => FeedbackPostdatesRequest
  BY DEF Init, FeedbackPostdatesRequest
<1> QED BY <1>1, InitType, NextType, NextPostdates, PTL DEF Spec

-----------------------------------------------------------------------------
(* Targets: commanded once, and never forgotten *)

TargetInv ==
    /\ pc # "fault" /\ state # "FAULT" => dirty \cap served = {}
    /\ state = "CENTERING" => dirty = {} \/ dirty = Axis
    /\ state \in {"WAITING", "CENTERING"} => target = Center
    /\ state = "READY" =>
           \A a \in Axis \ dirty : a \in served \/ target[a] = Center[a]

LEMMA InitTarget == Init => TargetInv
BY DEF Init, TargetInv

LEMMA TickTarget == TypeOK /\ SupervisionInv /\ TargetInv /\ Tick => TargetInv'
<1> SUFFICES ASSUME TypeOK, SupervisionInv, TargetInv, Tick PROVE TargetInv'
  OBVIOUS
<1>0. dirty \subseteq Axis
  BY DEF TypeOK, ControlTypeOK
<1>1. CASE StartAccepted \/ StartRefused
  BY <1>1 DEF StartAccepted, StartRefused, RestartPlan, TargetInv
<1>2. CASE Enable
  BY <1>2 DEF Enable, Proven, Ticking, TargetInv
<1>3. CASE CommandHome
  <2>1. pc = "motion" /\ state = "CENTERING" /\ state' = state /\ target' = target
    BY <1>3 DEF CommandHome
  <2>2. \/ dirty' = {}
        \/ dirty' = dirty /\ pc' = "fault"
    BY <1>3 DEF CommandHome, ClearTargets
  <2> QED BY <2>1, <2>2 DEF TargetInv
<1>4. CASE CommandTargets
  <2>1. pc = "motion" /\ state = "READY" /\ state' = state /\ target' = target
    BY <1>4 DEF CommandTargets
  <2>2. \/ dirty' = {} /\ served' = served \cup dirty
        \/ dirty' = dirty /\ pc' = "fault" /\ served \subseteq served'
    BY <1>4 DEF CommandTargets, ClearTargets
  <2> QED BY <1>0, <2>1, <2>2 DEF TargetInv
<1>5. CASE BecomeReady
  <2>1. state = "CENTERING"
    BY <1>5 DEF BecomeReady, SupervisionInv
  <2> QED BY <1>5, <2>1 DEF BecomeReady, TargetInv
<1>6. CASE FaultStop
  BY <1>6 DEF FaultStop, plan, TargetInv
<1>7. CASE BootProbe \/ NothingToDo \/ AwaitTx \/ OutsideAtStart \/ AskPosition
             \/ SupervisionFault \/ ReleaseYaw \/ StopYawAtTarget \/ ToMotion
             \/ ReEnable \/ AwaitCommand \/ Poll \/ KeepCentering
  <2>1. UNCHANGED <<state, target, dirty, served>> /\ pc # "fault"
    BY <1>7 DEF BootProbe, NothingToDo, AwaitTx, OutsideAtStart, AskPosition,
         Proven, SupervisionFault, ReleaseYaw, StopYawAtTarget, ToMotion,
         Ticking, ReEnable, AwaitCommand, Poll, KeepCentering, plan
  <2> QED BY <2>1 DEF TargetInv
<1> QED BY <1>1, <1>2, <1>3, <1>4, <1>5, <1>6, <1>7 DEF Tick

LEMMA NextTarget == TypeOK /\ SupervisionInv /\ TargetInv /\ [Next]_vars => TargetInv'
<1> SUFFICES ASSUME TypeOK, SupervisionInv, TargetInv, [Next]_vars PROVE TargetInv'
  OBVIOUS
<1>1. CASE Tick
  BY <1>1, TickTarget
<1>2. ASSUME NEW a \in Axis, NEW deg \in Slider[a], SetTarget(a, deg)
      PROVE  TargetInv'
  BY <1>2 DEF SetTarget, MarkDirty, TargetInv, TypeOK, ControlTypeOK
<1>3. CASE Reboot
  BY <1>3 DEF Reboot, TargetInv
<1>4. ASSUME \/ UNCHANGED vars \/ DrainDone \/ Interrupt \/ PressButton
             \/ (\E a \in Axis : LoseReply(a)) \/ Receive
             \/ \E d \in Elapse : Wake(d)
      PROVE  TargetInv'
  <2>1. UNCHANGED <<state, target, dirty, served>>
        /\ (pc' = pc \/ pc \in {"sleep", "drain"})
    BY <1>4 DEF vars, DrainDone, Interrupt, TxComplete, PressButton, LoseReply,
                Receive, ProcessFrame, Wake, plan
  <2> QED BY <2>1 DEF TargetInv
<1> QED
  BY <1>1, <1>2, <1>3, <1>4 DEF Next, MotorThread, Environment, UiThread

LEMMA SpecTarget == Spec => [](TypeOK /\ SupervisionInv /\ TargetInv)
BY SpecSupervision, InitTarget, NextTarget, PTL DEF Spec

\* Between turns in READY no accepted target has been forgotten.
THEOREM TargetsAreKept == Spec => []NoLostTarget
<1>1. TargetInv => NoLostTarget
  BY DEF TargetInv, NoLostTarget
<1> QED BY <1>1, SpecTarget, PTL

\* The incremental 0xA8 is sent at most once for each accepted target.
THEOREM CommandedOnce == Spec => OncePerChange
<1> DEFINE Once == \A a \in Axis : tx'[a] # tx[a] /\ tx'[a] = "pos" => a \notin served
<1>1. TypeOK /\ SupervisionInv /\ TargetInv /\ [Next]_vars => [Once]_vars
  <2> SUFFICES ASSUME TypeOK, SupervisionInv, TargetInv, Next PROVE Once
    OBVIOUS
  <2> USE DEF Queue
  <2>1. CASE CommandHome
    <3>1. dirty = Axis
      BY <2>1 DEF CommandHome, CommandDue, TargetInv
    <3> QED BY <2>1, <3>1 DEF CommandHome, TargetInv
  <2>2. CASE CommandTargets
    BY <2>2 DEF CommandTargets, Accepts, Moves, TargetInv
  <2>3. CASE StartAccepted \/ StartRefused \/ BootProbe \/ NothingToDo \/ AwaitTx
              \/ OutsideAtStart \/ Enable \/ AskPosition \/ SupervisionFault
              \/ ReEnable
    BY <2>3 DEF StartAccepted, StartRefused, BootProbe, NothingToDo, AwaitTx,
                OutsideAtStart, Enable, AskPosition, SupervisionFault, ReEnable, bus
  <2>4. CASE ReleaseYaw \/ StopYawAtTarget \/ ToMotion \/ AwaitCommand \/ Poll
              \/ BecomeReady \/ KeepCentering \/ FaultStop
    BY <2>4 DEF ReleaseYaw, StopYawAtTarget, ToMotion, AwaitCommand, Poll,
                BecomeReady, KeepCentering, FaultStop, bus
  <2>5. ASSUME \/ \E d \in Elapse : Wake(d)
               \/ Receive \/ DrainDone \/ Environment \/ UiThread
        PROVE  Once
    BY <2>5 DEF Wake, Receive, ProcessFrame, DrainDone, Environment, LoseReply,
                Reboot, UiThread, PressButton, SetTarget, bus
  <2>6. CASE Interrupt
    BY <2>6 DEF Interrupt, TxComplete, TypeOK, BusTypeOK
  <2> QED BY <2>1, <2>2, <2>3, <2>4, <2>5, <2>6 DEF Next, MotorThread, Tick
<1> QED BY <1>1, SpecTarget, PTL DEF Spec, OncePerChange

-----------------------------------------------------------------------------
(* A request is answered before anything can fail *)

AnsweredInv == pc = "fault" => requests = {}

LEMMA NextAnswered == SupervisionInv /\ AnsweredInv /\ [Next]_vars => AnsweredInv'
<1> SUFFICES ASSUME SupervisionInv, AnsweredInv, [Next]_vars PROVE AnsweredInv'
  OBVIOUS
<1>1. CASE StartAccepted \/ StartRefused \/ Reboot
  BY <1>1 DEF StartAccepted, StartRefused, RestartPlan, Reboot, AnsweredInv
<1>2. CASE BootProbe \/ NothingToDo \/ AwaitTx \/ OutsideAtStart \/ Enable \/ AskPosition
  BY <1>2 DEF BootProbe, NothingToDo, AwaitTx, OutsideAtStart, Enable, AskPosition,
              Proven, Ticking, AnsweredInv, rest
<1>3. CASE SupervisionFault \/ ReleaseYaw \/ StopYawAtTarget \/ ToMotion
  BY <1>3 DEF SupervisionFault, ReleaseYaw, StopYawAtTarget, ToMotion, Ticking,
              AnsweredInv, rest
<1>4. CASE \/ CommandHome \/ ReEnable \/ CommandTargets \/ AwaitCommand \/ Poll
           \/ BecomeReady \/ KeepCentering
  <2>1. requests = {}
    BY <1>4 DEF CommandHome, ReEnable, CommandTargets, AwaitCommand, Poll, BecomeReady,
                KeepCentering, SupervisionInv
  <2>2. UNCHANGED requests
    BY <1>4 DEF CommandHome, ReEnable, CommandTargets, AwaitCommand, Poll, BecomeReady,
                KeepCentering, rest
  <2> QED BY <2>1, <2>2 DEF AnsweredInv
<1>5. CASE FaultStop
  BY <1>5 DEF FaultStop, AnsweredInv
<1>6. ASSUME (\E d \in Elapse : Wake(d)) \/ Receive \/ DrainDone PROVE AnsweredInv'
  BY <1>6 DEF Wake, Receive, ProcessFrame, DrainDone, AnsweredInv
<1>7. ASSUME UNCHANGED vars \/ Interrupt \/ \E a \in Axis : LoseReply(a)
      PROVE  AnsweredInv'
  BY <1>7 DEF vars, Interrupt, TxComplete, LoseReply, rest, AnsweredInv
<1>8. CASE UiThread
  BY <1>8 DEF UiThread, PressButton, SetTarget, AnsweredInv
<1> QED BY <1>1, <1>2, <1>3, <1>4, <1>5, <1>6, <1>7, <1>8
        DEF Next, MotorThread, Tick, Environment

\* No request recorded before a fault (gimbal_request_start) can end it.
THEOREM FaultEndsByNewRequest == Spec => FaultNeedsNewRequest
<1>1. Init => AnsweredInv
  BY DEF Init, AnsweredInv
<1>2. AnsweredInv /\ [Next]_vars
          => [state # "FAULT" /\ state' = "FAULT" => requests' = {}]_vars
  <2> SUFFICES ASSUME AnsweredInv, Next, state # "FAULT", state' = "FAULT"
               PROVE  requests' = {}
    OBVIOUS
  <2>1. CASE FaultStop
    BY <2>1 DEF FaultStop, AnsweredInv, rest
  <2>2. CASE Reboot
    BY <2>2 DEF Reboot
  <2>3. ~StartAccepted /\ ~StartRefused /\ ~BootProbe /\ ~NothingToDo /\ ~AwaitTx
    BY DEF StartAccepted, StartRefused, BootProbe, NothingToDo, AwaitTx
  <2>4. ~OutsideAtStart /\ ~Enable /\ ~AskPosition /\ ~SupervisionFault /\ ~ReleaseYaw
    BY DEF OutsideAtStart, Enable, AskPosition, SupervisionFault, ReleaseYaw
  <2>5. ~StopYawAtTarget /\ ~ToMotion /\ ~CommandHome /\ ~ReEnable /\ ~CommandTargets
    BY DEF StopYawAtTarget, ToMotion, CommandHome, ReEnable, CommandTargets
  <2>6. ~AwaitCommand /\ ~Poll /\ ~BecomeReady /\ ~KeepCentering
    BY DEF AwaitCommand, Poll, BecomeReady, KeepCentering
  <2>7. ~((\E d \in Elapse : Wake(d)) \/ Receive \/ DrainDone \/ Interrupt \/ UiThread
          \/ \E a \in Axis : LoseReply(a))
    BY DEF Wake, Receive, ProcessFrame, DrainDone, Interrupt, TxComplete, UiThread,
           PressButton, SetTarget, LoseReply
  <2> QED BY <2>1, <2>2, <2>3, <2>4, <2>5, <2>6, <2>7
          DEF Next, MotorThread, Tick, Environment
<1> QED BY <1>1, <1>2, NextAnswered, SpecSupervision, PTL DEF Spec, FaultNeedsNewRequest

-----------------------------------------------------------------------------
(* Gimbal implements GimbalModes *)

LEMMA SupervisedFrame ==
    ASSUME UNCHANGED <<valid, fbAge, angle>> PROVE Supervised' = Supervised
BY DEF Supervised, BothFresh, Fresh, InsideHardLimits

LEMMA ModesTick ==
    ASSUME TypeOK, SupervisionInv, Tick
    PROVE  Modes!Next \/ UNCHANGED Modes!vars
<1> USE DEF Modes!Next, Modes!vars, Modes!Armed
<1>1. CASE StartAccepted \/ StartRefused
  <2>1. /\ requests # {} /\ requests' = {} /\ dirty' = Axis /\ valid' = {}
        /\ state' \in {state, "WAITING"}
    BY <1>1 DEF StartAccepted, StartRefused, RestartPlan, ForgetFeedback
  <2>2. Supervised' = FALSE
    BY <2>1 DEF Supervised, BothFresh, Fresh
  <2>3. Modes!Answer
    BY <2>1, <2>2 DEF Modes!Answer
  <2> QED BY <2>3
<1>2. CASE ~(StartAccepted \/ StartRefused)
  <2>1. UNCHANGED <<valid, fbAge, angle, requests>>
    BY <1>2 DEF Tick, BootProbe, NothingToDo, AwaitTx, OutsideAtStart, Enable,
         AskPosition, SupervisionFault, ReleaseYaw, StopYawAtTarget, ToMotion,
         CommandHome, ReEnable, CommandTargets, AwaitCommand, Poll, BecomeReady,
         KeepCentering, FaultStop, feedback, rest
  <2>2. UNCHANGED <<Supervised, requests # {}>>
    BY <2>1, SupervisedFrame
  <2>3. CASE Enable
    <3>1. Supervised
      BY <2>3, ProvenIsSafe, SupervisedIsSafe DEF Enable
    <3>2. \/ state' = "CENTERING" /\ dirty' = Axis
          \/ UNCHANGED <<state, dirty>>
      BY <2>3 DEF Enable
    <3>3. state = "WAITING" /\ requests = {}
      BY <2>3 DEF Enable, Proven, Ticking
    <3> QED BY <2>2, <3>1, <3>2, <3>3 DEF Modes!Arm
  <2>4. CASE CommandHome \/ CommandTargets
    <3>1. Supervised /\ state \in Armed /\ requests = {}
      BY <2>4, SupervisedIsSafe DEF CommandHome, CommandTargets, SupervisionInv
    <3>2. state' = state /\ (dirty' = {} \/ dirty' = dirty)
      BY <2>4 DEF CommandHome, CommandTargets, ClearTargets
    <3> QED BY <2>2, <3>1, <3>2 DEF Modes!Command, Armed
  <2>5. CASE BecomeReady
    <3>1. Supervised /\ state = "CENTERING" /\ requests = {}
      BY <2>5, SupervisedIsSafe DEF BecomeReady, SupervisionInv
    <3>2. state' = "READY" /\ dirty' = {}
      BY <2>5 DEF BecomeReady
    <3> QED BY <2>2, <3>1, <3>2 DEF Modes!Arrive
  <2>6. CASE FaultStop
    <3>1. state' = "FAULT" /\ dirty' = dirty
      BY <2>6 DEF FaultStop, plan
    <3> QED BY <2>2, <3>1 DEF Modes!Fail
  <2>7. CASE ~(Enable \/ CommandHome \/ CommandTargets \/ BecomeReady \/ FaultStop)
    <3>1. UNCHANGED <<state, dirty>>
      BY <1>2, <2>7 DEF Tick, BootProbe, NothingToDo, AwaitTx, OutsideAtStart,
           AskPosition, SupervisionFault, ReleaseYaw, StopYawAtTarget, ToMotion,
           ReEnable, AwaitCommand, Poll, KeepCentering, plan
    <3> QED BY <2>2, <3>1
  <2> QED BY <2>3, <2>4, <2>5, <2>6, <2>7
<1> QED BY <1>1, <1>2

LEMMA ModesNext ==
    ASSUME TypeOK, SupervisionInv, [Next]_vars
    PROVE  Modes!Next \/ UNCHANGED Modes!vars
<1> USE DEF Modes!Next, Modes!vars
<1>1. CASE Tick
  BY <1>1, ModesTick
<1>2. ASSUME (\E d \in Elapse : Wake(d)) \/ Receive
      PROVE  Modes!Sense
  <2>1. UNCHANGED <<state, requests, dirty>>
    BY <1>2 DEF Wake, Receive, ProcessFrame, plan, rest
  <2>2. Supervised' \in BOOLEAN
    BY DEF Supervised
  <2> QED BY <2>1, <2>2 DEF Modes!Sense
<1>3. CASE PressButton
  <2>1. requests' # {} /\ UNCHANGED <<state, dirty, valid, fbAge, angle>>
    BY <1>3 DEF PressButton, plan, feedback
  <2>2. UNCHANGED Supervised
    BY <2>1, SupervisedFrame
  <2>3. Modes!Ask
    BY <2>1, <2>2 DEF Modes!Ask
  <2> QED BY <2>3
<1>4. ASSUME NEW a \in Axis, NEW deg \in Slider[a], SetTarget(a, deg)
      PROVE  Modes!Retarget(a)
  <2>1. /\ state = "READY" /\ dirty' = dirty \cup {a}
        /\ UNCHANGED <<state, requests, valid, fbAge, angle>>
    BY <1>4 DEF SetTarget, MarkDirty, rest, feedback
  <2>2. UNCHANGED Supervised
    BY <2>1, SupervisedFrame
  <2> QED BY <2>1, <2>2 DEF Modes!Retarget
<1>5. CASE Reboot
  <2>1. Supervised' = FALSE
    BY <1>5 DEF Reboot, Supervised, BothFresh, Fresh
  <2>2. Modes!Restart
    BY <1>5, <2>1 DEF Reboot, Modes!Restart
  <2> QED BY <2>2
<1>6. ASSUME \/ UNCHANGED vars \/ DrainDone \/ Interrupt
             \/ \E a \in Axis : LoseReply(a)
      PROVE  UNCHANGED Modes!vars
  <2>1. UNCHANGED <<state, requests, dirty, valid, fbAge, angle>>
    BY <1>6 DEF vars, DrainDone, Interrupt, TxComplete, LoseReply, plan, rest,
                feedback
  <2> QED BY <2>1, SupervisedFrame
<1> QED
  BY <1>1, <1>2, <1>3, <1>4, <1>5, <1>6
  DEF Next, MotorThread, Environment, UiThread

\* The detailed controller implements its abstract modes: FAULT is left only by
\* a request, CENTERING is entered only from a check with both axes supervised,
\* READY only from CENTERING, and commands are given only while supervised.
THEOREM GimbalImplementsModes == Spec => ImplementsModes
<1>1. Init => Modes!Init
  <2>1. Init => Supervised = FALSE
    BY DEF Init, Supervised, BothFresh, Fresh
  <2> QED BY <2>1 DEF Init, Modes!Init
<1>2. TypeOK /\ SupervisionInv /\ [Next]_vars => [Modes!Next]_(Modes!vars)
  BY ModesNext
<1> QED BY <1>1, <1>2, SpecSupervision, PTL DEF Spec, ImplementsModes, Modes!Spec

-----------------------------------------------------------------------------
(* The transmit slots *)

\* What is queued goes to motors that have no frame outstanding.
LEMMA QueueFree ==
    ASSUME NEW S \in SUBSET Axis, NEW A \in Accepts(S), NEW B \in SUBSET A, NEW frame
    PROVE  \A a \in Axis : Queue(B, frame)[a] = tx[a] \/ tx[a] = "none"
BY DEF Accepts, Queue, TxPending

LEMMA TickFree ==
    ASSUME BusTypeOK, ControlTypeOK, Tick
    PROVE  \A a \in Axis : tx'[a] = tx[a] \/ tx[a] = "none"
<1>1. dirty \subseteq Axis /\ Released \subseteq Axis /\ Moves(Axis) \subseteq Axis
      /\ Moves(dirty) \subseteq Axis /\ dirty \ enabled \subseteq Axis
      /\ Probed \in Axis
  BY DEF ControlTypeOK, Released, Moves, Probed
<1>2. \/ \E S \in SUBSET Axis, frame \in Frames : \E A \in Accepts(S) :
            \E B \in SUBSET A : tx' = Queue(B, frame)
      \/ UNCHANGED tx
  <2> USE <1>1 DEF Frames
  <2>1. CASE StartAccepted
    BY <2>1 DEF StartAccepted
  <2>2. CASE StartRefused
    <3>1. PICK A \in Accepts(Axis) : tx' = Queue(A \cap {Yaw}, "stop")
      BY <2>2 DEF StartRefused
    <3>2. A \cap {Yaw} \in SUBSET A /\ Axis \in SUBSET Axis /\ "stop" \in Frames
      OBVIOUS
    <3> QED BY <3>1, <3>2
  <2>3. CASE BootProbe \/ AskPosition
    BY <2>3 DEF BootProbe, AskPosition
  <2>4. CASE Enable
    BY <2>4 DEF Enable
  <2>5. CASE ReleaseYaw \/ StopYawAtTarget
    BY <2>5 DEF ReleaseYaw, StopYawAtTarget
  <2>6. CASE CommandHome
    BY <2>6 DEF CommandHome
  <2>7. CASE ReEnable
    BY <2>7 DEF ReEnable
  <2>8. CASE CommandTargets
    BY <2>8 DEF CommandTargets
  <2>9. CASE Poll \/ FaultStop
    BY <2>9 DEF Poll, FaultStop
  <2>10. CASE \/ NothingToDo \/ AwaitTx \/ OutsideAtStart \/ SupervisionFault
              \/ ToMotion \/ AwaitCommand \/ BecomeReady \/ KeepCentering
    BY <2>10 DEF NothingToDo, AwaitTx, OutsideAtStart, SupervisionFault, ToMotion,
                 AwaitCommand, BecomeReady, KeepCentering, bus
  <2> QED BY <2>1, <2>2, <2>3, <2>4, <2>5, <2>6, <2>7, <2>8, <2>9, <2>10 DEF Tick
<1> QED BY <1>2, QueueFree

LEMMA SlotsNext ==
    ASSUME TypeOK, TypeOK', [Next]_vars PROVE Slots!Next \/ UNCHANGED tx
<1>1. tx \in [Axis -> Frames] /\ tx' \in [Axis -> Frames]
  BY DEF TypeOK, BusTypeOK
<1>2. Frames = (Frames \ {"none"}) \cup {"none"}
  BY DEF Frames
<1>3. ASSUME \A a \in Axis : tx'[a] = tx[a] \/ tx[a] = "none" \/ tx'[a] = "none"
      PROVE  Slots!Next
  BY <1>1, <1>2, <1>3 DEF Slots!Next, Slots!Accept, Slots!Clear
<1>4. CASE Tick
  BY <1>3, <1>4, TickFree DEF TypeOK
<1>5. ASSUME NEW a \in Axis, TxComplete(a) PROVE Slots!Next
  BY <1>1, <1>3, <1>5 DEF TxComplete
<1>6. CASE Reboot
  BY <1>3, <1>6 DEF Reboot
<1>7. CASE \/ (\E d \in Elapse : Wake(d)) \/ Receive \/ DrainDone \/ UiThread
           \/ (\E a \in Axis : LoseReply(a)) \/ UNCHANGED vars
  BY <1>7 DEF Wake, Receive, ProcessFrame, DrainDone, UiThread, PressButton,
              SetTarget, LoseReply, bus, vars
<1> QED BY <1>4, <1>5, <1>6, <1>7 DEF Next, MotorThread, Interrupt, Environment

\* Gimbal takes each send to be a single step of a transmit slot (TxSlot), and
\* never sends to a motor whose last frame is outstanding (send_frame).
THEOREM GimbalImplementsSlots == Spec => ImplementsSlots
<1>1. Init => Slots!Init
  BY DEF Init, Slots!Init
<1>2. TypeOK /\ TypeOK' /\ [Next]_vars => [Slots!Next]_tx
  BY SlotsNext
<1> QED BY <1>1, <1>2, TypeCorrect, PTL DEF Spec, ImplementsSlots, Slots!Spec
-----------------------------------------------------------------------------
(* The motors follow what the controller believes of them, as long as no     *)
(* queued frame fails on the bus.                                            *)

\* A motor that is enabled and stays so, or that is about to be enabled.
Held(a) == tx[a] = "on" \/ (motor[a] # "idle" /\ tx[a] # "stop")

\* A START that is refused half way stops yaw while it still counts as enabled;
\* the fault that follows forgets that.
DriveInv ==
    /\ PositionToEnabledMotor
    /\ state \in Armed => Held(Pitch)
    /\ state \in Armed /\ pc # "fault" => \A a \in enabled : Held(a)
    /\ state = "CENTERING" => enabled = Axis

\* A held axis stays held when its slot takes any frame but a stop.
LEMMA HeldKept ==
    ASSUME NEW a \in Axis, Held(a), motor' = motor,
           \/ tx'[a] = tx[a]
           \/ tx[a] = "none" /\ tx'[a] \in {"on", "query", "pos"}
    PROVE  Held(a)'
BY DEF Held

LEMMA InitDrive == Init => DriveInv
BY DEF Init, DriveInv, PositionToEnabledMotor, Armed

LEMMA TickDrive ==
    ASSUME TypeOK, SupervisionInv, DriveInv, Tick
    PROVE  DriveInv'
<1> USE DEF DriveInv, PositionToEnabledMotor, Armed
<1>1. motor' = motor
  BY TickFrame
<1>2. enabled \subseteq Axis /\ dirty \subseteq Axis
  BY DEF TypeOK, ControlTypeOK
<1>3. CASE StartAccepted
  BY <1>1, <1>3 DEF StartAccepted, Queue
<1>4. CASE StartRefused
  <2>1. /\ UNCHANGED <<state, enabled>> /\ tx'["pitch"] = tx["pitch"]
        /\ tx'["yaw"] \in {tx["yaw"], "stop"}
        /\ state \in Armed => pc' = "fault"
    BY <1>4 DEF StartRefused, RestartPlan, FaultPlace, Queue, drive
  <2> QED BY <1>1, <2>1 DEF Held
<1>5. CASE Enable
  <2>1. \/ state' = "CENTERING" /\ enabled' = Axis /\ tx' = Queue(Axis, "on")
        \/ state' = "WAITING" /\ \E A \in SUBSET Axis : tx' = Queue(A, "on")
    BY <1>5 DEF Enable, Proven, Ticking, Accepts
  <2> QED BY <1>1, <2>1 DEF Queue, Held
<1>6. CASE BootProbe \/ AskPosition
  <2>1. state' = state /\ state \notin Armed
        /\ \A a \in Axis : tx'[a] = "query" \/ tx'[a] = tx[a]
    BY <1>6 DEF BootProbe, AskPosition, Ticking, Queue
  <2> QED BY <1>1, <2>1
<1>7. CASE \/ NothingToDo \/ AwaitTx \/ OutsideAtStart \/ SupervisionFault
           \/ ToMotion \/ AwaitCommand \/ KeepCentering
  <2>1. UNCHANGED <<state, enabled, tx>> /\ pc # "fault"
    BY <1>7 DEF NothingToDo, AwaitTx, OutsideAtStart, Proven, Ticking,
                SupervisionFault, ToMotion, AwaitCommand, KeepCentering, drive, bus
  <2> QED BY <1>1, <2>1 DEF Held
<1>8. CASE BecomeReady
  <2>1. UNCHANGED <<enabled, tx>> /\ pc # "fault" /\ state' = "READY" /\ state \in Armed
    BY <1>8 DEF BecomeReady, SupervisionInv, bus
  <2> QED BY <1>1, <2>1 DEF Held
<1>9. CASE ReleaseYaw \/ StopYawAtTarget
  <2>1. /\ state' = state /\ state = "READY" /\ pc # "fault"
        /\ tx'["pitch"] = tx["pitch"]
        /\ \/ tx'["yaw"] = "stop" /\ enabled' = enabled \ {"yaw"}
           \/ tx' = tx /\ enabled' = enabled
    <3>1. /\ tx \in [Axis -> Frames] /\ Queue({Yaw}, "stop")["yaw"] = "stop"
          /\ Queue({Yaw}, "stop")["pitch"] = tx["pitch"]
      BY DEF Queue, TypeOK, BusTypeOK
    <3>2. Queue({}, "stop") = tx
      BY <3>1 DEF Queue
    <3>3. \A A \in Accepts({Yaw}) : A = {Yaw} \/ A = {}
      BY DEF Accepts
    <3>4. CASE ReleaseYaw
      BY <3>1, <3>2, <3>3, <3>4 DEF ReleaseYaw, Ticking, Released, Disable, drive
    <3>5. CASE StopYawAtTarget
      BY <3>1, <3>2, <3>3, <3>5 DEF StopYawAtTarget, Ticking, Disable
    <3> QED BY <1>9, <3>4, <3>5
  <2> QED BY <1>1, <1>2, <2>1 DEF Held
<1>10. CASE CommandHome \/ CommandTargets
  <2>1. /\ state' = state /\ state \in Armed /\ enabled' = enabled /\ pc # "fault"
        /\ \A a \in Axis : \/ tx'[a] = tx[a]
                           \/ tx[a] = "none" /\ tx'[a] = "pos" /\ a \in enabled
    <3>1. CASE CommandHome
      BY <3>1 DEF CommandHome, Accepts, Moves, Queue, TxPending
    <3>2. CASE CommandTargets
      BY <3>2 DEF CommandTargets, Accepts, Moves, Queue, TxPending
    <3> QED BY <1>10, <3>1, <3>2
  <2>2. \A a \in enabled : Held(a) /\ Held(a)'
    BY <1>1, <1>2, <2>1, HeldKept
  <2>3. Held(Pitch)'
    BY <1>1, <2>1, HeldKept
  <2> QED BY <1>1, <2>1, <2>2, <2>3 DEF Held
<1>11. CASE ReEnable
  <2>1. PICK A \in Accepts(dirty \ enabled) :
            tx' = Queue(A, "on") /\ enabled' = enabled \cup A
    BY <1>11 DEF ReEnable, RecordEnabled
  <2>2. /\ state' = state /\ state = "READY" /\ pc # "fault"
        /\ \A a \in Axis : \/ tx'[a] = tx[a] /\ a \notin A
                           \/ tx[a] = "none" /\ tx'[a] = "on" /\ a \in A
    BY <1>11, <2>1 DEF ReEnable, Accepts, Queue, TxPending
  <2>3. \A a \in enabled : Held(a) /\ Held(a)'
    BY <1>1, <1>2, <2>2, HeldKept
  <2>4. Held(Pitch)'
    BY <1>1, <2>2, HeldKept
  <2>5. \A a \in A : a \in Axis /\ Held(a)'
    BY <1>2, <2>1, <2>2 DEF Held, Accepts
  <2> QED BY <1>1, <2>1, <2>2, <2>3, <2>4, <2>5
<1>12. CASE Poll
  <2>1. /\ UNCHANGED <<state, enabled>> /\ pc # "fault"
        /\ \A a \in Axis : \/ tx'[a] = tx[a]
                           \/ tx[a] = "none" /\ tx'[a] = "query"
    BY <1>12 DEF Poll, Accepts, Queue, TxPending, drive
  <2>2. \A a \in Axis : Held(a) => Held(a)'
    BY <1>1, <2>1, HeldKept
  <2> QED BY <1>1, <1>2, <2>1, <2>2
<1>13. CASE FaultStop
  <2>1. state' = "FAULT" /\ \A a \in Axis : tx'[a] = "stop" \/ tx'[a] = tx[a]
    BY <1>13 DEF FaultStop, Queue
  <2> QED BY <1>1, <2>1
<1> QED
  BY <1>3, <1>4, <1>5, <1>6, <1>7, <1>8, <1>9, <1>10, <1>11, <1>12, <1>13 DEF Tick

\* Without failures on the bus a frame that leaves its slot was obeyed.
LEMMA CompleteDrive ==
    ASSUME ~MayFail, TypeOK, DriveInv, NEW a \in Axis, TxComplete(a)
    PROVE  DriveInv'
<1>1. /\ tx'[a] = "none" /\ motor'[a] = Obey(motor[a], tx[a])
      /\ \A b \in Axis \ {a} : tx'[b] = tx[b] /\ motor'[b] = motor[b]
  BY DEF TxComplete, TypeOK, BusTypeOK
<1>2. UNCHANGED <<pc, state, enabled>>
  BY DEF TxComplete, drive
<1>3. \A b \in Axis : Held(b) => Held(b)'
  BY <1>1 DEF Held, Obey
<1>4. enabled \subseteq Axis
  BY DEF TypeOK, ControlTypeOK
<1> QED BY <1>1, <1>2, <1>3, <1>4 DEF DriveInv, PositionToEnabledMotor

LEMMA NextDrive ==
    ASSUME ~MayFail, TypeOK, SupervisionInv, DriveInv, [Next]_vars
    PROVE  DriveInv'
<1>1. CASE Tick
  BY <1>1, TickDrive
<1>2. ASSUME NEW a \in Axis, TxComplete(a) PROVE DriveInv'
  BY <1>2, CompleteDrive
<1>3. CASE Reboot
  BY <1>3 DEF Reboot, DriveInv, PositionToEnabledMotor, Armed
<1>4. CASE \/ UNCHANGED vars \/ DrainDone \/ UiThread \/ Receive
           \/ (\E a \in Axis : LoseReply(a)) \/ \E d \in Elapse : Wake(d)
  <2>1. /\ UNCHANGED <<state, enabled, tx, motor>>
        /\ pc' = pc \/ pc # "fault"
    BY <1>4 DEF vars, DrainDone, UiThread, PressButton, SetTarget, LoseReply,
                Receive, ProcessFrame, Wake, drive, bus
  <2> QED BY <2>1 DEF DriveInv, PositionToEnabledMotor, Held
<1> QED
  BY <1>1, <1>2, <1>3, <1>4 DEF Next, MotorThread, Interrupt, Environment

LEMMA SpecDrive == ASSUME ~MayFail PROVE Spec => [](TypeOK /\ SupervisionInv /\ DriveInv)
<1>1. TypeOK /\ SupervisionInv /\ DriveInv /\ [Next]_vars => DriveInv'
  BY NextDrive
<1> QED BY <1>1, SpecSupervision, InitDrive, PTL DEF Spec

\* If no queued frame fails, an incremental 0xA8 is never on its way to a motor
\* that was stopped: a released yaw is enabled again first (README.md:59).
THEOREM PositionsGoToEnabledMotors == ~MayFail => (Spec => []PositionToEnabledMotor)
<1> SUFFICES ASSUME ~MayFail PROVE Spec => []PositionToEnabledMotor
  OBVIOUS
<1>1. DriveInv => PositionToEnabledMotor
  BY DEF DriveInv
<1> QED BY <1>1, SpecDrive, PTL

\* If no queued frame fails, pitch is held throughout READY, over every request,
\* refused frame, restart and lost reply (gimbal.c:276-278).
THEOREM PitchIsHeld == ~MayFail => (Spec => []PitchHolds)
<1> SUFFICES ASSUME ~MayFail PROVE Spec => []PitchHolds
  OBVIOUS
<1>1. DriveInv => PitchHolds
  BY DEF DriveInv, PitchHolds, Held, Armed
<1> QED BY <1>1, SpecDrive, PTL
=============================================================================
