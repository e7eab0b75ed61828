------------------------------- MODULE Gimbal -------------------------------
(***************************************************************************)
(* The two-axis gimbal controller of projects/can_driver_ms: the state     *)
(* machine of gimbal.c, run by the motor thread of main.c, over the        *)
(* one-frame-per-motor asynchronous CAN transmission of lkm_motor.c.       *)
(*                                                                         *)
(* Three contexts interleave.  The motor thread holds gimbal_mutex from    *)
(* the moment it wakes until it sleeps again; "pc" is the place it has     *)
(* reached inside that critical section.  The UI thread runs only while    *)
(* the mutex is free.  The CAN driver's transmit interrupt (tx_complete)   *)
(* takes no lock, and runs between any two steps of the motor thread.      *)
(*                                                                         *)
(* Time: the code compares differences of k_uptime_get() with constants.   *)
(* The model keeps those differences as ages, each of which stops counting *)
(* just past the largest constant it is compared with.                     *)
(***************************************************************************)
EXTENDS Integers, FiniteSets

CONSTANTS
    ControlPeriod,      \* APP_CONTROL_PERIOD_MS
    QueryGap,           \* GIMBAL_FEEDBACK_QUERY_GAP_MS
    FeedbackPoll,       \* GIMBAL_FEEDBACK_POLL_MS
    ProbePeriod,        \* GIMBAL_DISARM_PROBE_PERIOD_MS
    StartMaxAge,        \* GIMBAL_START_FEEDBACK_MAX_AGE_MS
    FeedbackStale,      \* GIMBAL_FEEDBACK_STALE_MS
    BootDelay,          \* GIMBAL_MOTOR_BOOT_DELAY_MS
    FeedbackTimeout,    \* GIMBAL_FEEDBACK_TIMEOUT_MS
    CenterTimeout,      \* GIMBAL_CENTER_TIMEOUT_MS
    Elapse,             \* how long one turn of the motor loop may take
    HardMin, HardMax, CtlMin, CtlMax, Center,   \* per axis, in degrees
    Margin, CenterTol, Divergence, Deadband, IdleTol,
    Feedback,           \* the angles a 0x90 reply of each axis may carry
    Slider,             \* the angles each slider may produce
    MaxOwed,            \* bound: 0x90 replies of one motor under way
    MayRefuse,          \* can_send may return an error
    MayFail,            \* a queued frame may fail on the bus
    MayLose,            \* a reply may be lost or rejected
    MayReset,           \* the microcontroller may restart at any point
    Prompt              \* frames and replies are through before the next turn

Yaw == "yaw"
Pitch == "pitch"
Axis == {Yaw, Pitch}

ASSUME TimingAssumption ==
    /\ ControlPeriod \in Nat /\ QueryGap \in Nat /\ FeedbackPoll \in Nat
    /\ ProbePeriod \in Nat /\ StartMaxAge \in Nat /\ FeedbackStale \in Nat
    /\ BootDelay \in Nat /\ FeedbackTimeout \in Nat /\ CenterTimeout \in Nat
    /\ QueryGap <= FeedbackPoll
    /\ StartMaxAge <= FeedbackStale
    /\ BootDelay <= CenterTimeout /\ FeedbackTimeout <= CenterTimeout
    /\ FeedbackStale <= FeedbackTimeout
    /\ Elapse \subseteq Nat \ {0}

ASSUME AngleAssumption ==
    /\ HardMin \in [Axis -> Int] /\ HardMax \in [Axis -> Int]
    /\ CtlMin \in [Axis -> Int] /\ CtlMax \in [Axis -> Int]
    /\ Center \in [Axis -> Int]
    /\ Margin \in Nat /\ CenterTol \in Nat /\ Divergence \in Nat
    /\ Deadband \in Nat /\ IdleTol \in Nat
    /\ \A a \in Axis : /\ HardMin[a] <= CtlMin[a] /\ CtlMin[a] <= Center[a]
                       /\ Center[a] <= CtlMax[a] /\ CtlMax[a] <= HardMax[a]
    /\ Feedback \in [Axis -> SUBSET Int] /\ Slider \in [Axis -> SUBSET Int]

ASSUME BusAssumption ==
    /\ MaxOwed \in Nat \ {0}
    /\ MayRefuse \in BOOLEAN /\ MayFail \in BOOLEAN
    /\ MayLose \in BOOLEAN /\ MayReset \in BOOLEAN /\ Prompt \in BOOLEAN

VARIABLES
    pc,             \* where the motor thread is; "sleep": the mutex is free
    state,          \* gimbal->state
    target,         \* yaw_target_deg, pitch_target_deg
    dirty,          \* axes whose target_dirty flag is set
    enabled,        \* axes whose enabled flag is set
    moving,         \* axes whose motion_active flag is set
    requests,       \* start_requested, calibrate_requested
    idleStop,       \* idle_stop_pending
    probePitch,     \* probe_pitch_next
    startError,     \* centering_start_*_error_deg
    stateAge, motionAge, queryAge, probeAge,    \* now_ms minus the timestamps
    valid,          \* axes whose feedback_valid flag is set
    fbAge,          \* now_ms - last_feedback_ms
    angle,          \* angle_deg
    tx,             \* the frame each motor has outstanding (tx_pending)
    motor,          \* external: what each motor is doing
    owed,           \* external: 0x90 replies under way to the receive queue
    served          \* history: axes whose current target was commanded

timers == <<stateAge, motionAge, queryAge, probeAge>>
feedback == <<valid, fbAge, angle>>
plan == <<target, dirty, served>>
drive == <<enabled, moving, idleStop>>
bus == <<tx, motor, owed>>
rest == <<requests, probePitch, startError>>
vars == <<pc, state, plan, drive, rest, timers, feedback, bus>>

States == {"BOOT", "WAITING", "CENTERING", "READY", "FAULT"}
Armed == {"CENTERING", "READY"}
Places == {"sleep", "drain", "tick", "motion", "center", "fault"}
Frames == {"none", "stop", "on", "query", "pos"}
MotorModes == {"idle", "on", "driven"}

-----------------------------------------------------------------------------
(* Helpers *)

Abs(x) == IF x < 0 THEN -x ELSE x

\* An age d later, counted no further than limit.
Older(age, d, limit) == IF age + d > limit THEN limit ELSE age + d

StateAgeCap == CenterTimeout + 1
FbAgeCap == FeedbackStale + 1

\* Mutant: feedback that was once valid is fresh for ever.
FreshForEver(a, maxAge) == a \in valid

\* lkm_motor_feedback_fresh
Fresh(a, maxAge) == a \in valid /\ fbAge[a] <= maxAge
BothFresh(maxAge) == \A a \in Axis : Fresh(a, maxAge)

\* inside_hard_limits
InsideHardLimits(a) ==
    /\ angle[a] >= HardMin[a] - Margin
    /\ angle[a] <= HardMax[a] + Margin

Error(a) == Abs(angle[a] - Center[a])

TxPending(a) == tx[a] # "none"
BusIdle == \A a \in Axis : ~TxPending(a)

\* Mutant: a motor that has a frame outstanding is sent another one.
AcceptsAlways(S) == {A \in SUBSET S : MayRefuse \/ A = S}
\* What send_frame may accept when a frame is offered to each axis of S: an
\* outstanding frame means -EBUSY, and can_send itself may refuse.
Accepts(S) ==
    LET free == {a \in S : ~TxPending(a)}
    IN  {A \in SUBSET free : MayRefuse \/ A = free}

Queue(A, frame) == [a \in Axis |-> IF a \in A THEN frame ELSE tx[a]]

\* enter_fault: the stops are sent (pc "fault") unless the fault is latched.
FaultPlace == IF state = "FAULT" THEN "sleep" ELSE "fault"

\* Mutant: the modes are served before a request is looked at.
TickingFirst(S) == pc = "tick" /\ state \in S
Ticking(S) == pc = "tick" /\ requests = {} /\ state \in S

-----------------------------------------------------------------------------
(* gimbal_init; a touch controller that does not answer leaves FAULT latched *)

Init ==
    /\ pc = "sleep"
    /\ state \in {"BOOT", "FAULT"}
    /\ target = Center
    /\ dirty = Axis /\ enabled = {} /\ moving = {} /\ served = {}
    /\ requests = {} /\ idleStop = FALSE /\ probePitch = FALSE
    /\ startError = [a \in Axis |-> 0]
    /\ stateAge = 0 /\ motionAge = ControlPeriod /\ queryAge = FeedbackPoll
    /\ probeAge = 0
    /\ valid = {} /\ fbAge = [a \in Axis |-> FbAgeCap]
    /\ angle = [a \in Axis |-> 0]
    /\ tx = [a \in Axis |-> "none"]
    /\ owed = [a \in Axis |-> 0]
    /\ motor = [a \in Axis |-> "idle"]

-----------------------------------------------------------------------------
(* The motor thread: motor_task *)

\* A turn of the loop starts d later; it reads the clock and takes the mutex.
Wake(d) ==
    /\ pc = "sleep"
    /\ Prompt => BusIdle
    /\ pc' = "drain"
    /\ stateAge' = Older(stateAge, d, StateAgeCap)
    /\ motionAge' = Older(motionAge, d, ControlPeriod)
    /\ queryAge' = Older(queryAge, d, FeedbackPoll)
    /\ probeAge' = Older(probeAge, d, ProbePeriod)
    /\ fbAge' = [a \in Axis |-> Older(fbAge[a], d, FbAgeCap)]
    /\ UNCHANGED <<state, plan, drive, rest, valid, angle, bus>>

\* A 0x90 reply is taken from the receive queue (gimbal_process_frame).
ProcessFrame(a, deg) ==
    /\ pc = "drain" /\ owed[a] > 0
    /\ owed' = [owed EXCEPT ![a] = @ - 1]
    /\ angle' = [angle EXCEPT ![a] = deg]
    /\ fbAge' = [fbAge EXCEPT ![a] = 0]
    /\ valid' = valid \cup {a}
    /\ UNCHANGED <<pc, state, plan, drive, rest, timers, tx, motor>>

\* The queue is empty: gimbal_tick begins.
DrainDone ==
    /\ pc = "drain"
    /\ Prompt => \A a \in Axis : owed[a] = 0
    /\ pc' = "tick"
    /\ UNCHANGED <<state, plan, drive, rest, timers, feedback, bus>>

-----------------------------------------------------------------------------
(* gimbal_tick: a START or CALIBRATE request, gimbal_start *)

\* Mutant: cached feedback survives the request.
KeepFeedback == UNCHANGED valid
\* A retry must be based on fresh replies, never cached ones.
ForgetFeedback == valid' = {}

\* Mutant: the first query is due one gap too late.
StartClockLate == stateAge' = 0 /\ queryAge' = -QueryGap
\* Mutant: the timeout still counts from the previous state.
StartClockOld == queryAge' = QueryGap /\ UNCHANGED stateAge
\* The check starts now; its first query is due at once.
StartClock == stateAge' = 0 /\ queryAge' = QueryGap

\* What gimbal_start does before its first frame.
RestartPlan ==
    /\ pc = "tick" /\ requests # {}
    /\ requests' = {}
    /\ target' = Center /\ dirty' = Axis /\ served' = {}
    /\ ForgetFeedback
    /\ UNCHANGED <<probeAge, motionAge, fbAge, angle, motor, owed, startError>>

StartAccepted ==
    /\ RestartPlan
    /\ Axis \in Accepts(Axis)
    /\ tx' = Queue(Axis, "stop")
    /\ pc' = "sleep" /\ state' = "WAITING"
    /\ enabled' = {} /\ moving' = {} /\ idleStop' = FALSE
    /\ StartClock /\ probePitch' = FALSE

\* Pitch is offered its stop only after yaw's was accepted.
StartRefused ==
    /\ RestartPlan
    /\ \E A \in Accepts(Axis) \ {Axis} : tx' = Queue(A \cap {Yaw}, "stop")
    /\ pc' = FaultPlace
    /\ UNCHANGED <<state, drive, stateAge, queryAge, probePitch>>

-----------------------------------------------------------------------------
(* gimbal_tick: BOOT and FAULT *)

\* The axis whose turn it is to be asked.
Probed == IF probePitch THEN Pitch ELSE Yaw

BootProbe ==
    /\ Ticking({"BOOT"})
    /\ stateAge >= BootDelay /\ probeAge >= ProbePeriod
    /\ \E A \in Accepts({Probed}) : tx' = Queue(A, "query")
    /\ probePitch' = ~probePitch /\ probeAge' = 0
    /\ pc' = "sleep"
    /\ UNCHANGED <<state, plan, drive, requests, startError, stateAge,
                   motionAge, queryAge, feedback, motor, owed>>

NothingToDo ==
    /\ \/ Ticking({"FAULT"})
       \/ Ticking({"BOOT"}) /\ (stateAge < BootDelay \/ probeAge < ProbePeriod)
    /\ pc' = "sleep"
    /\ UNCHANGED <<state, plan, drive, rest, timers, feedback, bus>>

-----------------------------------------------------------------------------
(* gimbal_tick: WAITING_FOR_FEEDBACK *)

\* Mutant: any feedback since the request proves an axis, however old.
ProvenOnce == Ticking({"WAITING"}) /\ valid = Axis

Proven == Ticking({"WAITING"}) /\ BothFresh(StartMaxAge)

\* Mutant: the feedback timeout is forgotten.
FeedbackNeverLate == FALSE
FeedbackLate == stateAge > FeedbackTimeout

\* Both positions are known: wait for outstanding frames, within the timeout.
AwaitTx ==
    /\ Proven /\ ~BusIdle
    /\ pc' = IF FeedbackLate THEN "fault" ELSE "sleep"
    /\ UNCHANGED <<state, plan, drive, rest, timers, feedback, bus>>

OutsideAtStart ==
    /\ Proven /\ BusIdle
    /\ \E a \in Axis : ~InsideHardLimits(a)
    /\ pc' = "fault"
    /\ UNCHANGED <<state, plan, drive, rest, timers, feedback, bus>>

Enable ==
    /\ Proven /\ BusIdle
    /\ \A a \in Axis : InsideHardLimits(a)
    /\ \E A \in Accepts(Axis) :
        /\ tx' = Queue(A, "on")
        /\ IF A = Axis
           THEN /\ pc' = "sleep" /\ state' = "CENTERING"
                /\ enabled' = Axis /\ dirty' = Axis /\ served' = {}
                /\ stateAge' = 0 /\ motionAge' = 0
           ELSE /\ pc' = "fault"
                /\ UNCHANGED <<state, enabled, dirty, served, stateAge, motionAge>>
    /\ UNCHANGED <<target, moving, idleStop, rest, queryAge, probeAge, feedback,
                   motor, owed>>

\* One axis after the other is asked for its position.
AskPosition ==
    /\ Ticking({"WAITING"}) /\ ~BothFresh(StartMaxAge)
    /\ IF queryAge >= QueryGap
       THEN /\ \E A \in Accepts({Probed}) : tx' = Queue(A, "query")
            /\ probePitch' = ~probePitch /\ queryAge' = 0
       ELSE UNCHANGED <<tx, probePitch, queryAge>>
    /\ pc' = IF FeedbackLate THEN "fault" ELSE "sleep"
    /\ UNCHANGED <<state, plan, drive, requests, startError, stateAge,
                   motionAge, probeAge, feedback, motor, owed>>

-----------------------------------------------------------------------------
(* gimbal_tick: supervision of CENTERING and READY *)

\* Mutant: the mechanical range is not watched.
SupervisedFreshOnly == BothFresh(FeedbackStale)

Supervised == BothFresh(FeedbackStale) /\ \A a \in Axis : InsideHardLimits(a)

\* Feedback went stale, or an axis left its mechanical range.
SupervisionFault ==
    /\ Ticking(Armed) /\ ~Supervised
    /\ pc' = "fault"
    /\ UNCHANGED <<state, plan, drive, rest, timers, feedback, bus>>

\* Mutant: pitch is released as well.
ReleasedBoth == Axis
\* Yaw is released at rest; pitch holds against gravity.
Released == {Yaw}

\* Mutant: the axis still counts as enabled.
DisableUnrecorded(S) == UNCHANGED enabled
Disable(S) == enabled' = enabled \ S

\* idle_stop_pending: yaw is released once, when READY is entered.
ReleaseYaw ==
    /\ Ticking({"READY"}) /\ Supervised /\ idleStop
    /\ \/ ~BusIdle /\ pc' = "sleep" /\ UNCHANGED <<drive, motionAge, tx>>
       \/ /\ BusIdle
          /\ \E A \in Accepts(Released) :
              /\ tx' = Queue(A, "stop")
              /\ IF A = Released
                 THEN /\ Disable(Released) /\ moving' = {}
                      /\ idleStop' = FALSE /\ motionAge' = 0
                      /\ pc' = "sleep"
                 ELSE pc' = "fault" /\ UNCHANGED <<drive, motionAge>>
    /\ UNCHANGED <<state, plan, rest, stateAge, queryAge, probeAge, feedback,
                   motor, owed>>

AtRest(a) ==
    /\ a \in moving /\ a \notin dirty
    /\ Abs(angle[a] - target[a]) <= IdleTol

RestedPitch == {a \in {Pitch} : AtRest(a)}

\* Yaw has reached its target: 0x81, and nothing else this turn.
StopYawAtTarget ==
    /\ Ticking({"READY"}) /\ Supervised /\ ~idleStop
    /\ AtRest(Yaw) /\ ~TxPending(Yaw)
    /\ \E A \in Accepts({Yaw}) :
        /\ tx' = Queue(A, "stop")
        /\ IF A = {Yaw}
           THEN /\ moving' = moving \ ({Yaw} \cup RestedPitch)
                /\ Disable({Yaw}) /\ motionAge' = 0
                /\ pc' = "sleep"
           ELSE pc' = "fault" /\ UNCHANGED <<moving, enabled, motionAge>>
    /\ UNCHANGED <<state, plan, idleStop, rest, stateAge, queryAge, probeAge,
                   feedback, motor, owed>>

\* Nothing to stop: on to the motion commands.
ToMotion ==
    /\ Ticking(Armed) /\ Supervised
    /\ state = "READY" => ~idleStop /\ ~(AtRest(Yaw) /\ ~TxPending(Yaw))
    /\ moving' = IF state = "READY" THEN moving \ RestedPitch ELSE moving
    /\ pc' = "motion"
    /\ UNCHANGED <<state, plan, enabled, idleStop, rest, timers, feedback, bus>>

-----------------------------------------------------------------------------
(* gimbal_tick: motion commands and the feedback poll *)

\* lkm_motor_set_position: refused (-ERANGE, -EAGAIN), nothing to send because
\* the axis is there already, or one incremental 0xA8.
Settable(a) == target[a] \in HardMin[a] .. HardMax[a] /\ a \in valid
Moves(S) == {a \in S : Settable(a) /\ angle[a] # target[a]}
Succeeds(S, A) == {a \in S : Settable(a)} \ (Moves(S) \ A)

\* Mutant: a command waits until both targets have changed.
CommandDueBoth == dirty = Axis /\ motionAge >= ControlPeriod
CommandDue == dirty # {} /\ motionAge >= ControlPeriod

\* Mutant: they stay pending, and their increments are sent again.
KeepTargets == UNCHANGED dirty
\* The changes have been commanded.
ClearTargets == dirty' = {}

RecordEnabled(A) == enabled' = enabled \cup A

\* CENTERING: send_targets commands both axes home together.
CommandHome ==
    /\ pc = "motion" /\ state = "CENTERING" /\ CommandDue /\ BusIdle
    /\ \E A \in Accepts(Moves(Axis)) :
        /\ tx' = Queue(A, "pos") /\ served' = served \cup Succeeds(Axis, A)
        /\ IF Succeeds(Axis, A) = Axis
           THEN /\ ClearTargets /\ moving' = Axis /\ motionAge' = 0
                /\ startError' = [a \in Axis |-> Error(a)]
                /\ pc' = "center"
           ELSE pc' = "fault" /\ UNCHANGED <<dirty, moving, motionAge, startError>>
    /\ UNCHANGED <<state, target, enabled, idleStop, requests, probePitch,
                   stateAge, queryAge, probeAge, feedback, motor, owed>>

\* READY: a released axis is enabled first, and commanded in a later turn.
ReEnable ==
    /\ pc = "motion" /\ state = "READY" /\ CommandDue
    /\ \A a \in dirty : ~TxPending(a)
    /\ dirty \ enabled # {}
    /\ \E A \in Accepts(dirty \ enabled) :
        /\ tx' = Queue(A, "on") /\ RecordEnabled(A)
        /\ IF A = dirty \ enabled
           THEN pc' = "sleep" /\ motionAge' = 0
           ELSE pc' = "fault" /\ UNCHANGED motionAge
    /\ UNCHANGED <<state, plan, moving, idleStop, rest, stateAge, queryAge,
                   probeAge, feedback, motor, owed>>

CommandTargets ==
    /\ pc = "motion" /\ state = "READY" /\ CommandDue
    /\ \A a \in dirty : ~TxPending(a)
    /\ dirty \subseteq enabled
    /\ \E A \in Accepts(Moves(dirty)) :
        /\ tx' = Queue(A, "pos") /\ served' = served \cup Succeeds(dirty, A)
        /\ moving' = moving \cup Succeeds(dirty, A)
        /\ IF Succeeds(dirty, A) = dirty
           THEN pc' = "sleep" /\ ClearTargets /\ motionAge' = 0
           ELSE pc' = "fault" /\ UNCHANGED <<dirty, motionAge>>
    /\ UNCHANGED <<state, target, enabled, idleStop, rest, stateAge, queryAge,
                   probeAge, feedback, motor, owed>>

\* A command is due, but an earlier frame is still outstanding.
AwaitCommand ==
    /\ pc = "motion" /\ CommandDue
    /\ \E a \in IF state = "CENTERING" THEN Axis ELSE dirty : TxPending(a)
    /\ pc' = "sleep"
    /\ UNCHANGED <<state, plan, drive, rest, timers, feedback, bus>>

AfterMotion == IF state = "CENTERING" THEN "center" ELSE "sleep"

\* No command is due: the positions of both axes are polled, or it is too early.
Poll ==
    /\ pc = "motion" /\ ~CommandDue
    /\ \/ /\ queryAge >= FeedbackPoll
          /\ \E A \in Accepts(Axis) :
              /\ tx' = Queue(A, "query")
              /\ IF \A a \in Axis : a \in A \/ TxPending(a)
                 THEN pc' = AfterMotion /\ queryAge' = 0
                 ELSE pc' = "fault" /\ UNCHANGED queryAge
       \/ /\ queryAge < FeedbackPoll
          /\ pc' = AfterMotion
          /\ UNCHANGED <<tx, queryAge>>
    /\ UNCHANGED <<state, plan, drive, rest, stateAge, motionAge, probeAge,
                   feedback, motor, owed>>

Diverged ==
    dirty = {} /\ \E a \in Axis : Error(a) > startError[a] + Divergence
\* Mutant: the centering timeout is forgotten.
CenteringNeverLate == FALSE
CenteringLate == stateAge > CenterTimeout
Centered == \A a \in Axis : Error(a) <= CenterTol

\* The outcome of centering: diverged, arrived, too late, or not yet.
BecomeReady ==
    /\ pc = "center" /\ ~Diverged /\ Centered
    /\ pc' = "sleep" /\ state' = "READY"
    /\ dirty' = {} /\ idleStop' = TRUE /\ stateAge' = 0
    /\ UNCHANGED <<target, served, enabled, moving, rest, motionAge, queryAge,
                   probeAge, feedback, bus>>

KeepCentering ==
    /\ pc = "center"
    /\ Diverged \/ ~Centered
    /\ pc' = IF Diverged \/ CenteringLate THEN "fault" ELSE "sleep"
    /\ UNCHANGED <<state, plan, drive, rest, timers, feedback, bus>>

\* enter_fault: each motor is offered one stop; the results are ignored.
FaultStop ==
    /\ pc = "fault"
    /\ \E A \in Accepts(Axis) : tx' = Queue(A, "stop")
    /\ state' = "FAULT" /\ pc' = "sleep"
    /\ UNCHANGED <<plan, drive, rest, timers, feedback, motor, owed>>

-----------------------------------------------------------------------------
(* The transmit interrupt, and what the motors do with a frame *)

\* What a motor does with a frame: 0x81 releases it, 0x88 enables it, and 0xA8
\* drives it only if it is enabled.
Obey(mode, frame) ==
    IF frame = "stop" THEN "idle"
    ELSE IF frame = "on" /\ mode = "idle" THEN "on"
    ELSE IF frame = "pos" /\ mode # "idle" THEN "driven"
    ELSE mode

\* tx_complete: the frame was received, or given up.  0x90 is answered.
TxComplete(a) ==
    /\ TxPending(a)
    /\ tx' = [tx EXCEPT ![a] = "none"]
    /\ \/ /\ motor' = [motor EXCEPT ![a] = Obey(@, tx[a])]
          /\ owed' = [owed EXCEPT ![a] =
                 IF tx[a] = "query" /\ @ < MaxOwed THEN @ + 1 ELSE @]
       \/ MayFail /\ UNCHANGED <<motor, owed>>
    /\ UNCHANGED <<pc, state, plan, drive, rest, timers, feedback>>

\* A reply is lost, or rejected by lkm_motor_process_frame.
LoseReply(a) ==
    /\ MayLose /\ owed[a] > 0
    /\ owed' = [owed EXCEPT ![a] = @ - 1]
    /\ UNCHANGED <<pc, state, plan, drive, rest, timers, feedback, tx, motor>>

\* The microcontroller restarts; the motors have their own power.
Reboot ==
    /\ MayReset
    /\ pc' = "sleep"
    /\ state' \in {"BOOT", "FAULT"}
    /\ target' = Center
    /\ dirty' = Axis /\ enabled' = {} /\ moving' = {} /\ served' = {}
    /\ requests' = {} /\ idleStop' = FALSE /\ probePitch' = FALSE
    /\ startError' = [a \in Axis |-> 0]
    /\ stateAge' = 0 /\ motionAge' = ControlPeriod /\ queryAge' = FeedbackPoll
    /\ probeAge' = 0
    /\ valid' = {} /\ fbAge' = [a \in Axis |-> FbAgeCap]
    /\ angle' = [a \in Axis |-> 0]
    /\ tx' = [a \in Axis |-> "none"]
    /\ owed' = [a \in Axis |-> 0]
    /\ UNCHANGED motor

-----------------------------------------------------------------------------
(* The UI thread: round_ui_handle_touch *)

PressButton ==
    /\ pc = "sleep"
    /\ requests' = requests \cup {IF state = "BOOT" THEN "start" ELSE "calibrate"}
    /\ UNCHANGED <<pc, state, plan, drive, probePitch, startError, timers,
                   feedback, bus>>

\* Mutant: a change to where the axis happens to be is not marked.
MarkDirtyIfAway(a, deg) ==
    dirty' = IF angle[a] = deg THEN dirty ELSE dirty \cup {a}
\* The changed axis has a command pending.
MarkDirty(a, deg) == dirty' = dirty \cup {a}

\* gimbal_set_yaw_target, gimbal_set_pitch_target
SetTarget(a, deg) ==
    /\ pc = "sleep" /\ state = "READY"
    /\ deg \in CtlMin[a] .. CtlMax[a]
    /\ Abs(deg - target[a]) >= Deadband
    /\ target' = [target EXCEPT ![a] = deg]
    /\ MarkDirty(a, deg) /\ served' = served \ {a}
    /\ UNCHANGED <<pc, state, drive, rest, timers, feedback, bus>>

-----------------------------------------------------------------------------
Tick ==
    \/ StartAccepted \/ StartRefused \/ BootProbe \/ NothingToDo
    \/ AwaitTx \/ OutsideAtStart \/ Enable \/ AskPosition
    \/ SupervisionFault \/ ReleaseYaw \/ StopYawAtTarget \/ ToMotion
    \/ CommandHome \/ ReEnable \/ CommandTargets \/ AwaitCommand \/ Poll
    \/ BecomeReady \/ KeepCentering \/ FaultStop

Receive == \E a \in Axis : \E deg \in Feedback[a] : ProcessFrame(a, deg)

MotorThread == (\E d \in Elapse : Wake(d)) \/ Receive \/ DrainDone \/ Tick

Interrupt == \E a \in Axis : TxComplete(a)
Environment == (\E a \in Axis : LoseReply(a)) \/ Reboot
UiThread == PressButton \/ \E a \in Axis : \E deg \in Slider[a] : SetTarget(a, deg)

Next == MotorThread \/ Interrupt \/ Environment \/ UiThread

Spec == Init /\ [][Next]_vars

\* The motor thread has the highest application priority and k_msleep always
\* returns.  Nothing is assumed of the bus: a frame may stay outstanding for
\* ever, as it does when a motor is absent.
FairSpec == Spec /\ WF_vars(MotorThread)

-----------------------------------------------------------------------------
(* Properties *)

ControlTypeOK ==
    /\ pc \in Places /\ state \in States
    /\ target \in [Axis -> Int] /\ startError \in [Axis -> Int]
    /\ dirty \subseteq Axis /\ enabled \subseteq Axis /\ moving \subseteq Axis
    /\ served \subseteq Axis
    /\ requests \subseteq {"start", "calibrate"}
    /\ idleStop \in BOOLEAN /\ probePitch \in BOOLEAN

AgesTypeOK ==
    /\ stateAge \in 0 .. StateAgeCap /\ motionAge \in 0 .. ControlPeriod
    /\ queryAge \in 0 .. FeedbackPoll /\ probeAge \in 0 .. ProbePeriod

FeedbackTypeOK ==
    /\ valid \subseteq Axis
    /\ fbAge \in [Axis -> 0 .. FbAgeCap] /\ angle \in [Axis -> Int]

BusTypeOK ==
    /\ tx \in [Axis -> Frames] /\ motor \in [Axis -> MotorModes]
    /\ owed \in [Axis -> 0 .. MaxOwed]

\* Every variable has its type: the five states of enum gimbal_state, flags as
\* sets of axes, and ages that never pass their caps.
TypeOK == ControlTypeOK /\ AgesTypeOK /\ FeedbackTypeOK /\ BusTypeOK

\* What supervision must guarantee of an axis, said apart from the code's tests.
KnownSafe(a) ==
    /\ a \in valid /\ fbAge[a] <= FeedbackStale
    /\ angle[a] \in HardMin[a] - Margin .. HardMax[a] + Margin

\* No turn of the motor loop ends in an armed state (CENTERING, READY) with the
\* feedback of either axis stale or an axis outside its mechanical range
\* (gimbal_tick l.257-274, and what every later branch may do to it).
ArmedIsSupervised ==
    pc = "sleep" /\ state \in Armed => \A a \in Axis : KnownSafe(a)

\* A motor is enabled or commanded only while both axes have recent absolute
\* feedback inside the hard limits ("motion requires recent absolute 0x90
\* feedback from both axes", gimbal.c:6).
MotionGuarded ==
    [][\A a \in Axis : tx'[a] # tx[a] /\ tx'[a] \in {"on", "pos"}
                          => \A b \in Axis : KnownSafe(b)]_vars

\* While a START is being checked, feedback that counts as valid arrived after
\* the request: a cached position never proves an axis (gimbal_start l.104).
FeedbackPostdatesRequest ==
    state = "WAITING" => \A a \in valid : fbAge[a] <= stateAge

\* 0xA8 is incremental: no axis gets a second one for the same accepted target
\* ("emitted once per accepted target change", gimbal.c:7).
OncePerChange ==
    [][\A a \in Axis : tx'[a] # tx[a] /\ tx'[a] = "pos" => a \notin served]_vars

\* No accepted target is forgotten: between turns in READY, an axis with no
\* command pending was commanded to its current target, or its target is home.
NoLostTarget ==
    pc = "sleep" /\ state = "READY" =>
        \A a \in Axis \ dirty : a \in served \/ target[a] = Center[a]

\* A released yaw is enabled again before it is commanded: the motor that gets
\* an 0xA8 is not one that was stopped (README.md:59).
PositionToEnabledMotor ==
    \A a \in Axis : tx[a] = "pos" => motor[a] # "idle"

\* Pitch carries the vertical load: in READY its motor stays enabled, or its
\* enable frame is on the way (gimbal.c:276-278).
PitchHolds == state = "READY" => motor[Pitch] # "idle" \/ tx[Pitch] = "on"

\* In FAULT both motors are stopped, once no frame is outstanding ("FAULT sends
\* stop commands", README.md:41).
FaultIsStopped ==
    state = "FAULT" /\ pc = "sleep" /\ BusIdle =>
        \A a \in Axis : motor[a] # "driven"

\* FAULT is entered with no request waiting, so that only one recorded since can end
\* it: what was recorded before is answered first, whatever the turn finds
\* (gimbal_tick l.157-167 comes before every check that may fail).  A tap that is
\* still waiting for gimbal_mutex in that turn counts as later.
FaultNeedsNewRequest ==
    [][state # "FAULT" /\ state' = "FAULT" => requests' = {}]_vars

\* A START is always resolved, even when a frame never completes (l.197-203,
\* l.245-249).
StartResolves == state = "WAITING" ~> state # "WAITING" \/ requests # {}

\* Centering always ends, although a turn that finds a frame outstanding
\* returns before the centering timeout is looked at (l.327-329, l.438).
CenteringEnds == state = "CENTERING" ~> state # "CENTERING" \/ requests # {}

\* If either axis stops answering for good, the gimbal is disarmed for good.
WatchdogTrips ==
    (\E a \in Axis : <>[](fbAge[a] # 0)) => <>[](state \notin Armed)

\* In READY an accepted target is commanded, or the controller gives up READY.
TargetServed ==
    \A a \in Axis : state = "READY" /\ a \in dirty
                        ~> a \in served \/ state # "READY"

\* The controller implements its abstract modes (GimbalModes).
Modes == INSTANCE GimbalModes
    WITH mode <- state, asked <- requests # {}, supervised <- Supervised,
         pending <- dirty
ImplementsModes == Modes!Spec

\* Its sends, each a single step here, implement the transmit slots (TxSlot), as
\* the code's several steps do (LkmTransport).
Slots == INSTANCE TxSlot
    WITH Motor <- Axis, Frame <- Frames \ {"none"}, Empty <- "none", slot <- tx
ImplementsSlots == Slots!Spec
=============================================================================
