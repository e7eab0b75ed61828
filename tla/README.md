# Verification of the LK gimbal controller, its calibration firmware and the portable driver

This directory holds TLA+ models of the firmware in this repository, TLC
configurations that check them on small instances, and theorems that the TLAPS
proof system checks for every value of their constants. Paths such as
`gimbal.c` are relative to `projects/can_driver_ms/`, and `cal/...` stands for
`projects/can_driver_ms_calibration/...`.

## 1. The system

| Component | State it keeps | Operations | Talks to |
|---|---|---|---|
| Gimbal state machine (`gimbal.c`) | state, targets, dirty/enabled/moving flags, requests, timers | `gimbal_init`, `gimbal_tick`, `gimbal_process_frame`, the two requests and the two target setters | motor transport (calls), UI (shared struct) |
| LK motor transport (`lkm_motor.c`), one per motor | `tx_pending`, cached angle, its time and validity, encoder map | `lkm_motor_on/stop/set_position/read_encoder`, `send_frame`, `tx_complete`, `process_frame` | CAN driver (call; interrupt back), gimbal |
| Threads and CAN set-up (`main.c`) | receive queue, `gimbal_mutex`, motor thread | `motor_task`, UI loop in `main`, `configure_can` | all |
| Display and touch events (`round_ui.c`) | the button's highlight, the frame buffer | `round_ui_handle_touch`, `round_ui_render` | gimbal, under the mutex |
| Touch controller (`touch.c`) | whether the last poll saw a press, and where | `touch_init`, `touch_poll` | I2C and an interrupt line; `round_ui` |
| Calibration capture (`cal/src/calibration.c`) | step, six samples | `calibration_capture`, `calibration_print_result` | calibration loop |
| Calibration firmware (`cal/src/main.c`, `cal/src/lkm_motor.c`, `cal/src/round_ui.c`) | turn flag, query time, cached readings | one loop: drain, query, touch, render | CAN driver, operator |
| Portable drivers (`lkm-3506v3/`, `lkm-3008v3/`, the same code twice) | configuration, last reading | `init`, five plain commands, `set_position`, `process_frame`, `feedback_fresh`; nothing blocks | the application's send callback |

**How they interact.** In the controller three contexts run. The *motor thread*
takes `gimbal_mutex`, drains the receive queue, runs one `gimbal_tick`, releases
the mutex and sleeps. The *UI thread* takes the same mutex to press the button or
move a slider. The *transmit interrupt* (`tx_complete`) takes no lock: it clears
`tx_pending` of a motor at any moment. Each motor acts on the frames it
acknowledges and, when asked with 0x90, replies with its encoder. The calibration
firmware has one loop and the same interrupt; the operator moves the axes by hand.

**What makes it hard.**
- One frame may be outstanding per motor; anything sent meanwhile is refused with
  `-EBUSY`, so every multi-frame operation may happen half. 0xA8 is *incremental*:
  a frame sent twice moves the motor twice.
- Motion is allowed only on recent absolute feedback, which arrives by alternating
  queries with five time constants that have to fit together.
- Early returns in `gimbal_tick` skip the checks below them in that turn.
- Frames may be refused, stay outstanding for ever, fail on the bus, or lose their
  reply; the microcontroller may restart while the motors run on.
- Encoders are circular, may be mounted in either direction and at any angle.
- The increment of a motion is computed from an angle that is already old.
- Touches are polled by a thread that also writes the display: a report may be
  malformed, a lift may be missed, a write may take long.

**What makes each component correct.** The controller: it is never armed on stale
or out-of-range feedback, commands each accepted target exactly once, keeps pitch
holding, stops in FAULT, and never waits for ever. The transport: `tx_pending`
says exactly whether a frame is outstanding. The calibration: the map it prints
from captures made as asked decodes the whole travel, and one capture far from its place
is warned about; one dead motor does not block the other. The application: one press is one request, the display never delays
the motor thread, the screen does not stay stale. The axes: they go where they were
told, inside their stops. The portable driver: its angle is one the axis really had.

`PROJECT.json` lists every component and, under `hazards`, the places where this
code is hard to test, with the properties that cover each, or why none does.

## 2. The modules

| Module | Models | Used by |
|---|---|---|
| `Gimbal` | `gimbal.c` under the motor thread, the UI's events, the interrupt and the motors | `MCGimbal`, `GimbalProofs` |
| `GimbalModes` | abstract: the modes, who may leave each, and the supervision they require | refined by `Gimbal` |
| `TxSlot` | abstract: one transmit slot per motor | refined by `Gimbal` and by `LkmTransport` |
| `LkmTransport` | `send_frame` step by step against `tx_complete` | `MCTransport`, `LkmTransportProofs` |
| `GimbalPlant` | `Gimbal` with motors that move by the increments they are sent and answer with where they are; EXTENDS `Gimbal` | `PlantTiming`, `PlantProofs` |
| `PlantTiming` | how the time constants have to fit together and fit the axes; EXTENDS `GimbalPlant` | `MCPlant`, `FaultProofs` |
| `Touch` | `touch_poll`, and a finger | `GimbalApp` |
| `GimbalApp` | `main.c` and `round_ui.c`: start-up, the two threads, mutex, display; EXTENDS `Touch`, and takes the gimbal as its abstract modes, INSTANCE `GimbalModes` | `MCApp`, `AppProofs` |
| `EncoderMap` | circular differences, the derived map and its warnings | `Calibration`, `PortableDriver`, `EncoderProofs` |
| `PortableDriver` | `lkm_3506v3.c` with an application, a bus and a motor | `MCPortable`, `PortableProofs` |
| `Calibration` | the calibration firmware: loop, queries, captures, interrupt, operator | `MCCalibration`, `CalibrationProofs` |
| `GimbalProofs`, `PlantProofs`, `FaultProofs`, `LkmTransportProofs`, `EncoderProofs`, `CalibrationProofs`, `PortableProofs`, `AppProofs` | theorems about the module each one extends | |

### Gimbal

One step of the model is one path through a handler between two points where
another context may run. `pc` is the place the motor thread has reached inside
its critical section:

| `pc` | Code | Actions |
|---|---|---|
| `sleep` | mutex free | `Wake`, and the UI's `PressButton`, `SetTarget` |
| `drain` | `motor_task`: `k_msgq_get` loop | `ProcessFrame`, `DrainDone` |
| `tick` | `gimbal_tick` l.157-322 | `StartAccepted`, `StartRefused`, `BootProbe`, `NothingToDo`, `AwaitTx`, `OutsideAtStart`, `Enable`, `AskPosition`, `SupervisionFault`, `ReleaseYaw`, `StopYawAtTarget`, `ToMotion` |
| `motion` | l.324-409 | `CommandHome`, `ReEnable`, `CommandTargets`, `AwaitCommand`, `Poll` |
| `center` | l.411-441 | `BecomeReady`, `KeepCentering` |
| `fault` | `enter_fault` | `FaultStop` |

`TxComplete`, `LoseReply` and `Reboot` may run between any two of them. `tx[a]`
is the frame a motor has outstanding, "none" when `tx_pending` is false. What a
send may do is `Accepts`: the frame goes to each axis that has none outstanding,
unless `can_send` refuses. `motor` and `owed` are outside the firmware: what the
motors do, and the replies they still owe. `served` is a history variable.

Times are ages (`now_ms` minus the timestamp) that stop just past the largest
constant they are compared with, so the state space is finite and no
comparison changes. Angles are integers; speeds, `fault_reason` and logging are
left out because no state change depends on them.

### GimbalPlant

In `Gimbal` a 0x90 reply may carry any angle, which is right for safety and useless
for asking where an axis ends up. `GimbalPlant` conjoins to each action of `Gimbal`
what happens to the axes meanwhile: while the motor thread sleeps they move at
`Speed`, `PlantTick` puts the increment into the 0xA8 frame, `PlantComplete` gives
it to the motor, or adds the true position to a reply. That an increment counts
from where the axis is when the frame arrives is what `README.md` l.54 says of 0xA8
and what the comment at `lkm_motor.c` l.206 relies on. Losses and restarts are left to
`Gimbal`, which has them without the axes.

### Touch and GimbalApp

`ui` and `motor` are the places of the two threads, and a step is a path between two
points where the other thread may come in: taking the mutex, releasing it, and the
display write. `StartDisplay`, `StartDevices` and `StartThread` are `main` before its
loop, where each device may be missing. `Poll` and `PollFailed` are `touch_poll` in
its five outcomes, the `Handle...` actions the paths of `round_ui_handle_touch` under
the mutex, `CopyAndDraw` the periodic refresh, `Written` the return of
`display_write`. `MotorWake` to `MotorFault` are a turn of `motor_task`. What a turn
does to the gimbal is a step of `GimbalModes`: `Gimbal` implements that specification
(run `gimbal_live` and theorem `GimbalImplementsModes`), so that the whole of
`Gimbal` need not be carried along.

`mutex` is a Zephyr mutex: an unlock hands it to the thread that waits. `snapshot`
and `shown` tell what main has copied from what is on the screen. A coordinate is
the place it hits, "button" or "slider"; `contact` is a history of one contact of the
finger, with the requests it made and the malformed reports it met.

### PortableDriver

The driver never blocks: it hands frames to a callback and parses what the
application gives it. Each of its calls is an action; `feedback_fresh` changes nothing
and is left out. The other actions are an axis, and a bus that loses, delays and
refuses frames and carries other motors' replies. The application reads the driver's
README (l.93-97: "The application must verify current feedback ... before enabling
motion. Do not retransmit an old `0xA8` increment repeatedly") strictly: it configures
the map of the motor it has, and it moves only when the axis is at rest, the last
reading is of that place, and no increment is on its way.

### LkmTransport and TxSlot

`Gimbal` sends in one step. The code does not: it sets `tx_pending`, calls
`can_send`, and clears the flag on an error, while `tx_complete` may run as soon
as the controller has the frame, even before `can_send` returns. `LkmTransport`
has a step for each of these and implements `TxSlot`; `Gimbal` implements the same
specification, so what it assumes of a send is what the code gives.
`last_tx_error` is left out: in both firmwares only log messages depend on it.

### EncoderMap and Calibration

Counts are exact. Angles are counted from the middle of the axis, and tests of
degrees are multiplied out instead of rounded in floating point. A hand position
is a number of counts from the mechanical minimum; `mount` says, once for each
axis, what the encoder shows there and which way it counts, and `at` remembers
where the axis really was when a sample was captured. An axis in `Unreliable` may
refuse frames, never acknowledge, or send bad replies. The code stores the count of a
reply, DATA[4:5], before it judges the reply, and judges it by DATA[2:3] alone; so the
count of a bad reply is any word below `RawLimit` (2^16), in a reply that passes or not,
and a sample need not be a count of the encoder. What the warnings say of such a sample
is only what `RepeatIsWarned` says; the other properties of the printed map are about
samples that the encoder showed. When CAN set-up fails (`can_ready` false) the
firmware only ever blocks captures; that start is not modelled.

## 3. What the runs check

| Run | Question | Result |
|---|---|---|
| `gimbal_safety` | Is the controller safe under all interleavings, with refused sends, lost replies, restarts and an axis that may leave its range? | holds |
| `gimbal_live` | Does anything wait for ever when frames may stay outstanding for ever and the controller may restart? Does it implement `GimbalModes` and `TxSlot`? | holds |
| `plant` | With real axes on a healthy bus: do the time constants fit together, does START lead to READY, do the axes go where they are told, inside their stops? | holds |
| `app` | Are presses counted right, does the display never hold up the motors, does the screen follow, from power-on? | holds |
| `portable` | Does the portable driver, used as its README asks, keep true angles and move exactly to its targets? | holds |
| `transport` | Is the interrupt harmless wherever it runs in `send_frame`? | holds |
| `calibration` | Are the printed map and its warnings right, whatever the mounting and the age of the readings? | holds |
| `calibration_live` | Is a motor still read when the other is absent? | holds |
| `plant_drag` | Does an axis stay inside its stops if a slider is moved while it is under way? | violated |
| `app_can_failed` | Is the tap that "FAULT - TAP CAL" asks for acted upon when CAN set-up failed? | violated |
| `gimbal_fault_stop` | Does FAULT stop both motors, as `README.md` l.41 and l.68 say? | violated |
| `gimbal_enable_lost` | Does pitch hold in READY (l.276-278) if a frame may fail on the bus? | violated |

Some of what the properties say:

- `ArmedIsSupervised`, `MotionGuarded`: no turn ends armed with an axis stale or out
  of range, and no enable or position frame is queued then either. They are stated
  with `KnownSafe`, apart from the tests the code makes.
- `FeedbackPostdatesRequest`: a position cached before START never proves an axis.
- `OncePerChange`, `NoLostTarget`, `TargetServed`: each accepted target is commanded
  once, not twice and not never, although half of a turn's sends may be refused.
- `FaultNeedsNewRequest`: a turn that enters FAULT leaves no request waiting, so that only a
  request recorded later starts the gimbal again. A tap is recorded when its handler gets
  `gimbal_mutex` (`main.c` l.174): one that was polled before the fault and is still waiting
  for the mutex is recorded after it, and does end it.
- `PositionToEnabledMotor`: between the release of yaw and its next motion, the
  motor has acted on an enable frame.
- `PitchHolds`: in READY, pitch is enabled or being enabled. It holds unless frames
  fail on the bus.
- `StartResolves`, `CenteringEnds`, `WatchdogTrips`: a START check, a centering, and an
  armed state with a dead axis all end, although early returns skip timeouts.
- `NoSpuriousFault`, `StartReachesReady`: with time constants that fit together as those of
  `app_config.h` do, and axes that really move, no timeout, watchdog, range or divergence
  guard gives a false alarm, and a START leads to READY.
- `WithinStops`, `RestsAtTarget`, `TargetReached`: although commands are increments,
  computed from old angles, and yaw is stopped and released at its target, an axis
  ends at its target and is never sent past a stop, if the user moves a slider at rest.
- `OnePressOneRequest`: a contact asks exactly once if it was first seen on the button and
  the lift before it was seen, however it is dragged and whichever reads fail. Each
  malformed report may add one request (`touch.c` l.85 takes it for a lift).
- `MotorKeepsTurning`: even a display write that never returns does not stop the motor
  thread. `ScreenCatchesUp`: if writes return, the screen shows the state and the button
  once these stop changing, even if every touch read fails.
- `AngleWasTrue`, `WithinLimits`, `MovesToTarget`: what the portable driver calls an angle
  was one; its increments end exactly at their targets, inside the limits.
- `PendingIsOutstanding`, `BuffersSuffice`, `AlwaysFreed`: the flag neither leaks nor
  lies, and an absent motor's frame never takes the buffer the other one needs.
- `EndpointsRecovered`: captured by the book, there is no warning, and the printed map
  decodes every position of the travel, wherever the encoder's zero lies.
- `PathIsContinuous`: without a warning, captures in mechanical order give the true
  direction and span. The calibration firmware's README (l.42-43) says that both circular
  directions are evaluated; the code takes the two shortest differences and warns when
  they disagree, and this property is what that comes to.
- `SingleOutlierIsWarned`: one capture from a wrong place, stale or too early, further off
  than the tolerance can hide, is always warned about. `RepeatIsWarned`: so are two
  successive steps of an axis with the same count, whatever words the three samples are. A
  press that a touch glitch doubles gives such a pair, unless its second capture belongs to
  the other axis or a new reading arrived in between. `OwnReadings`: no sample of a reliable
  axis is of the other axis or of no reply.

### Findings

1. **FAULT with a motor still driven** (`gimbal_fault_stop`). A turn that queues the
   position poll and then finds divergence or the centering timeout calls
   `enter_fault` at once; both stops are refused with `-EBUSY`, the results are
   discarded, and FAULT sends nothing again. The motion in progress runs on, on a
   healthy bus.
2. **READY with pitch not enabled** (`gimbal_enable_lost`). `pitch_enabled` is set when
   the 0x88 frame is queued. When it then fails on the bus the error is stored and
   never read; if pitch is near home, centering succeeds and READY is reached.

3. **An axis sent past its stop** (`plant_drag`). When a slider is moved while its axis is
   under way, the increment is computed from the last 0x90 angle (`lkm_motor.c` l.208),
   up to a poll period old; the motor adds it to where it is now. `README.md` l.72 says
   that the UI's ranges keep commanded targets away from the stops. The size of the
   overshoot is the distance travelled since that reading, so the bound on the real
   device is its speed times the poll period and the reply's delay.
4. **A tap that nothing serves** (`app_can_failed`). After a failed `configure_can` no
   motor thread exists, and the CALIBRATE request that "FAULT - TAP CAL" asks for
   stays set for ever.

Limits of the code that the models contain and no document denies: a lift that falls
between two polls makes the next press ask for nothing (`contact.fresh`); a malformed
report can make one press ask twice; a press that waits for the mutex while a turn enters
FAULT ends the fault at once; and the count of a rejected reply can be captured.

### Bounds

- *Time.* One unit is a turn of the motor loop, and the thresholds keep the order
  of `app_config.h`. `plant`, `plant_drag` and `gimbal_fault_stop` keep rough
  ratios too (a turn takes one unit or two, so jitter is included, and an axis covers
  several degrees between two polls). The other runs use the
  smallest thresholds at which every comparison can come out both ways; more
  units would repeat the same comparisons. `MCPlant` assumes `TurnsAreShort` and
  `HomeIsNear` (section 4), so TLC evaluates them in both plant runs.
- *Angles.* For each axis there is an angle on either side of each comparison that
  the run is about: home, near home, near the far end, outside the hard range.
- `MaxOwed`: 0x90 replies of one motor under way. One is enough for a stale reply to
  cross a new request; the plant runs allow two.
- *Plant.* Both axes are parked off home, on either side of it. The slider of yaw, the
  axis that is released at rest, takes two values near the two ends of its range; pitch
  is left at home, since commands to it differ only in that it is never released, and
  two sliders at once would exceed the time of a run.
- *Application.* One axis stands for both sliders, which the UI treats alike; one
  malformed report and three requests for each contact; a refresh every second turn.
- *Portable driver.* An encoder of 16 counts, mounted backwards across its zero, with an
  axis that covers most of a turn, two frames each way, targets at one end, inside and
  outside the limits, and two configurations that `init` must refuse.
- *Transport.* Two motors share two buffers, the fewest the assumption allows.
- *Calibration.* An encoder of 32 counts with a yaw axis of 27, more than half a turn
  as in the product, mounted both ways so that its path crosses the encoder's
  zero. Yaw is captured at 0, 12, 21 and 27: the middle within tolerance and outside it.
  Pitch is short: it is there to be mixed up with yaw. A word holds two turns, and a bad
  reply of yaw carries one that is no count of the encoder, with its other field in range
  or not. `calibration_live` leaves the axes alone.

The queue of received frames is not bounded at 32; a reply that overflows it is a
lost one, which `MayLose` allows.

### Fairness

- `FairSpec`: the motor thread goes on. It has the highest application priority, it
  blocks only on the mutex, which the UI holds for short in-memory updates, and
  `k_msleep` returns. Nothing is assumed of the bus: a frame may stay outstanding.
- `PlantFairSpec`: the motor thread goes on, and each motor acknowledges its frames, since
  both are present. `Prompt` further says that a frame and its reply are through
  before the next turn; it is used only where the question is about a healthy bus.
- `GimbalApp`: both threads run whenever they can. The motor thread has the higher
  priority and sleeps in every turn, so main runs too. Nothing is assumed of the
  display (`Written` is not fair) or of the user; `ScreenCatchesUp` and
  `FaultTapServed` say in their premises that display writes return.
- `LkmTransport`: a send goes on to its end. `AlwaysFreed` also needs the controller
  to complete each frame; the safety properties do not.
- `Calibration`: the loop comes round, and motors outside `Unreliable` acknowledge.

Deadlock is not an error in these runs: when the bus is silent and the modelled
world has nothing left to do, a model may stop.

## 4. What is proved

Each theorem holds for every value of the constants that the module's assumptions
allow. In every proof module the inductive invariant comes first, then one lemma for
each action or group of actions that may disturb it, then the theorems.

| Module | Theorem | Property of a run |
|---|---|---|
| `GimbalProofs` | `TypeCorrect` | `TypeOK` |
| | `AlwaysSupervised`, `MotionIsGuarded` | `ArmedIsSupervised`, `MotionGuarded` |
| | `StartNeedsNewFeedback` | `FeedbackPostdatesRequest` |
| | `TargetsAreKept`, `CommandedOnce` | `NoLostTarget`, `OncePerChange` |
| | `PositionsGoToEnabledMotors`, `PitchIsHeld` | `PositionToEnabledMotor`, `PitchHolds` |
| | `GimbalImplementsModes`, `GimbalImplementsSlots` | `ImplementsModes`, `ImplementsSlots` |
| | `FaultEndsByNewRequest` | `FaultNeedsNewRequest` |
| `PlantProofs` | `PlantImplementsGimbal` | (every safety theorem of `Gimbal` holds with axes) |
| | `MotorsStayWithinStops` | `WithinStops` |
| | `GimbalRestsAtTarget` | `RestsAtTarget` |
| `FaultProofs` | `GuardsGiveNoFalseAlarm` | `NoSpuriousFault` |
| `LkmTransportProofs` | `TransportTypeCorrect`, `FlagMatchesMailbox` | `TypeOK`, `PendingIsOutstanding` |
| | `BuffersAlwaysSuffice`, `TransportImplementsSlots` | `BuffersSuffice`, `ImplementsSlots` |
| `EncoderProofs` | `DecodeUndoesMounting`, `RepeatNeverConsistent`, `OneWayIsContinuous` | (used by the next two) |
| `CalibrationProofs` | `CalibrationTypeCorrect`, `SamplesAreOwnReadings` | `TypeOK`, `OwnReadings` |
| | `UnwarnedPathIsTrue`, `RepeatsAreWarned` | `PathIsContinuous`, `RepeatIsWarned` |
| | `BookGivesTheMap`, `OutliersAreWarned` | `EndpointsRecovered`, `SingleOutlierIsWarned` |
| `PortableProofs` | `PortableTypeCorrect`, `ReadingsAreTrue` | `TypeOK`, `AngleWasTrue` |
| | `MotionStaysWithinLimits`, `IncrementsReachTheirTarget` | `WithinLimits`, `MovesToTarget` |
| `AppProofs` | `AppTypeCorrect`, `PressesAskOnce` | `TypeOK`, `OnePressOneRequest` |
| | `GimbalIsLocked`, `FaultWaitsForRequest` | (about both threads at once) |

### The arguments

**The controller.** `SupervisionInv`: from the check at l.257 to the end of the turn, an
armed controller has recent in-range feedback. `ArmedIsSupervised` speaks of the end
of a turn only and is not inductive: what carries it through the turn is the place
`pc` has reached. `TargetInv` follows the flags from the setter through the re-enable
turn to the command. `DriveInv`: while armed, and until a fault is being entered, an
axis that counts as enabled is *held* (its motor is enabled with no stop on the way, or
its enable frame is on the way). The exception is needed: a START that is refused half
way has stopped yaw while its flag is still set. `FaultNeedsNewRequest` needs that no request is
waiting wherever a turn has got past the first test of `gimbal_tick`; the mutex, which
keeps the UI out, is what preserves this.

**The axes** (`PlantProofs`). An increment is right only if it is taken from where the
axis is, and lands where the axis was told to go only if the axis does not move
meanwhile. So `WithinStops` rests on three facts that hold together: every increment
on the bus leads from the axis's position to its target (`BoundsInv`); an axis with a
command pending is *at rest* and every angle and reply about it is where it is
(`RestInv`); and a turn decides with no frame outstanding and no reply under way
(`PromptInv`). Rest begins with the two stops of a START, which is why the START may
forget all feedback and still be safe, and is kept until the command is queued.
`RestsAtTarget` adds `CourseInv`: an axis without a pending command is heading for its
target, or rests near it, or its command is on the bus; and whatever was *seen* of it
is no nearer to its target than the axis is now. The last clause is what makes two
decisions on old angles sound: to call the axes centered, and to stop and release yaw.

**No false alarm** (`FaultProofs`). Each kind of way into FAULT has a part of the
invariant that closes it:

- An angle out of range, or a command refused for its target: what is known of an axis is a
  position it had, and positions are in range (`RangeInv`). A refused send, or a frame
  outstanding for too long: at a decision no frame is outstanding (`PromptInv`), so that
  what is offered is sent.
- The timeout of a START: the check goes through three stages, asking yaw, asking pitch,
  hearing pitch, and the ages are bounded in each (`CheckInv`). When pitch answers, yaw's
  answer is at most `Lag` old, a query gap and a turn, and both prove the axes at once.
- The watchdog: polls go out whenever `FeedbackPoll` has passed, unless a turn commands or
  enables instead, or releases yaw. After one of these `motionAge` is zero, and `Jitter` is
  less than `ControlPeriod`, so another command is not due yet; yaw is released once. So at
  most two turns in a row fail to poll when a poll is due (`DelayedOnce`, `DelayedTwice`),
  and the feedback is never older than a poll period, a lag and three turns (`FreshInv`).
- Divergence: while centering, what was seen and what is on the bus is never further off
  than at the start (`Homing`, from `CourseInv`).
- The centering timeout: the distance left plus the speed times the time spent never exceeds
  the tolerance plus the speed times `TravelTime` (`Leaves`). Seen from the turn that
  decides, the angle known is late by the age of the feedback and a turn; the command came
  at most a control period and a turn after the state began. `TravelTime` is the timeout
  less all of these.

**The transport.** `PendingIsOutstanding` speaks of the time between sends only;
`TransportInv` adds in which way flag and mailbox may differ while a send is under way,
and what the send is about to do about it. For `BuffersSuffice`, the frames in the
controller are counted by an injection into the motors.

**The encoder.** Wrapping is reasoned about once: two counts that differ by `x` modulo a
turn, with `x` less than half a turn, have `WrappedDelta` `x`. Decoding, the direction
and the span follow, and so does what the code's comparison of two signs excludes. The
arithmetic of the warnings is multiplied out, and products are handled by lemmas
(`TimesMonotonic`, `TimesCancels`), since the prover's linear arithmetic does not.

**The calibration.** `CapturedInv` knows of a sample only that it is a word; that it is a
count of the encoder is concluded where a property says that the encoder showed it.
`ReadingInv` follows each count of a reliable motor from the reply through the cached
reading to the sample. The theorems about the printed map then use
the arithmetic only, so they hold for any order of captures the code allows.

**The portable driver.** At most one increment is under way, the axis waits for it, and
it leads from where the axis is to a target inside the limits (`OrdersInv`); everything
in the receive queue that the driver would accept is a true count (`AnswersInv`).

**The application.** A budget: the requests of a contact, plus the press that has not
been seen and the one that is being handled, never exceed one plus the malformed
reports. With no malformed report, `Started` makes this exact. `GimbalIsLocked` and
`FaultWaitsForRequest` rest on the mutex: while the motor thread is between its decision and
`enter_fault`, the UI cannot ask (`AnsweredInv`). So a request that ends a fault was recorded
during it, by a handler that ran after the fault's turn; the press behind it may be older.

### The assumptions

They are those of the modules, and weaker than what the code has:

- The order of the time constants (`TimingAssumption`) and of the limits
  (`AngleAssumption`), at least one reply under way (`BusAssumption`), and a buffer for
  each motor (`TransportAssumption`).
- `PositionsGoToEnabledMotors` and `PitchIsHeld` suppose that no queued frame fails on
  the bus; the run `gimbal_enable_lost` shows that they need it.
- `PlantProofs` supposes a bus that is prompt and loses nothing, and a user who moves a
  slider only at rest (`Patient`); `plant_drag` shows that this is needed. Frames may
  still be refused by `can_send`. `IdleTol <= CenterTol` holds in `app_config.h` (1 and 2
  degrees); otherwise yaw could be released further off than centering allows.
- `GuardsGiveNoFalseAlarm` further supposes that `can_send` refuses nothing, and the two
  relations of `PlantTiming`, which no `ASSUME` or comment of the code states:
  - `TurnsAreShort`: a turn of the motor loop takes at most `Jitter`, less than the control
    period; a query gap and two turns are within the age a START accepts; a poll, a query
    gap and four turns are within the stale limit. In `app_config.h` these are 50, 50,
    1000, 100 and 2000 ms, so any `Jitter` below 50 ms will do; the loop sleeps for 10.
  - `HomeIsNear`: an axis can travel from either stop to within the centering tolerance
    in the centering timeout less a control period, a poll, a query gap and five turns. On
    the device, with the longest such turns, that is 170.5 degrees in 19.55 s, or 8.8 degrees
    a second; axes are sent home at 30.

  The run `plant` has values that satisfy both, at the limits or close to them: the stale
  limit is exactly what is needed, and the axes have five degrees to go and time for six.
- `PlantImplementsGimbal` takes `Feedback` to be all angles: `Gimbal` is then at its most
  general, and the plant does not use that constant.
- `TravelAssumption`: half the travel plus the tolerance of the middle is less than half
  a turn, and the travel spans the counts per degree the firmware demands. On the
  device the travels are 345 and 180 degrees at about 92 counts a degree on an
  encoder of 32768, with a tolerance of 2 degrees and a minimum of 50 counts a degree.
- `RawAssumption`: the counts of the encoder fit into `encoder_raw`. `BenchAssumption`: the
  operator moves an axis between its stops only, the encoder counts up or down from some
  count at the minimum, and a bad reply holds any word.
- `PortableAssumption`: the limits lie within half a turn of the middle.

### What the proofs corrected

- Half the travel has to be *strictly* less than half a turn: at exactly half a turn the
  two directions are equally short and the code takes one by convention.
- A single outlier at a stop is certain to be warned about only when it is further off
  than *four* times the tolerance of the middle: the tolerance test is on the middle,
  where half of the error shows, and a middle captured at the edge of its own
  tolerance hides as much again.
- `RestsAtTarget` used to exclude the turn in which yaw's release is still pending; the
  invariant does not need the exclusion, and the property now covers that turn too.

### Only model-checked

- Every liveness property (`StartResolves`, `CenteringEnds`, `WatchdogTrips`, `TargetServed`,
  `StartReachesReady`, `TargetReached`, `AlwaysFreed`, `ReliableStillRead`,
  `MotorKeepsTurning`, `ScreenCatchesUp`): the prover has no fairness or ENABLED.
- The findings, which are counterexamples.

## 5. Plan

All components that have behaviour are modelled, and every safety invariant and every
safety property of a run's steps is proved. What is left is out of the prover's reach, or
a matter of changing the code:

1. Liveness stays with TLC. `GuardsGiveNoFalseAlarm` is most of `StartReachesReady`: what the
   theorem leaves to TLC is that a centering which cannot fail does end.
2. If a finding is fixed, its run becomes a passing one. With stops that FAULT repeats until
   they are sent, `FaultIsStopped` joins `gimbal_safety`; with increments taken at rest only,
   `Patient` can be dropped from the theorems about the axes.
3. Faults of the bus together with moving axes, for which `GimbalPlant` needs replies that
   are lost and an axis that stops when its motor does.

## 6. Not modelled

- Rendering, LCD, I2C and GPIO access, logging, and the error bookkeeping that only
  logging uses (`last_tx_error`).
- Speeds, temperature and power fields, and the 0xA8 frame's bytes.
- Floating-point rounding: angles are integers, or exact counts.
- CAN bit timing, filters and bus-off recovery, which the driver handles; what they
  do to a frame is `TxComplete`, `LoseReply` and refusal.
- The size of the receive queue: an overflowing reply is a lost one.
- Faults of the bus together with moving axes: `Gimbal` has the faults with arbitrary
  angles, `GimbalPlant` the axes on a healthy bus.
- The start of the calibration firmware with devices missing.
- Build and board configuration, which has no behaviour of its own.
