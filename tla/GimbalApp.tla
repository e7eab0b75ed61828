------------------------------ MODULE GimbalApp ------------------------------
(***************************************************************************)
(* The application of projects/can_driver_ms: main.c starts the display,   *)
(* the touch controller, the CAN bus and the motor thread, and then runs   *)
(* the UI thread: round_ui.c turns touches into requests and draws the     *)
(* state.  The gimbal itself appears as its abstract modes (GimbalModes),  *)
(* which Gimbal implements; gimbal_mutex is here a mutex.                  *)
(***************************************************************************)
EXTENDS Touch

CONSTANTS
    Axis,
    RefreshPeriod   \* APP_UI_REFRESH_MS, in turns of the UI loop

ASSUME AppAssumption == RefreshPeriod \in Nat \ {0}

VARIABLES
    ui,             \* where main() is
    motor,          \* where motor_task() is; "none": not to be created
    mutex,          \* who owns gimbal_mutex: "ui", "motor" or "free"
    mode, asked, supervised, pending,   \* app_gimbal
    button,         \* action_button_pressed
    snapshot,       \* the mode in main's snapshot
    shown,          \* external: the mode and the button on the screen
    uiAge           \* time since the last refresh, no further than its period

Modes == INSTANCE GimbalModes

gimbal == <<mode, asked, supervised, pending>>
screen == <<button, snapshot, shown, uiAge>>
vars == <<touchVars, ui, motor, mutex, gimbal, screen>>

UiPlaces == {"display", "write1", "devices", "write2", "create",
             "poll", "handle", "copy", "write", "gone"}
Writing == {"write1", "write2", "write"}
MotorPlaces == {"none", "created", "sleep", "waiting", "tick", "fault"}
ModeNames == {"BOOT", "WAITING", "CENTERING", "READY", "FAULT"}

-----------------------------------------------------------------------------
(* gimbal_mutex: a free mutex is taken at once, and an unlock hands it to    *)
(* the thread that waits.                                                    *)

Lock(who) == mutex' = IF mutex = "free" THEN who ELSE mutex

UiWaits == ui \in {"handle", "copy"}
MotorWaits == motor = "waiting"

UiUnlock == mutex' = IF MotorWaits THEN "motor" ELSE "free"

\* Mutant: the display is written under the lock.
KeepLock == UNCHANGED mutex
\* The snapshot is drawn outside the lock.
UnlockToDraw == UiUnlock

MotorUnlock == mutex' = IF UiWaits THEN "ui" ELSE "free"

-----------------------------------------------------------------------------
(* main: start-up *)

Init ==
    /\ TouchInit
    /\ ui = "display" /\ motor = "none" /\ mutex = "free"
    /\ mode = "BOOT" /\ asked = FALSE /\ supervised = FALSE /\ pending = Axis
    /\ button = FALSE /\ snapshot = "BOOT"
    /\ shown = [mode |-> "BOOT", button |-> FALSE]
    /\ uiAge = RefreshPeriod

\* round_ui_init; without a display main returns.
StartDisplay ==
    /\ ui = "display"
    /\ ui' \in {"write1", "gone"}
    /\ UNCHANGED <<touchVars, motor, mutex, gimbal, screen>>

\* touch_init and configure_can.  Without the bus there is no motor thread.
StartDevices ==
    /\ ui = "devices"
    /\ \E touchOk, canOk \in BOOLEAN :
        /\ mode' = IF touchOk /\ canOk THEN mode ELSE "FAULT"
        /\ motor' = IF canOk THEN "created" ELSE "none"
    /\ snapshot' = mode'
    /\ ui' = "write2"
    /\ UNCHANGED <<touchVars, mutex, asked, supervised, pending, button, shown,
                   uiAge>>

\* k_thread_create, after the second screen was written.
StartThread ==
    /\ ui = "create"
    /\ motor' = IF motor = "created" THEN "sleep" ELSE motor
    /\ ui' = "poll"
    /\ UNCHANGED <<touchVars, mutex, gimbal, screen>>

\* display_write returns; it may have taken longer than a refresh period.
Written ==
    /\ ui \in Writing
    /\ shown' = [mode |-> snapshot, button |-> button]
    /\ ui' = IF ui = "write1" THEN "devices"
             ELSE IF ui = "write2" THEN "create" ELSE "poll"
    /\ uiAge' \in {uiAge, RefreshPeriod}
    /\ UNCHANGED <<touchVars, motor, mutex, gimbal, button, snapshot>>

-----------------------------------------------------------------------------
(* main: the UI loop *)

\* Mutant: the refresh timer runs on.
AgedOn == uiAge + 1
Aged == IF uiAge < RefreshPeriod THEN uiAge + 1 ELSE uiAge

\* What follows the handler: a refresh if it is due.
Refresh(age) ==
    IF age >= RefreshPeriod THEN ui' = "copy" ELSE ui' = "poll"

Poll ==
    /\ ui = "poll"
    /\ PollOk
    /\ ui' = "handle" /\ Lock("ui")
    /\ uiAge' = Aged
    /\ UNCHANGED <<motor, gimbal, button, snapshot, shown>>

\* The handler is not called.
PollFailed ==
    /\ ui = "poll"
    /\ PollError
    /\ Refresh(Aged)
    /\ IF ui' = "copy" THEN Lock("ui") ELSE UNCHANGED mutex
    /\ uiAge' = Aged
    /\ UNCHANGED <<motor, gimbal, button, snapshot, shown>>

HandledUnderLock == ui = "handle" /\ mutex = "ui"

\* The event changed what is to be seen: the snapshot is drawn at once.
Redraw ==
    /\ snapshot' = mode
    /\ UnlockToDraw
    /\ ui' = "write" /\ uiAge' = 0
    /\ UNCHANGED <<finger, touch, motor, shown>>

\* round_ui_handle_touch: the highlighted button is released.
HandleRelease ==
    /\ HandledUnderLock
    /\ ~touch.pressed /\ button
    /\ button' = FALSE
    /\ Redraw
    /\ UNCHANGED <<contact, gimbal>>

OnButton == touch.pressed /\ touch.just /\ touch.place = "button"

\* round_ui_handle_touch: START or CALIBRATE.
HandleButton ==
    /\ HandledUnderLock
    /\ OnButton
    /\ button' = TRUE
    /\ Modes!Ask
    /\ CountAsk
    /\ Redraw

\* A slider is live in READY only.
OnSlider ==
    touch.pressed /\ touch.place = "slider" /\ mode = "READY"

\* round_ui_handle_touch: a slider moved by more than the deadband.
HandleSlider ==
    /\ HandledUnderLock
    /\ OnSlider
    /\ \E a \in Axis : Modes!Retarget(a)
    /\ Redraw
    /\ UNCHANGED <<contact, button>>

\* round_ui_handle_touch: nothing to do, or less than the deadband.
HandleNothing ==
    /\ HandledUnderLock
    /\ ~(~touch.pressed /\ button) /\ ~OnButton
    /\ snapshot' = mode
    /\ Refresh(uiAge)
    /\ mutex' = IF MotorWaits THEN "motor" ELSE IF ui' = "copy" THEN "ui" ELSE "free"
    /\ UNCHANGED <<touchVars, motor, gimbal, button, shown, uiAge>>

\* Mutant: the picture is drawn from the last snapshot.
KeepSnapshot == UNCHANGED snapshot
CopySnapshot == snapshot' = mode

\* copy_gimbal_snapshot, and the periodic refresh.
CopyAndDraw ==
    /\ ui = "copy" /\ mutex = "ui"
    /\ CopySnapshot
    /\ UnlockToDraw
    /\ ui' = "write" /\ uiAge' = 0
    /\ UNCHANGED <<touchVars, motor, gimbal, button, shown>>

-----------------------------------------------------------------------------
(* motor_task *)

MotorWake ==
    /\ motor = "sleep"
    /\ motor' = "waiting" /\ Lock("motor")
    /\ UNCHANGED <<touchVars, ui, gimbal, screen>>

\* The received frames are taken: feedback comes and goes.
Drain ==
    /\ motor = "waiting" /\ mutex = "motor"
    /\ Modes!Sense
    /\ motor' = "tick"
    /\ UNCHANGED <<touchVars, ui, mutex, screen>>

\* gimbal_tick: a request is answered, or else the mode decides.
TickAnswer ==
    /\ motor = "tick" /\ Modes!Answer
    /\ \/ mode' = "WAITING" /\ motor' = "sleep" /\ MotorUnlock
       \/ mode' = mode /\ motor' = "fault" /\ UNCHANGED mutex
    /\ UNCHANGED <<touchVars, ui, screen>>

TickMode ==
    /\ motor = "tick"
    /\ Modes!Arm \/ Modes!Command \/ Modes!Arrive
    /\ motor' = "sleep" /\ MotorUnlock
    /\ UNCHANGED <<touchVars, ui, screen>>

TickStay ==
    /\ motor = "tick" /\ ~asked
    /\ \/ motor' = "sleep" /\ MotorUnlock
       \/ mode \notin {"BOOT", "FAULT"} /\ motor' = "fault" /\ UNCHANGED mutex
    /\ UNCHANGED <<touchVars, ui, gimbal, screen>>

\* enter_fault
MotorFault ==
    /\ motor = "fault" /\ Modes!Fail
    /\ motor' = "sleep" /\ MotorUnlock
    /\ UNCHANGED <<touchVars, ui, screen>>

-----------------------------------------------------------------------------
UiLoop ==
    \/ Poll \/ PollFailed \/ CopyAndDraw
    \/ HandleRelease \/ HandleButton \/ HandleSlider \/ HandleNothing

StartUp == StartDisplay \/ StartDevices \/ StartThread

MotorTask ==
    MotorWake \/ Drain \/ TickAnswer \/ TickMode \/ TickStay \/ MotorFault

\* What the finger does between a poll and its handler only the next poll can
\* see, so it is left to happen after the handler.
User ==
    /\ ui # "handle"
    /\ FingerMoves
    /\ UNCHANGED <<ui, motor, mutex, gimbal, screen>>

Next == StartUp \/ UiLoop \/ Written \/ MotorTask \/ User

\* Both threads run whenever they can: the motor thread has the higher priority
\* and sleeps in every turn.  Nothing is assumed of the display: display_write
\* may never return.  The user does as he likes.
Spec ==
    /\ Init /\ [][Next]_vars
    /\ WF_vars(MotorTask) /\ WF_vars(StartUp \/ UiLoop)

-----------------------------------------------------------------------------
(* Properties *)

\* Every variable has its type, and the mutex an owner that uses it.
TypeOK ==
    /\ TouchTypeOK
    /\ ui \in UiPlaces /\ motor \in MotorPlaces
    /\ mutex = "ui" => UiWaits
    /\ mutex = "motor" <=> motor \in {"tick", "fault"} \/ (MotorWaits /\ mutex # "ui")
    /\ mode \in ModeNames /\ asked \in BOOLEAN /\ supervised \in BOOLEAN
    /\ pending \subseteq Axis
    /\ button \in BOOLEAN /\ snapshot \in ModeNames
    /\ shown \in [mode : ModeNames, button : BOOLEAN]
    /\ uiAge \in 0 .. RefreshPeriod

\* One press is one request, wherever the finger is dragged and whatever reads
\* fail: a contact asks once if it is first seen on the button, and never
\* otherwise.  Each malformed report (touch.c:85) may add one more.
OnePressOneRequest ==
    /\ contact.asks <= 1 + contact.glitches
    /\ contact.glitches = 0 /\ contact.first # "none" /\ ui = "poll" =>
           contact.asks = IF contact.fresh /\ contact.first = "button" THEN 1 ELSE 0

\* The motor thread, once created, always gets its next turn, even while a
\* display write never returns ("display I/O cannot delay feedback supervision
\* or motion safety checks", main.c:6).
MotorKeepsTurning == motor = "sleep" ~> motor = "tick"

\* If the display works, the screen comes to show the mode and the button as
\* they are, once they stop changing, even with a touch controller that fails.
ScreenCatchesUp ==
    /\ []<>(ui \notin Writing)
    /\ <>[](ui # "gone")
    /\ <>[][UNCHANGED <<mode, button>>]_vars
    => <>[](shown = [mode |-> mode, button |-> button])

\* In FAULT, with a working display, a tap on CALIBRATE is acted upon: the screen
\* says "FAULT - TAP CAL" (round_ui.c:284).
FaultTapServed ==
    []<>(ui \notin Writing) => (mode = "FAULT" /\ asked ~> ~asked)
=============================================================================
