----------------------------- MODULE GimbalPlant -----------------------------
(***************************************************************************)
(* The gimbal controller (Gimbal) with the two motors it drives.  In       *)
(* Gimbal a 0x90 reply carries any angle at all; here it carries the       *)
(* position the axis had when the motor answered, and the axis moves while *)
(* its motor executes the increment of the last 0xA8 command.              *)
(*                                                                         *)
(* The motors are external: their behaviour is what lkm_motor.c relies on. *)
(* An increment counts from where the axis is when the command arrives.    *)
(* No frame fails or is lost: Gimbal has those faults.                     *)
(***************************************************************************)
EXTENDS Gimbal, Sequences

CONSTANTS
    Speed,          \* degrees an axis moves in a unit of time
    Parked,         \* where each axis may be when the power comes on
    Patient         \* the user lets an axis come to rest before moving a slider

ASSUME PlantAssumption ==
    /\ Speed \in Nat \ {0}
    /\ Parked \in [Axis -> SUBSET Int]
    /\ \A a \in Axis : Parked[a] \subseteq HardMin[a] .. HardMax[a]
    /\ Patient \in BOOLEAN
    /\ IdleTol <= CenterTol
    /\ ~MayFail /\ ~MayLose /\ ~MayReset

VARIABLES
    position,       \* external: the mechanical angle of each axis
    goal,           \* external: where its motor is taking it
    increment,      \* the increment in the 0xA8 frame outstanding
    reading         \* external: the positions in the replies under way

plant == <<position, goal>>
plantVars == <<vars, plant, increment, reading>>

PlantInit ==
    /\ Init
    /\ \E yaw \in Parked[Yaw] : \E pitch \in Parked[Pitch] :
        position = [a \in Axis |-> IF a = Yaw THEN yaw ELSE pitch]
    /\ goal = position
    /\ increment = [a \in Axis |-> 0]
    /\ reading = [a \in Axis |-> <<>>]

\* One step of at most d towards g.
Approach(p, g, d) ==
    IF Abs(g - p) <= d THEN g ELSE IF g > p THEN p + d ELSE p - d

\* While the loop sleeps the axes move.
PlantWake(d) ==
    /\ Wake(d)
    /\ position' = [a \in Axis |-> Approach(position[a], goal[a], Speed * d)]
    /\ UNCHANGED <<goal, increment, reading>>

PlantReceive(a) ==
    /\ reading[a] # <<>>
    /\ ProcessFrame(a, Head(reading[a]))
    /\ reading' = [reading EXCEPT ![a] = Tail(@)]
    /\ UNCHANGED <<plant, increment>>

PlantDrainDone == DrainDone /\ UNCHANGED <<plant, increment, reading>>

\* Mutant: the increment counts from home, not from where the axis was seen.
IncrementFromHome(a) == target[a] - Center[a]
\* "Always derive its increment from the latest verified mechanical angle."
Increment(a) == target[a] - angle[a]

PlantTick ==
    /\ Tick
    /\ increment' = [a \in Axis |->
           IF tx'[a] = "pos" /\ ~TxPending(a) THEN Increment(a) ELSE increment[a]]
    /\ UNCHANGED <<plant, reading>>

\* A motor receives its frame: it sets out, stops where it is, or answers.
PlantComplete(a) ==
    /\ TxComplete(a)
    /\ goal' = [goal EXCEPT ![a] =
           IF tx[a] = "pos" /\ motor[a] # "idle" THEN position[a] + increment[a]
           ELSE IF tx[a] = "stop" THEN position[a] ELSE @]
    /\ increment' = [increment EXCEPT ![a] = 0]
    /\ reading' = IF owed'[a] > owed[a]
                  THEN [reading EXCEPT ![a] = Append(@, position[a])] ELSE reading
    /\ UNCHANGED position

PlantPress == PressButton /\ UNCHANGED <<plant, increment, reading>>

\* The axis is at rest and was seen there, and no motion of it is on the bus.
Settled(a) ==
    goal[a] = position[a] /\ angle[a] = position[a] /\ tx[a] # "pos"

PlantSetTarget(a, deg) ==
    /\ Patient => Settled(a)
    /\ SetTarget(a, deg)
    /\ UNCHANGED <<plant, increment, reading>>

PlantMotorThread ==
    \/ \E d \in Elapse : PlantWake(d)
    \/ \E a \in Axis : PlantReceive(a)
    \/ PlantDrainDone
    \/ PlantTick

PlantNext ==
    \/ PlantMotorThread
    \/ \E a \in Axis : PlantComplete(a)
    \/ PlantPress
    \/ \E a \in Axis : \E deg \in Slider[a] : PlantSetTarget(a, deg)

PlantSpec == PlantInit /\ [][PlantNext]_plantVars

\* The motor thread always runs again, and both motors are present.
PlantFairSpec ==
    /\ PlantSpec
    /\ WF_plantVars(PlantMotorThread)
    /\ \A a \in Axis : WF_plantVars(PlantComplete(a))

-----------------------------------------------------------------------------
(* Properties *)

\* With motors that answer and follow, whatever the turns' jitter and the user's
\* requests, no timeout, watchdog or divergence guard ever gives a false alarm.
NoSpuriousFault == pc # "fault"

\* A START leads to READY wherever the axes were parked.
StartReachesReady == state = "WAITING" ~> state = "READY" \/ requests # {}

\* No motor is ever sent past a mechanical stop ("Conservative UI ranges keep
\* commanded targets away from physical stops", README.md:72).
WithinStops == \A a \in Axis : goal[a] \in HardMin[a] .. HardMax[a]

\* The gimbal is where it says: in READY, with no command left to send, an axis
\* that does not move is within the centering tolerance of its target, although
\* every command was an increment and yaw was released on the way.
RestsAtTarget ==
    state = "READY" /\ pc = "sleep" /\ dirty = {} /\ BusIdle =>
        \A a \in Axis : goal[a] = position[a]
                            => Abs(position[a] - target[a]) <= CenterTol

\* A slider target is reached, unless it is replaced or READY is left.
TargetReached ==
    \A a \in Axis : \A t \in Slider[a] :
        state = "READY" /\ target[a] = t
            ~> \/ Abs(position[a] - t) <= CenterTol
               \/ target[a] # t \/ state # "READY"
=============================================================================
